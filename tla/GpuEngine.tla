------------------------------ MODULE GpuEngine ------------------------------
(***************************************************************************)
(* The GPU engine (native/benchmark_core/src/gpu_benchmark.cpp): callers   *)
(* of Start, RequestStop and the destructor, the worker thread that runs   *)
(* the requested tests (WorkerMain, RunTest), and the device it drives     *)
(* through one command buffer and one fence.                               *)
(*                                                                         *)
(* A driver call may fail, a fence may time out with the submission still  *)
(* in flight, and the device may be lost at any moment.  A lost device     *)
(* takes no further submission; other calls may fail on it or not.         *)
(*                                                                         *)
(* A value is the number of measured batches it stands for.  Deadlines     *)
(* pass at any moment.  Which kernel variant is fastest is left open.      *)
(***************************************************************************)
EXTENDS Naturals, Sequences

CONSTANTS
  AllTests,    \* the tests in the order in which kAll runs them
  FpTests,     \* those with several kernel variants
  MemoryTest,  \* the one with buffers of its own
  Variants,    \* the kernel variants of an FP test, 0 is the baseline
  Passes,      \* passes of the choice between variants
  MaxRuns,     \* bound: how many runs are started
  MaxBatches   \* bound: how many batches of a test are measured

Tests == {AllTests[i] : i \in 1 .. Len(AllTests)}

ASSUME GpuAssumption ==
  /\ AllTests \in Seq(Tests)
  /\ AllTests # <<>>
  /\ \A i, j \in 1 .. Len(AllTests) : AllTests[i] = AllTests[j] => i = j
  /\ "kAll" \notin Tests
  /\ FpTests \subseteq Tests
  /\ 0 \in Variants
  /\ Passes \in Nat \ {0}
  /\ MaxRuns \in Nat
  /\ MaxBatches \in Nat

VARIABLES
  control,       \* who holds lifecycle_mutex_ across several steps, or the destructor
  stop,          \* stop_requested_
  next_run_id,   \* next_run_id_
  snapshot,      \* snapshot_: run_id, state, active_test, fatal_error
  item,          \* snapshot_.diagnostics: state and run_id of each test
  value,         \* the value of each test in snapshot_, in batches
  available,     \* context_: the tests that have a pipeline
  pipelines,     \* context_: the kernel variants that each test has
  memory_ready,  \* context_: the buffers of MemoryTest exist
  fatal,         \* context_.fatal_driver_error_
  stage,         \* where the worker is
  request,       \* what was asked for: a test or kAll
  index,         \* position of the active test in the sequence
  pending,       \* variants that the current pass has still to run
  pass,          \* pass over the variants
  variant,       \* the variant being run
  selected,      \* selected_fp_variant
  expired,       \* the deadline of warm-up or measurement has passed
  code,          \* the error that SetError is to publish
  waiting,       \* the worker waits for the fence
  inflight,      \* the device works on a submission
  lost,          \* the device is lost
  checked,       \* history: tests whose value was validated after its last batch
  validated,     \* history: the variants of the active test found valid in this run
  reported,      \* history: a submission fault, or a loss that a call told, failed a test
  asked,         \* history: runs that a caller asked to stop
  late           \* history: submissions of this run since the stop, up to 3

callVars == <<control, next_run_id, asked>>
contextVars == <<available, pipelines, memory_ready>>
faultVars == <<fatal, reported>>
deviceVars == <<inflight, lost>>
resultVars == <<item, value, checked>>
variantVars == <<pending, pass, variant, selected, validated>>
sequenceVars == <<request, index>>
vars == <<callVars, stop, snapshot, contextVars, faultVars, stage, sequenceVars,
          variantVars, expired, code, waiting, deviceVars, resultVars, late>>

Running == {"kWarmingUp", "kRunning", "kStopping"}
Terminal == {"kIdle", "kCompleted", "kStopped", "kError"}
ItemStates == {"kReady", "kUnavailable", "kRunning", "kCompleted", "kStopped", "kFailed"}

\* Where the worker submits to the device.
Batch == {"v_batch", "a_batch", "w_batch", "m_batch"}
ReadBack == {"v_read", "f_read"}

Snapshots ==
  [run_id : Nat, state : Running \cup Terminal, active_test : Tests \cup {"kNone"},
   fatal_error : BOOLEAN]
Items == [Tests -> [run_id : Nat, state : ItemStates]]

TypeOK ==
  /\ control \in {"free", "start_join", "start_launch", "destroy_join",
                  "destroy_context", "destroyed"}
  /\ stop \in BOOLEAN
  /\ next_run_id \in Nat \ {0}
  /\ snapshot \in Snapshots
  /\ item \in Items
  /\ value \in [Tests -> 0 .. MaxBatches]
  /\ available \in SUBSET Tests
  /\ pipelines \in [Tests -> SUBSET (Variants \cup {0})]
  /\ memory_ready \in BOOLEAN
  /\ fatal \in BOOLEAN
  /\ stage \in Batch \cup ReadBack \cup
       {"idle", "begin", "memory", "publish", "validate", "v_clear", "v_judge",
        "autotune", "warm_up", "clear", "start", "measure", "assess", "f_judge",
        "last_check", "advance", "end", "fail"}
  /\ request \in Tests \cup {"kAll"}
  /\ index \in 1 .. Len(AllTests)
  /\ pending \in SUBSET (Variants \cup {0})
  /\ pass \in 0 .. Passes
  /\ variant \in Variants
  /\ selected \in Variants
  /\ expired \in BOOLEAN
  /\ code \in {"none", "kErrorPipelineCreation", "kErrorBufferAllocation",
               "kErrorInvalidResult", "kErrorSubmission"}
  /\ waiting \in BOOLEAN
  /\ inflight \in BOOLEAN
  /\ lost \in BOOLEAN
  /\ checked \in SUBSET Tests
  /\ validated \in SUBSET Variants
  /\ reported \in BOOLEAN
  /\ asked \in SUBSET Nat
  /\ late \in 0 .. 3

ItemOf(t, run_id) ==
  [run_id |-> run_id, state |-> IF t \in available THEN "kReady" ELSE "kUnavailable"]

\* Initialize has created the pipelines that the driver accepted, optional
\* variants apart; with none of the tests usable no run is ever accepted.
Init ==
  /\ control = "free"
  /\ stop = FALSE
  /\ next_run_id = 1
  /\ snapshot = [run_id |-> 0, state |-> "kIdle", active_test |-> "kNone",
                 fatal_error |-> FALSE]
  /\ available \in SUBSET Tests
  /\ \E optional \in SUBSET Variants :
       pipelines = [t \in Tests |-> IF t \in FpTests THEN {0} \cup optional ELSE {0}]
  /\ item = [t \in Tests |-> ItemOf(t, 0)]
  /\ value = [t \in Tests |-> 0]
  /\ memory_ready = FALSE
  /\ fatal = FALSE
  /\ stage = "idle"
  /\ request = "kAll"
  /\ index = 1
  /\ pending = {}
  /\ pass = 0
  /\ variant = 0
  /\ selected = 0
  /\ expired = FALSE
  /\ code = "none"
  /\ waiting = FALSE
  /\ inflight = FALSE
  /\ lost = FALSE
  /\ checked = {}
  /\ validated = {}
  /\ reported = FALSE
  /\ asked = {}
  /\ late = 0

------------------------------------------------------------------------------
(* The callers.  Start holds lifecycle_mutex_ throughout, RequestStop only    *)
(* snapshot_mutex_.                                                           *)

workerVars == <<stage, sequenceVars, variantVars, expired, code, waiting>>

\* The tests that a request stands for.
Requested(r) == IF r = "kAll" THEN AllTests ELSE <<r>>
IsRequested(t, r) == r \in {t, "kAll"}

\* Faulty variant: a context that has failed is used again.
StartAcceptBlindly ==
  /\ control = "free"
  /\ next_run_id <= MaxRuns
  /\ available # {}
  /\ snapshot.state \in Terminal
  /\ control' = "start_join"
  /\ UNCHANGED <<next_run_id, asked, stop, snapshot, contextVars, faultVars,
                 workerVars, deviceVars, resultVars, late>>

\* No run without a context, beside another one, or after a fatal error.
StartAccept ==
  /\ control = "free"
  /\ next_run_id <= MaxRuns
  /\ available # {}
  /\ snapshot.state \in Terminal
  /\ ~snapshot.fatal_error
  /\ control' = "start_join"
  /\ UNCHANGED <<next_run_id, asked, stop, snapshot, contextVars, faultVars,
                 workerVars, deviceVars, resultVars, late>>

\* Faulty variant: the values of the run before stay in the snapshot.
StartPublishKeepingValues(r) ==
  /\ control = "start_join"
  /\ stage = "idle"
  /\ control' = "start_launch"
  /\ stop' = FALSE
  /\ next_run_id' = next_run_id + 1
  /\ snapshot' = [snapshot EXCEPT !.run_id = next_run_id, !.state = "kWarmingUp",
                                  !.active_test = Requested(r)[1]]
  /\ UNCHANGED value
  /\ item' = [t \in Tests |-> IF IsRequested(t, r) THEN ItemOf(t, next_run_id) ELSE item[t]]
  /\ request' = r
  /\ index' = 1
  /\ late' = 0
  /\ UNCHANGED <<asked, contextVars, faultVars, stage, variantVars, expired, code,
                 waiting, deviceVars, checked>>

\* Faulty variant: the flag of the run before is left up.
StartPublishKeepingStop(r) ==
  /\ control = "start_join"
  /\ stage = "idle"
  /\ control' = "start_launch"
  /\ next_run_id' = next_run_id + 1
  /\ snapshot' = [snapshot EXCEPT !.run_id = next_run_id, !.state = "kWarmingUp",
                                  !.active_test = Requested(r)[1]]
  /\ value' = [t \in Tests |-> IF IsRequested(t, r) THEN 0 ELSE value[t]]
  /\ item' = [t \in Tests |-> IF IsRequested(t, r) THEN ItemOf(t, next_run_id) ELSE item[t]]
  /\ request' = r
  /\ index' = 1
  /\ late' = 0
  /\ UNCHANGED <<asked, stop, contextVars, faultVars, stage, variantVars, expired, code,
                 waiting, deviceVars, checked>>

\* The worker of the run before is joined and the new run published; the items of
\* other tests keep what an earlier run left.
StartPublish(r) ==
  /\ control = "start_join"
  /\ stage = "idle"
  /\ control' = "start_launch"
  /\ stop' = FALSE
  /\ next_run_id' = next_run_id + 1
  /\ snapshot' = [snapshot EXCEPT !.run_id = next_run_id, !.state = "kWarmingUp",
                                  !.active_test = Requested(r)[1]]
  /\ value' = [t \in Tests |-> IF IsRequested(t, r) THEN 0 ELSE value[t]]
  /\ item' = [t \in Tests |-> IF IsRequested(t, r) THEN ItemOf(t, next_run_id) ELSE item[t]]
  /\ request' = r
  /\ index' = 1
  /\ late' = 0
  /\ UNCHANGED <<asked, contextVars, faultVars, stage, variantVars, expired, code,
                 waiting, deviceVars, checked>>

StartLaunch ==
  /\ control = "start_launch"
  /\ control' = "free"
  /\ stage' = "begin"
  /\ UNCHANGED <<next_run_id, asked, stop, snapshot, contextVars, faultVars,
                 sequenceVars, variantVars, expired, code, waiting, deviceVars,
                 resultVars, late>>

\* The thread cannot be created: the run is published as failed.
StartFails ==
  /\ control = "start_launch"
  /\ control' = "free"
  /\ snapshot' = [snapshot EXCEPT !.state = "kError"]
  /\ UNCHANGED <<next_run_id, asked, stop, contextVars, faultVars, workerVars,
                 deviceVars, resultVars, late>>

RequestStop(id) ==
  /\ control \in {"free", "start_join", "start_launch"}
  /\ id = snapshot.run_id
  /\ snapshot.state \in Running
  /\ stop' = TRUE
  /\ snapshot' = [snapshot EXCEPT !.state = "kStopping"]
  /\ asked' = asked \cup {id}
  /\ UNCHANGED <<control, next_run_id, contextVars, faultVars, workerVars,
                 deviceVars, resultVars, late>>

Destroy ==
  /\ control = "free"
  /\ control' = "destroy_join"
  /\ stop' = TRUE
  /\ asked' = asked \cup {snapshot.run_id}
  /\ UNCHANGED <<next_run_id, snapshot, contextVars, faultVars, workerVars,
                 deviceVars, resultVars, late>>

DestroyJoin ==
  /\ control = "destroy_join"
  /\ stage = "idle"
  /\ control' = "destroy_context"
  /\ UNCHANGED <<next_run_id, asked, stop, snapshot, contextVars, faultVars,
                 workerVars, deviceVars, resultVars, late>>

\* DeviceWaitIdle, then everything is freed.
DestroyContext ==
  /\ control = "destroy_context"
  /\ ~inflight
  /\ control' = "destroyed"
  /\ UNCHANGED <<next_run_id, asked, stop, snapshot, contextVars, faultVars,
                 workerVars, deviceVars, resultVars, late>>

------------------------------------------------------------------------------
(* The device *)

\* A submission is done; a lost device works on nothing.
DeviceCompletes ==
  /\ inflight
  /\ inflight' = FALSE
  /\ UNCHANGED <<callVars, stop, snapshot, contextVars, faultVars, workerVars,
                 lost, resultVars, late>>

DeviceLost ==
  /\ ~lost
  /\ control # "destroyed"
  /\ lost' = TRUE
  /\ inflight' = FALSE
  /\ UNCHANGED <<callVars, stop, snapshot, contextVars, faultVars, workerVars,
                 resultVars, late>>

------------------------------------------------------------------------------
(* The worker: how it moves *)

Test == Requested(request)[index]

Goes(place) == stage' = place

Fails(error) ==
  /\ stage' = "fail"
  /\ code' = error

\* Whatever its code, a fault of a submission disqualifies the context.
SubmissionFails(error) ==
  /\ fatal' = TRUE
  /\ reported' = TRUE
  /\ Fails(error)

\* A call that maps, flushes or allocates fails, or what it gives is not usable.
\* TrackDeviceResult takes note of a lost device if this very call tells of it.
HostCallFails(error) ==
  /\ \E told \in BOOLEAN :
       /\ told => lost
       /\ reported' = (reported \/ told)
       /\ fatal' = (fatal \/ told)
  /\ Fails(error)

\* The flag is up where the worker looks at it: SetStopped.
SetStopped ==
  /\ snapshot' = [snapshot EXCEPT !.state = "kStopped"]
  /\ item' = [item EXCEPT ![snapshot.active_test].state = "kStopped"]
  /\ stage' = "idle"

\* What the steps of the worker leave alone.
Steady == <<callVars, stop, available, pipelines, deviceVars, late>>

------------------------------------------------------------------------------
(* The worker: submissions (ExecuteBatch, MakeWritesVisibleToHost) *)

\* The error that the caller of a submission reports for its failure.
ErrorOf(place) ==
  IF place \in {"a_batch", "w_batch", "m_batch"}
    THEN "kErrorSubmission" ELSE "kErrorInvalidResult"

Submit ==
  /\ stage \in Batch \cup ReadBack
  /\ ~waiting
  /\ ~lost
  /\ waiting' = TRUE
  /\ inflight' = TRUE
  /\ late' = IF stop /\ late < 3 THEN late + 1 ELSE late
  /\ UNCHANGED <<callVars, stop, snapshot, contextVars, faultVars, stage,
                 sequenceVars, variantVars, expired, code, lost, resultVars>>

\* Recording or submitting fails.
SubmitFails ==
  /\ stage \in Batch \cup ReadBack
  /\ ~waiting
  /\ SubmissionFails(ErrorOf(stage))
  /\ UNCHANGED <<Steady, snapshot, memory_ready, sequenceVars, variantVars, expired,
                 waiting, resultVars>>

\* Faulty variant: after a time-out the wait is repeated.
WaitFailsUnlessTimeout ==
  /\ waiting
  /\ lost
  /\ waiting' = FALSE
  /\ SubmissionFails(ErrorOf(stage))
  /\ UNCHANGED <<Steady, snapshot, memory_ready, sequenceVars, variantVars, expired,
                 resultVars>>

\* The fence times out, or the wait fails; what was submitted may go on.
WaitFails ==
  /\ waiting
  /\ inflight \/ lost
  /\ waiting' = FALSE
  /\ SubmissionFails(ErrorOf(stage))
  /\ UNCHANGED <<Steady, snapshot, memory_ready, sequenceVars, variantVars, expired,
                 resultVars>>

\* The batch is done but has no valid duration.
TimingFails ==
  /\ waiting
  /\ ~inflight
  /\ stage \in Batch
  /\ waiting' = FALSE
  /\ SubmissionFails(ErrorOf(stage))
  /\ UNCHANGED <<Steady, snapshot, memory_ready, sequenceVars, variantVars, expired,
                 resultVars>>

\* The fence is signalled.  That reading the timestamps may report a lost device
\* changes nothing: the host's clock is used instead.
FenceSignalled(place) ==
  /\ stage = place
  /\ waiting
  /\ ~inflight
  /\ waiting' = FALSE

------------------------------------------------------------------------------
(* The worker: one test (RunTest) *)

BeginTest ==
  /\ stage = "begin"
  /\ Test \in available
  /\ snapshot' = [snapshot EXCEPT !.active_test = Test]
  /\ value' = [value EXCEPT ![Test] = 0]
  /\ item' = [item EXCEPT ![Test].state = "kRunning"]
  /\ Goes(IF Test = MemoryTest THEN "memory" ELSE "publish")
  /\ UNCHANGED <<Steady, memory_ready, faultVars, sequenceVars, variantVars, expired,
                 code, waiting, checked>>

\* kAll passes over a test that has no pipeline, a single test fails.
SkipTest ==
  /\ stage = "begin"
  /\ Test \notin available
  /\ snapshot' = [snapshot EXCEPT !.active_test = Test]
  /\ value' = [value EXCEPT ![Test] = 0]
  /\ IF request = "kAll"
       THEN Goes("advance") /\ UNCHANGED code
       ELSE Fails("kErrorPipelineCreation")
  /\ UNCHANGED <<Steady, memory_ready, faultVars, sequenceVars, variantVars, expired,
                 waiting, item, checked>>

\* EnsureMemoryBandwidthResources: smaller sizes are tried after a failure, also
\* after one that told of a lost device.
AllocateMemory ==
  /\ stage = "memory"
  /\ memory_ready' = TRUE
  /\ \E told \in BOOLEAN :
       /\ told => lost /\ ~memory_ready
       /\ fatal' = (fatal \/ told)
  /\ Goes("publish")
  /\ UNCHANGED <<Steady, reported, snapshot, sequenceVars, variantVars, expired, code, waiting,
                 resultVars>>

AllocateFails ==
  /\ stage = "memory"
  /\ ~memory_ready
  /\ HostCallFails("kErrorBufferAllocation")
  /\ UNCHANGED <<Steady, snapshot, memory_ready, sequenceVars, variantVars, expired,
                 waiting, resultVars>>

\* kWarmingUp is published over whatever state the snapshot has.
PublishWarmUp ==
  /\ stage = "publish"
  /\ snapshot' = [snapshot EXCEPT !.state = "kWarmingUp"]
  /\ pending' = pipelines[Test]
  /\ pass' = 0
  /\ selected' = 0
  /\ validated' = {}
  /\ Goes("validate")
  /\ UNCHANGED <<Steady, memory_ready, faultVars, sequenceVars, variant, expired, code,
                 waiting, resultVars>>

\* A validation, a batch of the choice or of the warm-up is due, but the flag is up.
StopAtCheck ==
  /\ stage \in {"validate", "autotune", "warm_up"}
  /\ stop
  /\ SetStopped
  /\ UNCHANGED <<Steady, memory_ready, faultVars, sequenceVars, variantVars, expired,
                 code, waiting, value, checked>>

BeginValidation(v) ==
  /\ stage = "validate"
  /\ ~stop
  /\ v \in pending
  /\ variant' = v
  /\ Goes("v_clear")
  /\ UNCHANGED <<Steady, snapshot, memory_ready, faultVars, sequenceVars, pending, pass,
                 selected, validated, expired, code, waiting, resultVars>>

\* ClearSink, before a validation and before the measurement.
ClearSink(from, to) ==
  /\ stage = from
  /\ Goes(to)
  /\ UNCHANGED <<Steady, snapshot, memory_ready, faultVars, sequenceVars, variantVars,
                 expired, code, waiting, resultVars>>

ClearSinkFails ==
  /\ stage \in {"v_clear", "clear"}
  /\ HostCallFails("kErrorInvalidResult")
  /\ UNCHANGED <<Steady, snapshot, memory_ready, sequenceVars, variantVars, expired,
                 waiting, resultVars>>

ValidationBatchDone ==
  /\ FenceSignalled("v_batch")
  /\ Goes("v_read")
  /\ UNCHANGED <<Steady, snapshot, memory_ready, faultVars, sequenceVars, variantVars,
                 expired, code, resultVars>>

ReadBackDone(from, to) ==
  /\ FenceSignalled(from)
  /\ Goes(to)
  /\ UNCHANGED <<Steady, snapshot, memory_ready, faultVars, sequenceVars, variantVars,
                 expired, code, resultVars>>

\* Mapping the output fails, or its contents are wrong.
JudgeFails ==
  /\ stage \in {"v_judge", "f_judge"}
  /\ HostCallFails("kErrorInvalidResult")
  /\ UNCHANGED <<Steady, snapshot, memory_ready, sequenceVars, variantVars, expired,
                 waiting, resultVars>>

\* One variant is valid.  After the last, an FP test goes on to choose between them.
ValidationHolds ==
  /\ stage = "v_judge"
  /\ validated' = validated \cup {variant}
  /\ IF pending # {variant}
       THEN /\ pending' = pending \ {variant}
            /\ Goes("validate")
            /\ UNCHANGED <<pass, expired>>
       ELSE IF Test \in FpTests
         THEN /\ pending' = pipelines[Test]
              /\ pass' = 1
              /\ Goes("autotune")
              /\ UNCHANGED expired
         ELSE /\ pending' = {}
              /\ expired' = FALSE
              /\ Goes("warm_up")
              /\ UNCHANGED pass
  /\ UNCHANGED <<Steady, snapshot, memory_ready, faultVars, sequenceVars, variant,
                 selected, code, waiting, resultVars>>

BeginCandidate(v) ==
  /\ stage = "autotune"
  /\ ~stop
  /\ v \in pending
  /\ variant' = v
  /\ Goes("a_batch")
  /\ UNCHANGED <<Steady, snapshot, memory_ready, faultVars, sequenceVars, pending, pass,
                 selected, validated, expired, code, waiting, resultVars>>

\* After the last pass the fastest of the variants that were run is selected.
CandidateDone(best) ==
  /\ FenceSignalled("a_batch")
  /\ best \in pipelines[Test]
  /\ IF pending # {variant}
       THEN /\ pending' = pending \ {variant}
            /\ Goes("autotune")
            /\ UNCHANGED <<pass, selected, expired>>
       ELSE IF pass < Passes
         THEN /\ pending' = pipelines[Test]
              /\ pass' = pass + 1
              /\ Goes("autotune")
              /\ UNCHANGED <<selected, expired>>
         ELSE /\ pending' = {}
              /\ selected' = best
              /\ expired' = FALSE
              /\ Goes("warm_up")
              /\ UNCHANGED pass
  /\ UNCHANGED <<Steady, snapshot, memory_ready, faultVars, sequenceVars, variant,
                 validated, code, resultVars>>

BeginWarmUpBatch ==
  /\ stage = "warm_up"
  /\ ~stop
  /\ Goes("w_batch")
  /\ UNCHANGED <<Steady, snapshot, memory_ready, faultVars, sequenceVars, variantVars,
                 expired, code, waiting, resultVars>>

\* Faulty variant: the warm-up lasts as long as it was asked to.
WarmUpBatchDoneDeaf ==
  /\ FenceSignalled("w_batch")
  /\ Goes(IF expired THEN "clear" ELSE "w_batch")
  /\ UNCHANGED <<Steady, snapshot, memory_ready, faultVars, sequenceVars, variantVars,
                 expired, code, resultVars>>

WarmUpBatchDone ==
  /\ FenceSignalled("w_batch")
  /\ Goes(IF expired THEN "clear" ELSE "warm_up")
  /\ UNCHANGED <<Steady, snapshot, memory_ready, faultVars, sequenceVars, variantVars,
                 expired, code, resultVars>>

\* kRunning is published, again over whatever state the snapshot has.
BeginMeasure ==
  /\ stage = "start"
  /\ snapshot' = [snapshot EXCEPT !.state = "kRunning"]
  /\ expired' = FALSE
  /\ Goes("measure")
  /\ UNCHANGED <<Steady, memory_ready, faultVars, sequenceVars, variantVars, code,
                 waiting, resultVars>>

BeginBatch ==
  /\ stage = "measure"
  /\ ~expired
  /\ ~stop
  /\ value[Test] < MaxBatches
  /\ Goes("m_batch")
  /\ UNCHANGED <<Steady, snapshot, memory_ready, faultVars, sequenceVars, variantVars,
                 expired, code, waiting, resultVars>>

\* The provisional value goes to the snapshot after every batch.
BatchDone ==
  /\ FenceSignalled("m_batch")
  /\ value' = [value EXCEPT ![Test] = @ + 1]
  /\ checked' = checked \ {Test}
  /\ Goes("measure")
  /\ UNCHANGED <<Steady, snapshot, memory_ready, faultVars, sequenceVars, variantVars,
                 expired, code, item>>

\* A stop ends the measurement like the deadline does.
EndMeasure ==
  /\ stage = "measure"
  /\ expired \/ stop
  /\ Goes("assess")
  /\ UNCHANGED <<Steady, snapshot, memory_ready, faultVars, sequenceVars, variantVars,
                 expired, code, waiting, resultVars>>

\* Nothing was measured: explained by the flag, or an error.
NothingMeasured ==
  /\ stage = "assess"
  /\ value[Test] = 0
  /\ IF stop
       THEN SetStopped /\ UNCHANGED code
       ELSE Fails("kErrorInvalidResult") /\ UNCHANGED <<snapshot, item>>
  /\ UNCHANGED <<Steady, memory_ready, faultVars, sequenceVars, variantVars, expired,
                 waiting, value, checked>>

\* Faulty variant: a stopped test is left without looking at its output.
SomethingMeasuredUnlessStopped ==
  /\ stage = "assess"
  /\ value[Test] # 0
  /\ Goes(IF stop THEN "last_check" ELSE "f_read")
  /\ UNCHANGED <<Steady, snapshot, memory_ready, faultVars, sequenceVars, variantVars,
                 expired, code, waiting, resultVars>>

\* Completed batches are validated before even a partial score is kept.
SomethingMeasured ==
  /\ stage = "assess"
  /\ value[Test] # 0
  /\ Goes("f_read")
  /\ UNCHANGED <<Steady, snapshot, memory_ready, faultVars, sequenceVars, variantVars,
                 expired, code, waiting, resultVars>>

OutputHolds ==
  /\ stage = "f_judge"
  /\ checked' = IF selected \in validated THEN checked \cup {Test} ELSE checked
  /\ Goes("last_check")
  /\ UNCHANGED <<Steady, snapshot, memory_ready, faultVars, sequenceVars, variantVars,
                 expired, code, waiting, item, value>>

EndTest ==
  /\ stage = "last_check"
  /\ IF stop
       THEN SetStopped
       ELSE /\ item' = [item EXCEPT ![Test].state = "kCompleted"]
            /\ Goes("advance")
            /\ UNCHANGED snapshot
  /\ UNCHANGED <<Steady, memory_ready, faultVars, sequenceVars, variantVars, expired,
                 code, waiting, value, checked>>

------------------------------------------------------------------------------
(* The worker: the run (WorkerMain) and its errors *)

\* The next test of the sequence, or the end of the run.
NextTest ==
  /\ stage = "advance"
  /\ IF index < Len(Requested(request))
       THEN index' = index + 1 /\ Goes("begin")
       ELSE UNCHANGED index /\ Goes("end")
  /\ UNCHANGED <<Steady, snapshot, memory_ready, faultVars, request, variantVars,
                 expired, code, waiting, resultVars>>

\* The flag has the last word, although every test has completed.
EndRun ==
  /\ stage = "end"
  /\ snapshot' = IF stop
                   THEN [snapshot EXCEPT !.state = "kStopped"]
                   ELSE [snapshot EXCEPT !.state = "kCompleted", !.active_test = "kNone"]
  /\ Goes("idle")
  /\ UNCHANGED <<Steady, memory_ready, faultVars, sequenceVars, variantVars, expired,
                 code, waiting, resultVars>>

\* Faulty variant: only the code of the error tells whether it is fatal.
SetErrorByCode ==
  /\ stage = "fail"
  /\ snapshot' = [snapshot EXCEPT !.state = "kError",
                                  !.fatal_error = code = "kErrorSubmission"]
  /\ item' = [item EXCEPT ![snapshot.active_test].state = "kFailed"]
  /\ value' = [value EXCEPT ![snapshot.active_test] = 0]
  /\ Goes("idle")
  /\ code' = "none"
  /\ UNCHANGED <<Steady, memory_ready, faultVars, sequenceVars, variantVars, expired,
                 waiting, checked>>

SetError ==
  /\ stage = "fail"
  /\ snapshot' = [snapshot EXCEPT !.state = "kError",
                                  !.fatal_error = fatal \/ code = "kErrorSubmission"]
  /\ item' = [item EXCEPT ![snapshot.active_test].state = "kFailed"]
  /\ value' = [value EXCEPT ![snapshot.active_test] = 0]
  /\ Goes("idle")
  /\ code' = "none"
  /\ UNCHANGED <<Steady, memory_ready, faultVars, sequenceVars, variantVars, expired,
                 waiting, checked>>

\* The deadline of the warm-up or of the measurement passes.
Expire ==
  /\ stage \in {"warm_up", "w_batch", "measure", "m_batch"}
  /\ ~expired
  /\ expired' = TRUE
  /\ UNCHANGED <<callVars, stop, snapshot, contextVars, faultVars, stage,
                 sequenceVars, variantVars, code, waiting, deviceVars, resultVars, late>>

------------------------------------------------------------------------------

CallReturns ==
  \/ \E r \in Tests \cup {"kAll"} : StartPublish(r)
  \/ StartLaunch
  \/ DestroyJoin

\* The worker goes on without anything having failed ...
WorkerStep ==
  \/ Submit
  \/ BeginTest
  \/ SkipTest
  \/ AllocateMemory
  \/ PublishWarmUp
  \/ StopAtCheck
  \/ \E v \in Variants : BeginValidation(v) \/ BeginCandidate(v) \/ CandidateDone(v)
  \/ ClearSink("v_clear", "v_batch")
  \/ ClearSink("clear", "start")
  \/ ValidationBatchDone
  \/ ReadBackDone("v_read", "v_judge")
  \/ ReadBackDone("f_read", "f_judge")
  \/ ValidationHolds
  \/ BeginWarmUpBatch
  \/ WarmUpBatchDone
  \/ BeginMeasure
  \/ BeginBatch
  \/ BatchDone
  \/ EndMeasure
  \/ NothingMeasured
  \/ SomethingMeasured
  \/ OutputHolds
  \/ EndTest
  \/ NextTest
  \/ EndRun
  \/ SetError

\* ... or because of a failure.
WorkerFault ==
  \/ SubmitFails
  \/ WaitFails
  \/ TimingFails
  \/ AllocateFails
  \/ ClearSinkFails
  \/ JudgeFails

Next ==
  \/ StartAccept
  \/ StartFails
  \/ \E id \in 1 .. MaxRuns : RequestStop(id)
  \/ Destroy
  \/ CallReturns
  \/ DestroyContext
  \/ DeviceCompletes
  \/ DeviceLost
  \/ WorkerStep
  \/ WorkerFault
  \/ Expire

Spec == Init /\ [][Next]_vars

\* Calls return, the worker is scheduled and deadlines pass, those of a fence among
\* them.  The device need not complete anything.
Fairness ==
  /\ WF_vars(CallReturns)
  /\ WF_vars(WorkerStep \/ WorkerFault)
  /\ WF_vars(Expire)

FairSpec == Spec /\ Fairness

------------------------------------------------------------------------------
(* Properties *)

\* The one command buffer, its fence and the buffers are never touched or freed
\* while the device may still use them: after a fence has timed out, nothing but
\* DeviceWaitIdle comes before the resources are freed, and no later run starts.
HostWaitsForDevice ==
  inflight =>
    /\ waiting \/ stage \in {"fail", "idle"}
    /\ control # "destroyed"
    /\ stage = "idle" => snapshot.fatal_error

\* A fault of a submission, or a device that another call told to be lost
\* (VK_ERROR_DEVICE_LOST), that failed a test, whichever step met it and whatever code
\* its error has, is in the snapshot once the run is over, and no worker runs again
\* ("Queue/submission faults and device loss block reuse until the App restarts",
\* docs/compatibility-beta7.md:42).  This is not so for a loss that fails no test: told
\* by an allocation that a smaller one makes up for, or by the timestamps, it is
\* forgotten if a stop ends the run before the next submission; nor for one that no
\* call tells of, because it fails with another code.
FaultBlocksReuse ==
  reported =>
    \/ stage = "fail"
    \/ stage = "idle" /\ snapshot.state = "kError" /\ snapshot.fatal_error

\* Whatever value a finished run leaves, of this or of an earlier run, also of a
\* stopped one, its output was validated after the last batch, and the kernel that
\* produced it before the first ("Validate completed batches before preserving a
\* partial score", line 1750).
ValuesAreValidated ==
  snapshot.state \in Terminal =>
    \A t \in Tests : value[t] # 0 => t \in checked

\* The items of a finished run agree with its outcome: none is left running, a
\* failed one has no value, and a completed run has completed each requested test
\* that has a pipeline, in this run.
ItemsAgree ==
  snapshot.state \in Terminal =>
    \A t \in Tests :
      /\ item[t].state # "kRunning"
      /\ item[t].state \in {"kFailed", "kReady"} => value[t] = 0
      /\ snapshot.state = "kCompleted" /\ IsRequested(t, request) /\ t \in available
           => /\ item[t] = [run_id |-> snapshot.run_id, state |-> "kCompleted"]
              /\ value[t] # 0

\* Once the flag is up the worker submits at most twice more: the batch it was
\* about to submit and the read-back that validates it.
StopIsPrompt == late <= 2

\* Every accepted run ends, whatever the device does.
RunEnds == snapshot.state \in Running ~> snapshot.state \in Terminal

\* The promise of RunLifecycle, read off the snapshot and the stops asked for.
Lifecycle == INSTANCE RunLifecycle WITH
  run <- snapshot.run_id,
  state <- CASE snapshot.state \in Running -> "Running"
             [] snapshot.state = "kCompleted" -> "Completed"
             [] snapshot.state = "kStopped" -> "Cancelled"
             [] snapshot.state = "kError" -> "Error"
             [] OTHER -> "Idle",
  stopAsked <- snapshot.state \in Running /\ snapshot.run_id \in asked

\* The engine implements RunLifecycle, although kWarmingUp and kRunning replace a
\* kStopping, and the next run follows without the snapshot becoming idle.
ImplementsLifecycle == Lifecycle!Spec
=============================================================================
