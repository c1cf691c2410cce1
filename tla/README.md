# RapidBench in TLA+

A verification development for RapidBench, a benchmark application for Android: a Flutter interface and Dart controllers
(`packages/benchmark_native`, `app/benchmark_app`) over benchmark engines in C++17 (`native/benchmark_core`). The
modules model the concurrent protocols of the five engines, two storage tests in detail, the selection of CPUs, and the
application's one benchmark lease. TLC checks them on small instances; TLAPS proves the safety properties of all of
them, and the refinements, for every value of the constants. All paths below are relative to the root of the
repository; `core/` stands for `native/benchmark_core/`.

## Inventory: the system's parts

The application starts one benchmark at a time. A Dart controller acquires the application's lease, calls `Start` of
its engine through FFI, and polls `GetSnapshot` every 120 or 200 ms until the snapshot is terminal; then it releases the
lease. Each engine has one coordinator thread per run, which creates workers and publishes snapshots. `RequestStop`
and the destructor raise an atomic stop flag; the destructor also joins.

| Part | State it keeps | Operations | Interacts with | What is hard | What makes it correct |
| --- | --- | --- | --- | --- | --- |
| CPU throughput engine, `core/src/engine.cpp` | snapshot under a mutex, stop flag, run number; per run `SharedRun` (three counters, two gate flags, a condition variable) and a `WorkerContext` per worker | `Start`, `RequestStop`, `~Impl`, `Run`, `RunWorker` | controller through FFI; workers through `SharedRun` | a stop is raised without notifying the condition variable; a thread may fail to be created while others sleep; a worker may leave uncounted | no terminal snapshot before the join; honest outcomes; nobody measures before all are warm; every run ends |
| Storage engine, `core/src/storage_engine.cpp` | snapshot with the results of all tests, stop flag, run number; the run's own copy, scratch file, database | `Start`, `RequestStop`, `~StorageEngine`, `Run` and the test functions | controller; file system, Linux AIO, SQLite | both threads replace the whole snapshot by copies read earlier; failures at every step of preparing, measuring, flushing | results and terminal states are not lost; files are gone at the end; a valid write was flushed |
| Asynchronous test, `RunAioTest` in the same file | iocb, buffer and submission entry per slot, a cursor over the blocks | submit, wait, resubmit, drain | the kernel | completions in any order and number, short submissions, deadline with requests in flight | the advertised depth is kept; every block is requested and counted |
| Threaded test, `RunThreadedTest` in the same file | four workers spinning on a start flag | start, run, join | coordinator | a thread cannot be created while others spin | all are let go and joined, no error is lost |
| Lease and controllers, `packages/benchmark_native/lib/src/*_controller.dart`, `benchmark_run_coordinator.dart` | the active lease, foreground flag; per controller its lease, timer, sequence position and failure flag | start, stop, poll, abort, dispose, lifecycle change | engines through FFI, widgets | late callbacks of an older run, bridge failures while an engine runs, a chain of runs under one lease, background | one engine at a time; the lease is never leaked, nothing starts in the background |
| Memory engine, `core/src/memory_engine.cpp` | snapshot, stop flag, phase number, buffers | `Start`, `RequestStop`, `Run`, `RunAttempt` | controller, workers | a CPU set that changes during warm-up makes an attempt start over | at most three attempts, no worker left behind, elapsed time of the last pass |
| CPU application engine, `core/src/cpu_application_engine.cpp` | snapshot, stop and failure flags, phase, barrier | `Start`, `Stop`, `Run`, `RunWorker` | controller, workers | any step may throw with workers at a gate; validation fails while a stop arrives | all joined before the error; error wins over stop |
| GPU engine, `core/src/gpu_benchmark.cpp` | snapshot with five items, stop flag, Vulkan context | `Start`, `RequestStop`, `WorkerMain`, `RunTest`, `ExecuteBatch` | controller, Vulkan device | fence timeouts, timestamp wrap, states published over each other | item states and outcome agree; a timed-out context is not used again |
| Topology, `core/src/topology.cpp` | none | detection, grouping, selection of CPUs | sysfs, engines | partly readable sources, limits on groups and threads | every CPU has a group and no faster CPU is in a slower group or left out; deviations are flagged |
| FFI layer, performance hints, kernels, device information, widgets | - | - | - | no protocol of their own | - |

Hazards, the places in the code where these things bite, are listed one by one in `PROJECT.json`, each with the
properties that would catch it going wrong.

## Modules and how they correspond to the code

* **RunLifecycle** is the abstract specification: what an engine promises to its caller. Runs are numbered and do not
  overlap; each ends at most once, cancelled only if a stop of this very run is pending; a finished run's outcome stays.
  CpuEngine, MemoryEngine, CpuApplicationEngine and GpuEngine implement it, each under its mapping `Lifecycle`;
  StorageEngine does not (finding 2).
* **CpuEngine** models `engine.cpp`. `client`, `coordinator` and `worker` are the program counters of the caller, of
  `Impl::Run` and of each `RunWorker`; `shared` is `SharedRun` with each counter kept as the set of workers counted;
  `asleep` holds the workers blocked in the condition variable. It is there because `RequestStop` does not notify: a
  worker that sleeps with its predicate true goes on sleeping. A section under a mutex is one step, except that
  the publication right before the locked section that opens a gate belongs to that step (`BeginWarmUp`,
  `BeginMeasurement`), and the one right after a join to the join. Nothing that another thread does can tell these
  apart: the workers do not read the snapshot, and the client does not read `SharedRun`.
* **MemoryEngine** models `memory_engine.cpp` in full but for rates, elapsed time and performance hints. `context` is
  the snapshot of `RunAttempt`, which it publishes as a whole; `phase` is the atomic on which the workers spin, whose
  value 3 lets them go; `topology` is what the next attempt will use. A pass is counted twice, as in the code: in
  `completed` for the result and then in `processed` for the live snapshots. In the mapping to RunLifecycle the
  pending stop is read off the history of requests: the flag itself is also raised by the engine.
* **CpuApplicationEngine** models `cpu_application_engine.cpp`. `workers` are the `Worker` objects with their corpora,
  `thread` where the thread of each is, and `ready`, `warm_done`, `done`, `phase`, `error` the fields of `Gates`, with
  counters as sets. The whole of `Run` is one `try`: `CoordinatorThrows` may strike in any place of it and a worker's
  `WorkerThrows` likewise; both call `Fail`, which keeps the first error and raises the caller's stop flag. Then come
  the join, the verification of the workers' output, the decision and the release, in the code's order.
* **GpuEngine** models `gpu_benchmark.cpp`. `stage` is where the one worker thread is in `WorkerMain`, `RunTest`,
  `ExecuteBatch` and `ValidateKernel`; `item`, `value` are the diagnostics and the value of each test in the snapshot;
  `waiting` and `inflight` tell the host's wait for the fence from the device's work, so that a fence may time out
  with the submission going on; `lost` is the device, which may be lost at any moment. `RequestStop` publishes
  `kStopping` and the worker publishes other states over it; `SetError` is the one place where a fault becomes fatal.
* **StorageEngine** models `Start`, `RequestStop`, the destructor and `Run` of `storage_engine.cpp`, with the test
  functions reduced to their outcomes (an error, a stop, a measurement, and for writes a flush). `copy` is the snapshot
  the caller has read and not yet published back, `context` is `RunContext::snapshot`. A result carries the number of
  the run that recorded it, so that a stale result can be told from a fresh one.
* **StorageAio** models `RunAioTest` in full: both phases, the iocb of each slot, the submission array with its two
  writes per event, the kernel's freedom in completing, and errors. A block is its position in the phase's order. The
  loop over the events is a recursive function of the turn, `PrepareEach`, so that it can be reasoned about.
* **StorageThreads** models `RunThreadedTest`: both phases, the threads spinning on the start flag `go`, a creation
  that fails with some of them spinning, transfers that fail in some threads, the join and the flush. `counters` holds
  the blocks of each thread, `io` what the coordinator has read of them.
* **Topology** models `topology.cpp` and the selections made by three engines. Readings of `/sys` are records, any part
  of which may be missing; `DetectTopology` and its helpers are operators named as in the code; one action detects,
  one more selects. `std::sort` is `Sorted`, the sequence of a set's elements that goes along an order; the loop that
  looks for the preferred CPU is a recursive function of the turn. The properties are stated on the readings and not on
  ranks, so that they do not repeat the code. The specification is `TopologySpec`, so that the module can be read
  together with another one.
* **BenchmarkLease** models `BenchmarkRunCoordinator`, the mixin `ExclusiveBenchmarkController` and the five
  controllers. Dart code runs on one isolate: a tap, a timer callback, a lifecycle change is one step. The controllers
  differ in two things, which are constants: how many runs they chain under one lease (`Items`) and whether a throwing
  `requestStop` makes them abort (`StrictStop`). The engines are seen through what RunLifecycle promises.
* **MC\*** modules give the values for TLC. **\*Proofs** modules hold the theorems about the module they are named
  after; CpuEngineProofs those about Topology too, whose CPUs the engine selects.

The engines stand side by side; BenchmarkLease sits on top of them through RunLifecycle. StorageAio and StorageThreads
refine the step from `warm_up` to `record` of StorageEngine for the tests they model: each returns one of the outcomes
that StorageEngine chooses from. Topology supplies the set of CPUs that the CPU, memory and application engines choose
arbitrarily.

`map` in `PROJECT.json` gives the source lines of every definition. Operators whose comment begins with "Faulty
variant" are deliberately wrong versions of the definition next to them: replacing that definition by the variant must
make a property fail, which shows that the property says something about the code.

## What the runs check

| Run | Instance | Shows |
| --- | --- | --- |
| `cpu_engine` | 2 CPUs, 2 runs (2,142 states) | no terminal snapshot with a worker alive (`TerminalMeansJoined`); a completed run reached the deadline on every worker, whatever stop or failure comes when; on failure no worker measures before all are warm; the engine implements RunLifecycle; every run ends except in the two cases of finding 1 (`RunEndsUnlessStranded`) |
| `cpu_stop_hang` | 2 CPUs, 1 run | finding 1 |
| `memory_engine` | 2 CPUs, 2 runs of up to 3 attempts, one pass per worker (75,398 states) | the buffer outlives the workers of every attempt and is gone in a terminal snapshot; a completed run used the CPUs last reported or says that it did not; no stop is lost in the outcome; the bytes never move backward; every run ends without exception; the engine implements RunLifecycle |
| `cpu_application` | 2 CPUs, 2 runs of one batch per worker (35,797 states) | whatever throws, workers leave before verification and release, and corpora before the terminal snapshot (`WorkersLeaveInOrder`); an error wins over a stop, a completed run was verified and cut short on no worker (`OutcomeIsHonest`); every run ends; the engine implements RunLifecycle |
| `gpu_engine` | an FP test with one or two kernel variants and a memory test, either possibly without pipeline, 2 runs (635,887 states) | the host touches nothing that the device may use, after a timeout either; a fault that failed a test, of a submission or told of by `VK_ERROR_DEVICE_LOST`, blocks reuse; what a finished run leaves was validated after its last batch; items agree with the outcome; at most two submissions follow a stop; every run ends though the device may never answer; the engine implements RunLifecycle |
| `storage_engine` | a write, a queue-depth and a SQLite test, 2 runs (342,004 states) | scratch file and database are gone in every terminal state; stopped if and only if cut short on request; completed means a fresh result per requested test although whole snapshots are written back; every run ends on every path except the one below |
| `storage_stop_lost` | the same tests, 1 run | finding 2 |
| `storage_aio` | depth 3, at most 8 requests per phase (82,314 states) | the thread's count of requests stays between none and the depth (`TypeOK`); a valid result was measured at that depth although the check looks at a maximum that the warm-up reached; every request of the phase, drained ones included, is counted; the test returns |
| `storage_aio_order` | depth 3, at most 6 requests | finding 3 |
| `storage_threads` | 3 threads, 2 blocks each (108,703 states) | all transfer together or, if one could not be created, nothing is measured; a returned result leaves no thread behind, hides no error and counts all transfers; the test returns |
| `topology` | 2 or 3 CPUs, readings complete, partial or constant (187,200 states) | groups follow the evidence; no CPU is known to be faster than the preferred one; a selection leaves out no faster CPU, or says with a flag that it deviates from the request; the application engine gets all CPUs, none if there are more than it supports, or the preferred one |
| `benchmark_lease` | 2 controllers, one chaining 2 runs, one aborting on a failing stop; 4 leases (2,561 states) | only the engine of the lease's owner runs; an active lease has a polling holder; nothing starts in the background; the lease is released unless a native run never ends (`LeaseIsReleasedUnlessRunHangs`) |

### Findings

1. **A stop may leave a CPU run measuring for ever.** A worker that finds the stop flag raised at the second gate
   returns without counting itself as finished (`core/src/engine.cpp:333`). If the stop comes after the coordinator's
   only look at the flag (737) and before that, the polling loop (783-854) waits for a count that does not come; the
   destructor then joins for ever. `docs/phase-1.md:38` wants a terminal state within 250 ms.
   `RunEndsUnlessStranded` shows that nothing else strands a run that was launched. The one further case is a
   run that was not: `Start` publishes `kPreparing` (443) and then creates the coordinator's thread (448); if that
   throws, nothing catches it, in `bm_start` neither, the snapshot stays `kPreparing` and every later `Start` answers
   `kBusy` (427). The other engines catch it and report an error.
2. **A stop may take back the end of a storage run.** `RequestStop` publishes the copy of the snapshot that it read
   before (`core/src/storage_engine.cpp:1194`); a terminal snapshot published in between is overwritten by `kStopping`,
   which nobody changes any more: `Start` answers busy and the controller keeps the lease. `docs/beta5-plan.md:23`
   wants ownership released. `RunEndsUnlessOverwritten` shows that there is no other way.
3. **Out-of-order completions make the asynchronous test read one block twice and another one not at all.** The
   submission array is written at the index of the slot (`core/src/storage_engine.cpp:605`) and at the index of the
   event (653); when slots 1 and 0 complete in this order, slot 0 is submitted twice and slot 1 not. The count, the
   depth and the throughput stay right, as the other properties show; what is requested does not follow the
   "deterministic shuffled order" of `README.md:101`.

Two narrower cases are written into `FaultBlocksReuse`. A lost device that fails no test, because a smaller allocation
succeeds after it or because only the reading of timestamps tells of it (`core/src/gpu_benchmark.cpp:779-806`), is
forgotten if a stop ends the run before the next submission. And the loss is noted only by a call that itself returns
`VK_ERROR_DEVICE_LOST` (1201-1204): one that maps, flushes or allocates and fails with another code on a lost device
fails the test without blocking reuse. The property is about faults of submissions, whatever their code, and about
losses that a call told of and that failed a test.

### Bounds, and why they are enough

* `Cpus`: two workers are needed for one to be at a gate while the other is past it or was never created; the protocols
  treat workers alike and count them against the number selected. The proofs cover any set of CPUs.
* `MaxRuns = 2`: a flag, snapshot, item or result left behind by one run can trouble the next; a third run starts from
  the same states as the second. The violation runs need one run only.
* Storage tests: one of each kind that the code tells apart (writes, needs a queue, uses SQLite), in the order of a run
  of all tests, writes first. GPU tests: one of each kind (with kernel variants, with buffers of its own), so that the
  first may be skipped or done when the second fails.
* `Depth = 3` stands for `kRandomQueueDepth = 8`: the smallest depth at which a batch of completions can be partial and
  out of order. `MaxRequests = 8` leaves room for the first submission and two further rounds, the second of which
  starts from the state the first one left; the deadline comes at the latest when it is used up.
* `kRandomThreadCount = 3` stands for the four threads of the code: two may differ in what they meet while a third cannot be created.
  `MaxBlocks = 2`: one thread may be ahead of another and fail after a success.
* `MaxPasses = 1` suffices to have a pass begun before and ended after a stop or deadline, counted for the result and not
  yet for the live snapshot. The limit of three attempts is the code's own and not a bound of the model.
* `MaxBatches = 1` in CpuApplicationEngine tells work from none; `MaxBatches = 2` in GpuEngine lets a batch follow one
  that was validated. `Passes = 2`: the choice between variants passes over them more than once, as in the code.
* Topology: `RankUnit` is the weight of the capacity in a rank, `ListSpan` the longest range of a list; `MaxGroups = 2`
  and `MaxThreads = 2` are below the number of CPUs, so that both limits are passed.
* `MaxLeases = 4` with two controllers: each may hold a lease twice, so that a late release of an older lease can
  meet a newer one of either. The proofs cover any number.

### Fairness, and why the code justifies it

* CpuEngine: weak fairness for each worker thread, for the coordinator thread and for the return of a call that the
  client has made. The operating system schedules threads that can run; every loop has a deadline. There is none on the
  client's decisions, on failures, and on spurious wake-ups: termination may not rely on them.
* StorageEngine: weak fairness for the coordinator and for the client's pending call, on the same grounds. Fallback to
  buffered I/O and progress reports are not needed for it and are not fair.
* MemoryEngine and CpuApplicationEngine: weak fairness for workers, coordinator, pending calls and the passing of the
  deadline. The polling loop's decision to go on measuring is not fair, nor is any failure. Unlike in CpuEngine nothing
  is excepted from termination: the workers poll their gate and the coordinator looks at the stop flag in its loop.
* GpuEngine: weak fairness for pending calls, for the worker (whose wait ends with the fence or its timeout) and for
  the deadlines. None for the device: a run must end even if the device completes nothing.
* StorageThreads: weak fairness for coordinator, threads and the deadline. StorageAio: weak fairness for the thread;
  strong fairness for the completion of requests, since `io_getevents` may time out with no event any number of times
  in between, but the device completes requests in the end.
* BenchmarkLease: weak fairness for each poll timer, and nothing else. RunLifecycle does not promise that a native run
  ends, and findings 1 and 2 have runs that do not; such a run keeps the lease, and destroying its engine does not
  return. `LeaseIsReleasedUnlessRunHangs` therefore excepts an engine that stays running for ever, and says that every
  other lease comes back.

Deadlock checking is off where the system really may stop: an engine that was destroyed or that nobody calls, a run that
hangs, a test that has returned, a selection that was made. It is on for the lease.

## What is proved

Each proof module assumes only the named assumption on the constants of the module it is about: a set of CPUs or a
sequence of tests that is not empty, bounds that are numbers, and for Topology that readings are what the code's
parsers can return (CPU numbers are not negative, a frequency has fewer bits than its place in a rank). Only
MemoryEngine, which adds up bytes, needs its set of CPUs to be finite; those of the other engines and the set of
controllers may be anything, and the numbers of runs, tests, threads, passes, batches, leases, requests and CPUs read
are arbitrary. In every module `IInv` (`TopologyInv` for Topology) is the inductive invariant: `Init => IInv` and
`IInv /\ [Next]_vars => IInv'` are proved action by action, one lemma for each part, and the theorems follow from it.
TLC has checked each of them on the instance of the run.

Loops and sums are reasoned about without an induction theorem: the numbers for which a fact holds are a set, and a
number that were not in it would have a least one among its like (`WFMin` of the library).

| Module | Proved | Argument |
| --- | --- | --- |
| CpuEngineProofs | `TypeOK`, `TerminalMeansJoined`, `CancelledOnlyOnRequest`, `CompletedCoversDeadline`, `MeasureOnlyWhenAllWarm`, `TerminalIsFinal`, `ImplementsLifecycle` | `WorkersInv`: no worker exists before the coordinator creates it and after it has joined it; `SnapshotInv`: the snapshot is running while the coordinator is in `Run` and not after it returned, which leaves open the run whose coordinator was never created; `StopInv`: a raised flag was asked for or belongs to a failure; `GateInv`: past the warm-up, or with the second gate open and no stop, every worker is counted as warm; `ElapsedInv`: who has stored a duration, and that a short one means a stop |
| CpuEngineProofs, of Topology | `GroupsFollowEvidence`, `PreferredIsBest`, `SelectionIsBestOrFlagged` | `DetectedInv`: a detected topology is a table of finitely many CPUs, not empty, with the groups, preferred CPU and flags that the helpers give for it. The work is in lemmas about the helpers: a strict total order on a finite set sorts it (`Sorted`); the index of a group in the order is the number of those before it, so that no index is left out; the turn-by-turn choice ends at a CPU that no other beats; a prefix of a sorted list leaves out nothing better; comparing ranks is comparing the evidence (`RankUnit` exceeds every frequency) |
| MemoryEngineProofs | `TypeOK`, `BufferOutlivesWorkers`, `MeasureOnlyWhenAllWarm`, `CompletedCoversDeadline`, `MembershipIsCurrent`, `BytesNeverDrop`, `ImplementsLifecycle` | the coordinator's place determines what the workers may be doing (`PlaceInv`, `WorkersInv`), what the snapshot says (`SnapshotInv`), who raised the flag (`StopInv`: a failed creation raises it too, and then the outcome is an error) and which CPUs were observed last (`TopologyInv`); the bytes never drop because a live snapshot is behind `processed`, which each worker keeps behind `completed`, the counter of the last snapshot (`BytesInv`, `PassInv`) |
| CpuApplicationEngineProofs | `TypeOK`, `WorkersLeaveInOrder`, `MeasureOnlyWhenAllWarm`, `OutcomeIsHonest`, `ImplementsLifecycle` | a throw may send the coordinator to the join from anywhere, so that the workers' steps hang on the phase rather than on the place (`ThreadsInv`, `PhaseInv`); `FlagInv` tells a stop that was asked for from a flag that a failure raised, `OutcomeInv` carries that to the publication |
| GpuEngineProofs | `TypeOK`, `HostWaitsForDevice`, `FaultBlocksReuse`, `StopIsPrompt`, `ValuesAreValidated`, `ItemsAgree`, `ImplementsLifecycle` | a fault leaves a trace that `Start` looks at (`FaultInv`); a stop leaves each stage a number of submissions that are still to come (`StopInv`, with `Left`); what a variant was validated for is kept until the output is judged (`ValidInv`, `CheckedInv`); the tests before the active one are done (`RunningInv`, `DoneInv`) |
| StorageEngineProofs | `TypeOK`, `TerminalRemovesFiles`, `StoppedIffCutShort`, `CompletedRecordsAll`, `SingleFailureIsReported`, `ValidWriteIsFlushed`, `OtherResultsKept` | the three copies of the snapshot belong to one run (`RunInv`), have no result from a later one (`AgeInv`) and agree on the tests that it leaves alone (`KeepInv`), so that publishing an older copy loses nothing but the state; every requested test is recorded in the coordinator's copy or still to come (`QueueInv`, `RecordInv`), on which its outcome rests (`OutcomeInv`) |
| StorageAioProofs | `TypeOK`, `ValidMeansDepth`, `CountsEveryRequest` | `RequestsInv`: the thread's count of requests in flight is the size of the set that the kernel holds; `PhaseInv`: what may still be handed out fits into depth and phase; `ResultInv`: everything handed out while measuring is counted or in flight, the depth reached since the phase began is the full one |
| StorageThreadsProofs | `TypeOK`, `TransferTogether`, `ResultIsComplete` | `LiveInv`: nobody is past the start flag while threads are created, all have left after the join; `ResultInv`: the errors and totals taken there are final |
| BenchmarkLeaseProofs | `TypeOK`, `OnlyOwnerRuns`, `LeaseHasHolder`, `NothingStartsInBackground` | `HolderIsOwner`: a controller that knows a lease knows the active one and owns it; `PollerHolds`: a controller that polls has a lease; `SequenceInv`: one that would go on with a sequence has a lease and is in the foreground, since losing the foreground ends the owner's sequence |

Some of these (`TypeOK`, `CancelledOnlyOnRequest`, `TerminalIsFinal` of CpuEngine, `MeasureOnlyWhenAllWarm` of the two
other engines, `SingleFailureIsReported`, `ValidWriteIsFlushed`, `OtherResultsKept`) are not repeated in a run: the
theorem says more.

Only model-checked is liveness (`RunEnds`, `RunEndsUnless...`, `TestReturns`, `LeaseIsReleasedUnlessRunHangs`), which the prover
cannot do under fairness. Every invariant and every other action property of the passing runs is the subject of a
theorem.

## What is not modelled, and why

* What the CPU workers measure: work totals, elapsed times, score windows, telemetry and affinity retries
  (`core/src/engine.cpp:140-273, 769-883`). They are floating-point arithmetic on measured time and readings of the
  platform that nothing in the protocol depends on; one hazard of this kind is listed without a property.
* GPU arithmetic: durations from timestamps of limited width, calibration of batch sizes, expected outputs
  (`gpu_timing.cpp`, `gpu_validation.cpp`, `gpu_compatibility.cpp`). GpuEngine has their verdicts as choices. The
  creation of the Vulkan context is modelled by what it leaves available.
* Pinning a thread to a CPU and reading its frequencies during a run (`topology.cpp:570-682`): single calls to the
  platform, whose results are displayed.
* Two threads calling into one of the CPU, memory and storage engines at once: the only caller is the Dart isolate,
  which makes one call at a time.
* The FFI layer (checks of structure sizes and field copies), performance hints (best effort, nothing depends on their
  success but a quality flag), the kernels and shaders (pure arithmetic), device information and widgets (display).
* Real time: a deadline may pass at any moment; durations and rates are not computed.
