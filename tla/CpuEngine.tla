------------------------------ MODULE CpuEngine ------------------------------
(***************************************************************************)
(* The CPU throughput engine (native/benchmark_core/src/engine.cpp): the   *)
(* protocol between the thread that calls Engine::Start, RequestStop and   *)
(* the destructor, the coordinator thread that Start launches (Impl::Run), *)
(* and one worker thread per selected CPU (RunWorker).                     *)
(*                                                                         *)
(* The three meet in the snapshot (under snapshot_mutex_), in the atomic   *)
(* stop_requested_, and in the run's SharedRun, whose condition variable   *)
(* every worker sleeps on.  RequestStop sets the atomic and does NOT       *)
(* notify: a sleeping worker sees the stop when something else wakes it,   *)
(* so the set of sleeping workers is part of the state.                    *)
(*                                                                         *)
(* A section under one mutex is one step.  Time is abstract: a deadline    *)
(* may pass at any moment, and what the workers measure is left out.  The  *)
(* counters of SharedRun are kept as the sets of workers counted.          *)
(***************************************************************************)
EXTENDS Naturals

CONSTANTS
  Cpus,     \* the logical CPUs DetectTopology may report
  MaxRuns   \* bound: how many runs the client starts

ASSUME CpuEngineAssumption ==
  /\ Cpus # {}
  /\ MaxRuns \in Nat \ {0}

VARIABLES
  client,          \* where the caller is inside Start or the destructor
  coordinator,     \* where the coordinator thread is inside Run
  stop_requested,  \* Impl::stop_requested_
  next_run_id,     \* Impl::next_run_id_
  snapshot,        \* Impl::snapshot_: run_id and state
  selected,        \* selected_cpus of the current run
  worker,          \* where each worker thread is inside RunWorker
  asleep,          \* workers blocked in SharedRun::cv
  shared,          \* SharedRun: three counters and two flags
  elapsed,         \* what each worker stored in WorkerContext::elapsed_ns
  asked            \* history: runs that the client asked to stop

engineVars == <<client, stop_requested, next_run_id, snapshot, asked>>
workerVars == <<worker, asleep, shared, elapsed>>
vars == <<client, coordinator, stop_requested, next_run_id, snapshot, selected,
          worker, asleep, shared, elapsed, asked>>

RunningStates == {"kPreparing", "kWarmingUp", "kMeasuring"}
TerminalStates == {"kCompleted", "kCancelled", "kError"}
IsRunning(state) == state \in RunningStates
IsTerminal(state) == state \in TerminalStates

\* A coordinator thread that is not executing Run any more.
CoordinatorGone == coordinator \in {"none", "returned"}

FreshShared ==
  [ready |-> {}, warmup_done |-> {}, finished |-> {},
   warmup_started |-> FALSE, measurement_started |-> FALSE]

NoWorkers == [w \in Cpus |-> "absent"]
NothingMeasured == [w \in Cpus |-> "none"]

TypeOK ==
  /\ client \in {"idle", "start_join", "destroy_join", "destroyed"}
  /\ coordinator \in {"none", "select", "spawn", "release", "join_failed",
                      "wait_ready", "wait_warmup", "begin_measurement",
                      "cancel", "measure", "join", "finalize",
                      "publish_cancelled", "publish_completed", "returned"}
  /\ stop_requested \in BOOLEAN
  /\ next_run_id \in Nat \ {0}
  /\ snapshot \in [run_id : Nat,
                   state : RunningStates \cup TerminalStates \cup {"kIdle"}]
  /\ selected \in SUBSET Cpus
  /\ worker \in [Cpus -> {"absent", "starting", "ready_wait", "warmup",
                          "measure_wait", "measure", "finish", "returned"}]
  /\ asleep \in SUBSET Cpus
  /\ shared \in [ready : SUBSET Cpus, warmup_done : SUBSET Cpus,
                 finished : SUBSET Cpus, warmup_started : BOOLEAN,
                 measurement_started : BOOLEAN]
  /\ elapsed \in [Cpus -> {"none", "short", "full"}]
  /\ asked \in SUBSET Nat

Init ==
  /\ client = "idle"
  /\ coordinator = "none"
  /\ stop_requested = FALSE
  /\ next_run_id = 1
  /\ snapshot = [run_id |-> 0, state |-> "kIdle"]
  /\ selected = {}
  /\ worker = NoWorkers
  /\ asleep = {}
  /\ shared = FreshShared
  /\ elapsed = NothingMeasured
  /\ asked = {}

------------------------------------------------------------------------------
(* The caller: one thread makes the calls, one at a time. *)

\* Start: refused with kBusy while the snapshot is in a running state.
StartAccept ==
  /\ client = "idle"
  /\ next_run_id <= MaxRuns
  /\ ~IsRunning(snapshot.state)
  /\ client' = "start_join"
  /\ UNCHANGED <<coordinator, stop_requested, next_run_id, snapshot, selected,
                 asked, workerVars>>

\* Start: the previous coordinator is joined, the stop flag is reset, and the new
\* run is published as preparing.
PublishPreparing(run_id) ==
  /\ client = "start_join"
  /\ CoordinatorGone
  /\ client' = "idle"
  /\ stop_requested' = FALSE
  /\ snapshot' = [run_id |-> run_id, state |-> "kPreparing"]
  /\ next_run_id' = next_run_id + 1
  /\ UNCHANGED <<selected, asked, workerVars>>

\* Faulty variant: the snapshot gets the number after the increment.
StartLaunchOffByOne ==
  /\ PublishPreparing(next_run_id + 1)
  /\ coordinator' = "select"

StartLaunch ==
  /\ PublishPreparing(next_run_id)
  /\ coordinator' = "select"

\* std::thread throws, through Start: the run stays published and has no coordinator.
StartThrows ==
  /\ PublishPreparing(next_run_id)
  /\ coordinator' = "none"

\* RequestStop: only for the run in the snapshot, only while it is running.
RequestStop(run_id) ==
  /\ client = "idle"
  /\ run_id # 0
  /\ run_id = snapshot.run_id
  /\ IsRunning(snapshot.state)
  /\ stop_requested' = TRUE
  /\ asked' = asked \cup {run_id}
  /\ UNCHANGED <<client, coordinator, next_run_id, snapshot, selected, workerVars>>

\* ~Impl: stop whatever runs, then join the coordinator.
Destroy ==
  /\ client = "idle"
  /\ client' = "destroy_join"
  /\ stop_requested' = TRUE
  /\ asked' = asked \cup {snapshot.run_id}
  /\ UNCHANGED <<coordinator, next_run_id, snapshot, selected, workerVars>>

DestroyJoin ==
  /\ client = "destroy_join"
  /\ CoordinatorGone
  /\ client' = "destroyed"
  /\ coordinator' = "none"
  /\ UNCHANGED <<stop_requested, next_run_id, snapshot, selected, asked, workerVars>>

------------------------------------------------------------------------------
(* The coordinator: Impl::Run. *)

\* PublishState and PublishError: nothing is written for a run that is not the
\* snapshot's any more.
Publish(run_id, state) ==
  snapshot' = IF snapshot.run_id = run_id
                THEN [snapshot EXCEPT !.state = state]
                ELSE snapshot

\* The run a coordinator works for: the last one Start numbered.
ThisRun == next_run_id - 1

\* JoinAll returns once no created worker is still inside RunWorker.
AllReturned == \A w \in Cpus : worker[w] \in {"absent", "returned"}

\* No CPU could be selected.
TopologyUnavailable ==
  /\ coordinator = "select"
  /\ Publish(ThisRun, "kError")
  /\ coordinator' = "returned"
  /\ UNCHANGED <<client, stop_requested, next_run_id, selected, asked, workerVars>>

\* The CPUs of this run are fixed and its SharedRun and contexts are created.
SelectCpus(cpus) ==
  /\ coordinator = "select"
  /\ selected' = cpus
  /\ shared' = FreshShared
  /\ elapsed' = NothingMeasured
  /\ coordinator' = "spawn"
  /\ UNCHANGED <<engineVars, worker, asleep>>

SpawnWorker(w) ==
  /\ coordinator = "spawn"
  /\ w \in selected
  /\ worker[w] = "absent"
  /\ worker' = [worker EXCEPT ![w] = "starting"]
  /\ coordinator' = IF \A v \in selected \ {w} : worker[v] # "absent"
                      THEN "wait_ready" ELSE "spawn"
  /\ UNCHANGED <<engineVars, selected, asleep, shared, elapsed>>

\* Faulty variant: the gates will be opened with the stop flag still down.
SpawnFailsWithoutStop ==
  /\ coordinator = "spawn"
  /\ coordinator' = "release"
  /\ UNCHANGED <<engineVars, selected, workerVars>>

\* std::thread throws: first the stop flag is raised ...
SpawnFails ==
  /\ coordinator = "spawn"
  /\ stop_requested' = TRUE
  /\ coordinator' = "release"
  /\ UNCHANGED <<client, next_run_id, snapshot, selected, asked, workerVars>>

\* Faulty variant: the flags are set and nobody is notified.
ReleaseWithoutNotify ==
  /\ coordinator = "release"
  /\ shared' = [shared EXCEPT !.warmup_started = TRUE, !.measurement_started = TRUE]
  /\ coordinator' = "join_failed"
  /\ UNCHANGED <<engineVars, selected, worker, asleep, elapsed>>

\* ... then both gates are opened for the workers that already exist ...
ReleaseAfterFailure ==
  /\ coordinator = "release"
  /\ shared' = [shared EXCEPT !.warmup_started = TRUE, !.measurement_started = TRUE]
  /\ asleep' = {}
  /\ coordinator' = "join_failed"
  /\ UNCHANGED <<engineVars, selected, worker, elapsed>>

\* ... and they are joined before the error is published.
JoinFailed ==
  /\ coordinator = "join_failed"
  /\ AllReturned
  /\ worker' = NoWorkers
  /\ Publish(ThisRun, "kError")
  /\ coordinator' = "returned"
  /\ UNCHANGED <<client, stop_requested, next_run_id, selected, asleep, shared,
                 elapsed, asked>>

\* Every worker is ready: warm-up begins.
BeginWarmUp ==
  /\ coordinator = "wait_ready"
  /\ shared.ready = selected
  /\ Publish(ThisRun, "kWarmingUp")
  /\ shared' = [shared EXCEPT !.warmup_started = TRUE]
  /\ asleep' = {}
  /\ coordinator' = "wait_warmup"
  /\ UNCHANGED <<client, stop_requested, next_run_id, selected, worker, elapsed, asked>>

\* Every worker has warmed up, and the stop flag is read once: a stop seen here
\* opens the gate so that the workers leave ...
CancelAfterWarmUp ==
  /\ coordinator = "wait_warmup"
  /\ shared.warmup_done = selected
  /\ stop_requested
  /\ shared' = [shared EXCEPT !.measurement_started = TRUE]
  /\ asleep' = {}
  /\ coordinator' = "cancel"
  /\ UNCHANGED <<engineVars, selected, worker, elapsed>>

\* ... otherwise the coordinator is committed to measuring.
CommitToMeasure ==
  /\ coordinator = "wait_warmup"
  /\ shared.warmup_done = selected
  /\ ~stop_requested
  /\ coordinator' = "begin_measurement"
  /\ UNCHANGED <<engineVars, selected, workerVars>>

\* Faulty variant: the cancellation is published before the workers are joined.
PublishCancelledUnjoined ==
  /\ coordinator = "cancel"
  /\ Publish(ThisRun, "kCancelled")
  /\ coordinator' = "returned"
  /\ UNCHANGED <<client, stop_requested, next_run_id, selected, asked, workerVars>>

JoinCancelled ==
  /\ coordinator = "cancel"
  /\ AllReturned
  /\ worker' = NoWorkers
  /\ Publish(ThisRun, "kCancelled")
  /\ coordinator' = "returned"
  /\ UNCHANGED <<client, stop_requested, next_run_id, selected, asleep, shared,
                 elapsed, asked>>

BeginMeasurement ==
  /\ coordinator = "begin_measurement"
  /\ Publish(ThisRun, "kMeasuring")
  /\ shared' = [shared EXCEPT !.measurement_started = TRUE]
  /\ asleep' = {}
  /\ coordinator' = "measure"
  /\ UNCHANGED <<client, stop_requested, next_run_id, selected, worker, elapsed, asked>>

\* The polling loop of the coordinator has one exit: every worker was counted.
AllFinished ==
  /\ coordinator = "measure"
  /\ shared.finished = selected
  /\ coordinator' = "join"
  /\ UNCHANGED <<engineVars, selected, workerVars>>

JoinMeasured ==
  /\ coordinator = "join"
  /\ AllReturned
  /\ worker' = NoWorkers
  /\ coordinator' = "finalize"
  /\ UNCHANGED <<engineVars, selected, asleep, shared, elapsed>>

\* Faulty variant: the outcome does not depend on the stop flag.
DecideCompleted ==
  /\ coordinator = "finalize"
  /\ coordinator' = "publish_completed"
  /\ UNCHANGED <<engineVars, selected, workerVars>>

\* The final totals are read and the stop flag decides the outcome; a stop
\* that arrives after this read does not change it any more.
DecideOutcome ==
  /\ coordinator = "finalize"
  /\ coordinator' = IF stop_requested THEN "publish_cancelled" ELSE "publish_completed"
  /\ UNCHANGED <<engineVars, selected, workerVars>>

PublishOutcome ==
  /\ coordinator \in {"publish_cancelled", "publish_completed"}
  /\ Publish(ThisRun, IF coordinator = "publish_cancelled"
                        THEN "kCancelled" ELSE "kCompleted")
  /\ coordinator' = "returned"
  /\ UNCHANGED <<client, stop_requested, next_run_id, selected, asked, workerVars>>

------------------------------------------------------------------------------
(* A worker: RunWorker. *)

\* cv.wait evaluates its predicate under the lock: true lets the worker pass,
\* false puts it to sleep until a notify_all (or a spurious wake-up).
MayWarmUp == shared.warmup_started \/ stop_requested
MayMeasure == shared.measurement_started \/ stop_requested

\* Where a worker goes that passes the second gate: a stop makes it return at
\* once, and such a worker is not counted in SharedRun::finished.
AfterSecondGate == IF stop_requested THEN "returned" ELSE "measure"

\* ++ready, notify_all, and the first evaluation of the first gate.
WorkerReady(w) ==
  /\ worker[w] = "starting"
  /\ shared' = [shared EXCEPT !.ready = @ \cup {w}]
  /\ worker' = [worker EXCEPT ![w] = IF MayWarmUp THEN "warmup" ELSE "ready_wait"]
  /\ asleep' = IF MayWarmUp THEN {} ELSE {w}
  /\ UNCHANGED <<engineVars, coordinator, selected, elapsed>>

\* A worker woken at the first gate evaluates it again.
WakeAtFirstGate(w) ==
  /\ worker[w] = "ready_wait"
  /\ w \notin asleep
  /\ worker' = IF MayWarmUp THEN [worker EXCEPT ![w] = "warmup"] ELSE worker
  /\ asleep' = IF MayWarmUp THEN asleep ELSE asleep \cup {w}
  /\ UNCHANGED <<engineVars, coordinator, selected, shared, elapsed>>

\* The warm-up loop ends (deadline or stop): ++warmup_done, notify_all, and the
\* first evaluation of the second gate.
WarmUpDone(w) ==
  /\ worker[w] = "warmup"
  /\ shared' = [shared EXCEPT !.warmup_done = @ \cup {w}]
  /\ worker' = [worker EXCEPT ![w] = IF MayMeasure THEN AfterSecondGate
                                                   ELSE "measure_wait"]
  /\ asleep' = IF MayMeasure THEN {} ELSE {w}
  /\ UNCHANGED <<engineVars, coordinator, selected, elapsed>>

WakeAtSecondGate(w) ==
  /\ worker[w] = "measure_wait"
  /\ w \notin asleep
  /\ worker' = IF MayMeasure THEN [worker EXCEPT ![w] = AfterSecondGate] ELSE worker
  /\ asleep' = IF MayMeasure THEN asleep ELSE asleep \cup {w}
  /\ UNCHANGED <<engineVars, coordinator, selected, shared, elapsed>>

\* The standard allows cv.wait to wake without a notification.
SpuriousWakeUp(w) ==
  /\ w \in asleep
  /\ asleep' = asleep \ {w}
  /\ UNCHANGED <<engineVars, coordinator, selected, worker, shared, elapsed>>

\* The measuring loop ends and elapsed_ns is stored.  At the deadline the
\* worker has covered the whole duration; a stop may cut it short.
MeasureEnd(w, covered) ==
  /\ worker[w] = "measure"
  /\ covered = "short" => stop_requested
  /\ elapsed' = [elapsed EXCEPT ![w] = covered]
  /\ worker' = [worker EXCEPT ![w] = "finish"]
  /\ UNCHANGED <<engineVars, coordinator, selected, asleep, shared>>

\* ++finished under the lock, notify_all, return.
WorkerFinish(w) ==
  /\ worker[w] = "finish"
  /\ shared' = [shared EXCEPT !.finished = @ \cup {w}]
  /\ asleep' = {}
  /\ worker' = [worker EXCEPT ![w] = "returned"]
  /\ UNCHANGED <<engineVars, coordinator, selected, elapsed>>

------------------------------------------------------------------------------

ClientDecides ==
  \/ StartAccept
  \/ \E run_id \in 1 .. MaxRuns : RequestStop(run_id)
  \/ Destroy

ClientReturns == StartLaunch \/ DestroyJoin

CoordinatorStep ==
  \/ \E cpus \in SUBSET Cpus \ {{}} : SelectCpus(cpus)
  \/ \E w \in Cpus : SpawnWorker(w)
  \/ ReleaseAfterFailure
  \/ JoinFailed
  \/ BeginWarmUp
  \/ CancelAfterWarmUp
  \/ CommitToMeasure
  \/ JoinCancelled
  \/ BeginMeasurement
  \/ AllFinished
  \/ JoinMeasured
  \/ DecideOutcome
  \/ PublishOutcome

Failures == StartThrows \/ TopologyUnavailable \/ SpawnFails

WorkerStep(w) ==
  \/ WorkerReady(w)
  \/ WakeAtFirstGate(w)
  \/ WarmUpDone(w)
  \/ WakeAtSecondGate(w)
  \/ \E covered \in {"short", "full"} : MeasureEnd(w, covered)
  \/ WorkerFinish(w)

Next ==
  \/ ClientDecides
  \/ ClientReturns
  \/ CoordinatorStep
  \/ Failures
  \/ \E w \in Cpus : WorkerStep(w) \/ SpuriousWakeUp(w)

Spec == Init /\ [][Next]_vars

\* Threads that can take a step are scheduled and deadlines pass.  Nothing makes
\* the client call, a thread creation fail, or a wait wake spuriously.
Fairness ==
  /\ WF_vars(ClientReturns)
  /\ WF_vars(CoordinatorStep)
  /\ \A w \in Cpus : WF_vars(WorkerStep(w))

FairSpec == Spec /\ Fairness

------------------------------------------------------------------------------
(* Properties *)

NoWorkerAlive == \A w \in Cpus : worker[w] = "absent"

\* A terminal snapshot means that the threads of the run are gone: whoever reads
\* it may start another benchmark without disturbing it (every JoinAll in Run
\* comes before the terminal Publish).
TerminalMeansJoined == IsTerminal(snapshot.state) => NoWorkerAlive

\* A run is reported cancelled only if the client asked for that very run to
\* stop.  A stop that came too late for an earlier run, or the stop that Run
\* raises itself when a thread cannot be created, never cancels a later run.
CancelledOnlyOnRequest == snapshot.state = "kCancelled" => snapshot.run_id \in asked

\* A run is reported completed only if every selected worker measured up to the
\* deadline: a stop that cut one worker short is never lost in the outcome.
CompletedCoversDeadline ==
  snapshot.state = "kCompleted" => \A w \in selected : elapsed[w] = "full"

\* No worker counts work while another one is still warming up, on the failure
\* paths included (there the opened gate must find the stop flag raised).
MeasureOnlyWhenAllWarm ==
  (\E w \in Cpus : worker[w] \in {"measure", "finish"}) => shared.warmup_done = selected

\* Once a run is over its snapshot is final: no thread writes it again before
\* Start has accepted another run.
TerminalIsFinal ==
  [][IsTerminal(snapshot.state) /\ snapshot'.run_id = snapshot.run_id
       => snapshot' = snapshot]_vars

\* The run was published and the thread that would end it does not exist.
NeverLaunched == IsRunning(snapshot.state) /\ coordinator = "none"

\* The coordinator polls for a worker that returned without being counted.
WorkerUncounted ==
  /\ coordinator = "measure"
  /\ \E w \in selected \ shared.finished : worker[w] = "returned"

\* Every run that Start published ends, whatever is stopped, destroyed or fails and
\* whenever, but for two cases: its coordinator could not be created, or a worker
\* left at the second gate behind a coordinator that has committed to measuring.
\* No wake-up is lost on any other path.
RunEndsUnlessStranded ==
  IsRunning(snapshot.state) ~>
    (IsTerminal(snapshot.state) \/ NeverLaunched \/ WorkerUncounted)

\* A stop that RequestStop accepted, or that the destructor raised, brings a run that
\* was launched to an end (docs/phase-1.md: "Stop reaches a terminal state within
\* 250 ms").
StopReachesTerminal ==
  (stop_requested /\ IsRunning(snapshot.state) /\ ~NeverLaunched)
    ~> IsTerminal(snapshot.state)

\* The promise of RunLifecycle, read off the snapshot and the stop flag.
Lifecycle == INSTANCE RunLifecycle WITH
  run <- snapshot.run_id,
  state <- CASE IsRunning(snapshot.state) -> "Running"
             [] snapshot.state = "kCompleted" -> "Completed"
             [] snapshot.state = "kCancelled" -> "Cancelled"
             [] snapshot.state = "kError" -> "Error"
             [] OTHER -> "Idle",
  stopAsked <- IsRunning(snapshot.state) /\ stop_requested

\* The engine implements RunLifecycle: runs are numbered without gaps, never
\* overlap, end once, and are cancelled only when a stop is pending.
ImplementsLifecycle == Lifecycle!Spec
=============================================================================
