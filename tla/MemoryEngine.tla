----------------------------- MODULE MemoryEngine -----------------------------
(***************************************************************************)
(* The memory engine (native/benchmark_core/src/memory_engine.cpp): the    *)
(* thread that calls Start, RequestStop and the destructor, the coordinator*)
(* (Run, RunAttempt), and one worker per CPU that the process may use.     *)
(*                                                                         *)
(* After the warm-up the coordinator reads the topology again.  If other   *)
(* CPUs may be used by now, the workers are let go through a phase of      *)
(* their own, joined, and a new attempt prepares a buffer and workers for  *)
(* the new set, at most MaxAttempts times in all.                          *)
(*                                                                         *)
(* Workers and coordinator meet in atomics on which they spin; nobody      *)
(* sleeps.  The counters ready_count and warm_count are kept as the sets   *)
(* of workers counted.  Deadlines pass at any moment; bytes are passes.    *)
(***************************************************************************)
EXTENDS Naturals, FiniteSets

CONSTANTS
  Cpus,        \* the logical CPUs that topologies may report
  MaxRuns,     \* bound: how many runs the client starts
  MaxPasses    \* bound: how many passes a worker makes before the deadline

ASSUME MemoryEngineAssumption ==
  /\ Cpus # {}
  /\ IsFiniteSet(Cpus)
  /\ MaxRuns \in Nat \ {0}
  /\ MaxPasses \in Nat \ {0}

VARIABLES
  client,           \* where the caller is inside Start or the destructor
  stop_requested,   \* stop_requested_
  next_run_id,      \* next_run_id_
  snapshot,         \* snapshot_ as published
  coordinator,      \* where the coordinator is inside Run and RunAttempt
  attempt,          \* RunAttempt's attempt, from 0
  topology,         \* the CPUs that the topology of this attempt makes usable
  context,          \* RunAttempt's own snapshot, published as a whole
  creation_failed,  \* creation_failed
  buffer,           \* the aligned buffer is allocated
  worker,           \* where each worker is
  ready,            \* ready_count
  warm,             \* warm_count
  phase,            \* phase: 0 gathering, 1 warm-up, 2 measuring, 3 leaving
  expired,          \* measure_end_ns has passed
  completed,        \* completions[i].bytes, in passes
  processed,        \* processed[i], in passes
  asked,            \* history: runs that the client asked to stop
  cut,              \* history: workers that a stop kept from the deadline
  observed          \* history: {the usable CPUs last read}, {} if unreadable

clientVars == <<client, next_run_id, asked>>
attemptVars == <<attempt, topology, context, creation_failed, buffer, observed>>
sharedVars == <<ready, warm, phase, expired>>
workVars == <<completed, processed, cut>>
vars == <<clientVars, stop_requested, snapshot, coordinator, attemptVars, worker,
          sharedVars, workVars>>

MaxAttempts == 3   \* the loop bound of Run

RunningStates == {"kPreparing", "kWarmingUp", "kMeasuring"}
IsTerminal(state) == state \in {"kIdle", "kCompleted", "kCancelled", "kError"}

CoordinatorGone == coordinator \in {"none", "returned"}

States == RunningStates \cup {"kIdle", "kCompleted", "kCancelled", "kError"}
Passes == [Cpus -> 0 .. MaxPasses]

\* The bytes of some workers together: their passes, counted one by one.
TotalOf(workers, passes) ==
  Cardinality({pass \in workers \X (1 .. MaxPasses) : pass[2] <= passes[pass[1]]})

\* The bytes of all workers together, and the values that a snapshot may show.
Total(passes) == TotalOf(Cpus, passes)
Bytes == {0} \cup {Total(passes) : passes \in Passes}

Snapshots ==
  [run_id : Nat, state : States, bytes : Bytes, selected : SUBSET Cpus,
   topology_unstable : BOOLEAN]

\* MemorySnapshot as Start and RunAttempt create it.
Initial(run_id, state) ==
  [run_id |-> run_id, state |-> state, bytes |-> 0, selected |-> {},
   topology_unstable |-> FALSE]

NoWorkers == [w \in Cpus |-> "absent"]
NoPasses == [w \in Cpus |-> 0]

TypeOK ==
  /\ client \in {"idle", "start_join", "start_launch", "destroy_join", "destroyed"}
  /\ stop_requested \in BOOLEAN
  /\ next_run_id \in Nat \ {0}
  /\ snapshot \in Snapshots
  /\ coordinator \in {"none", "read", "prepare", "spawn", "wait_ready", "wait_warm",
                      "refresh", "rejoin", "begin_measure", "measure", "progress",
                      "join", "finalize", "publish", "returned"}
  /\ attempt \in 0 .. MaxAttempts - 1
  /\ topology \in SUBSET Cpus
  /\ context \in Snapshots
  /\ creation_failed \in BOOLEAN
  /\ buffer \in BOOLEAN
  /\ worker \in [Cpus -> {"absent", "starting", "gate", "warm_up", "warm_gate",
                          "measure", "pass", "count", "returned"}]
  /\ ready \in SUBSET Cpus
  /\ warm \in SUBSET Cpus
  /\ phase \in 0 .. 3
  /\ expired \in BOOLEAN
  /\ completed \in Passes
  /\ processed \in Passes
  /\ asked \in SUBSET Nat
  /\ cut \in SUBSET Cpus
  /\ observed \in SUBSET SUBSET Cpus

Init ==
  /\ client = "idle"
  /\ stop_requested = FALSE
  /\ next_run_id = 1
  /\ snapshot = Initial(0, "kIdle")
  /\ coordinator = "none"
  /\ attempt = 0
  /\ topology = {}
  /\ context = Initial(0, "kIdle")
  /\ creation_failed = FALSE
  /\ buffer = FALSE
  /\ worker = NoWorkers
  /\ ready = {}
  /\ warm = {}
  /\ phase = 0
  /\ expired = FALSE
  /\ completed = NoPasses
  /\ processed = NoPasses
  /\ asked = {}
  /\ cut = {}
  /\ observed = {}

------------------------------------------------------------------------------
(* The caller: one thread makes the calls, one at a time. *)

\* The run that was numbered last.
ThisRun == next_run_id - 1

StartAccept ==
  /\ client = "idle"
  /\ next_run_id <= MaxRuns
  /\ IsTerminal(snapshot.state)
  /\ client' = "start_join"
  /\ UNCHANGED <<next_run_id, asked, stop_requested, snapshot, coordinator,
                 attemptVars, worker, sharedVars, workVars>>

\* Start, once the previous coordinator is joined: the run is published ...
StartPublish ==
  /\ client = "start_join"
  /\ CoordinatorGone
  /\ client' = "start_launch"
  /\ stop_requested' = FALSE
  /\ snapshot' = Initial(next_run_id, "kPreparing")
  /\ next_run_id' = next_run_id + 1
  /\ coordinator' = "none"
  /\ UNCHANGED <<asked, attemptVars, worker, sharedVars, workVars>>

\* ... and its thread created; if that throws, it is published as failed.
StartLaunch(created) ==
  /\ client = "start_launch"
  /\ client' = "idle"
  /\ IF created THEN coordinator' = "read" /\ UNCHANGED snapshot
                ELSE snapshot' = Initial(ThisRun, "kError") /\ UNCHANGED coordinator
  /\ UNCHANGED <<next_run_id, asked, stop_requested, attemptVars, worker,
                 sharedVars, workVars>>

\* RequestStop looks at the run's number only: a run that is over accepts it too.
RequestStop(run_id) ==
  /\ client = "idle"
  /\ run_id # 0
  /\ run_id = snapshot.run_id
  /\ stop_requested' = TRUE
  /\ asked' = asked \cup {run_id}
  /\ UNCHANGED <<client, next_run_id, snapshot, coordinator, attemptVars, worker,
                 sharedVars, workVars>>

Destroy ==
  /\ client = "idle"
  /\ client' = "destroy_join"
  /\ stop_requested' = TRUE
  /\ asked' = asked \cup {snapshot.run_id}
  /\ UNCHANGED <<next_run_id, snapshot, coordinator, attemptVars, worker,
                 sharedVars, workVars>>

DestroyJoin ==
  /\ client = "destroy_join"
  /\ CoordinatorGone
  /\ client' = "destroyed"
  /\ coordinator' = "none"
  /\ UNCHANGED <<next_run_id, asked, stop_requested, snapshot, attemptVars, worker,
                 sharedVars, workVars>>

------------------------------------------------------------------------------
(* The coordinator *)

Members == context.selected

\* Publish: the attempt's own snapshot replaces the engine's.
Publish(state) ==
  /\ context' = [context EXCEPT !.state = state]
  /\ snapshot' = context'

\* The workers of this attempt, and a join of all of them.
Created == {w \in Cpus : worker[w] # "absent"}
AllReturned == \A w \in Created : worker[w] = "returned"

\* Run reads the topology before the first attempt.
ReadTopology(usable) ==
  /\ coordinator = "read"
  /\ topology' = usable
  /\ observed' = {usable}
  /\ attempt' = 0
  /\ coordinator' = "prepare"
  /\ UNCHANGED <<clientVars, stop_requested, snapshot, context, creation_failed,
                 buffer, worker, sharedVars, workVars>>

\* No CPU may be used, or there is no memory for the buffer: the run fails.
PrepareFails ==
  /\ coordinator = "prepare"
  /\ context' = [Initial(ThisRun, "kError") EXCEPT !.selected = topology]
  /\ snapshot' = context'
  /\ coordinator' = "returned"
  /\ UNCHANGED <<clientVars, stop_requested, attempt, topology, creation_failed,
                 buffer, observed, worker, sharedVars, workVars>>

\* An attempt begins: its snapshot, buffer, counters and phase are its own.
Prepare ==
  /\ coordinator = "prepare"
  /\ topology # {}
  /\ context' = [Initial(ThisRun, "kPreparing") EXCEPT !.selected = topology]
  /\ buffer' = TRUE
  /\ creation_failed' = FALSE
  /\ ready' = {}
  /\ warm' = {}
  /\ phase' = 0
  /\ expired' = FALSE
  /\ completed' = NoPasses
  /\ processed' = NoPasses
  /\ cut' = {}
  /\ coordinator' = "spawn"
  /\ UNCHANGED <<clientVars, stop_requested, snapshot, attempt, topology, observed,
                 worker>>

SpawnWorker(w) ==
  /\ coordinator = "spawn"
  /\ w \in Members \ Created
  /\ worker' = [worker EXCEPT ![w] = "starting"]
  /\ coordinator' = IF Members \ Created = {w} THEN "wait_ready" ELSE "spawn"
  /\ UNCHANGED <<clientVars, stop_requested, snapshot, attemptVars, sharedVars, workVars>>

\* A thread cannot be created: the stop flag keeps those that exist from working.
SpawnFails ==
  /\ coordinator = "spawn"
  /\ creation_failed' = TRUE
  /\ stop_requested' = TRUE
  /\ coordinator' = "wait_ready"
  /\ UNCHANGED <<clientVars, snapshot, attempt, topology, context, buffer, observed,
                 worker, sharedVars, workVars>>

\* Faulty variant: the coordinator waits for a worker per selected CPU.
BeginWarmUpWithAll ==
  /\ coordinator = "wait_ready"
  /\ ready = Members
  /\ Publish("kWarmingUp")
  /\ phase' = 1
  /\ coordinator' = "wait_warm"
  /\ UNCHANGED <<clientVars, stop_requested, attempt, topology, creation_failed,
                 buffer, observed, worker, ready, warm, expired, workVars>>

\* Every worker that was created is ready.
BeginWarmUp ==
  /\ coordinator = "wait_ready"
  /\ ready = Created
  /\ Publish("kWarmingUp")
  /\ phase' = 1
  /\ coordinator' = "wait_warm"
  /\ UNCHANGED <<clientVars, stop_requested, attempt, topology, creation_failed,
                 buffer, observed, worker, ready, warm, expired, workVars>>

\* Every worker has warmed up; after a stop or a failure the topology does not
\* matter any more.
EndWarmUp ==
  /\ coordinator = "wait_warm"
  /\ warm = Created
  /\ coordinator' = IF creation_failed \/ stop_requested THEN "begin_measure"
                                                         ELSE "refresh"
  /\ UNCHANGED <<clientVars, stop_requested, snapshot, attemptVars, worker,
                 sharedVars, workVars>>

\* Other CPUs may be used by now, and an attempt is left: the workers are let go.
RefreshChanged(usable) ==
  /\ coordinator = "refresh"
  /\ usable # Members
  /\ attempt < MaxAttempts - 1
  /\ topology' = usable
  /\ observed' = {usable}
  /\ phase' = 3
  /\ coordinator' = "rejoin"
  /\ UNCHANGED <<clientVars, stop_requested, snapshot, attempt, context,
                 creation_failed, buffer, worker, ready, warm, expired, workVars>>

\* Faulty variant: a change at the last attempt goes unnoticed.
RefreshAcceptedSilently(usable) ==
  /\ coordinator = "refresh"
  /\ usable = Members \/ attempt = MaxAttempts - 1
  /\ observed' = {usable}
  /\ coordinator' = "begin_measure"
  /\ UNCHANGED <<clientVars, stop_requested, snapshot, attempt, topology, context,
                 creation_failed, buffer, worker, sharedVars, workVars>>

\* The set is the same, or this is the last attempt: it is frozen as it is.
RefreshAccepted(usable) ==
  /\ coordinator = "refresh"
  /\ usable = Members \/ attempt = MaxAttempts - 1
  /\ observed' = {usable}
  /\ context' = [context EXCEPT !.topology_unstable = usable # Members]
  /\ coordinator' = "begin_measure"
  /\ UNCHANGED <<clientVars, stop_requested, snapshot, attempt, topology,
                 creation_failed, buffer, worker, sharedVars, workVars>>

\* The topology reader throws.
RefreshUnreadable ==
  /\ coordinator = "refresh"
  /\ observed' = {}
  /\ context' = [context EXCEPT !.topology_unstable = TRUE]
  /\ coordinator' = "begin_measure"
  /\ UNCHANGED <<clientVars, stop_requested, snapshot, attempt, topology,
                 creation_failed, buffer, worker, sharedVars, workVars>>

\* Faulty variant: the attempt returns, and frees its buffer, without the join.
RejoinWithoutWaiting ==
  /\ coordinator = "rejoin"
  /\ buffer' = FALSE
  /\ attempt' = attempt + 1
  /\ coordinator' = "prepare"
  /\ UNCHANGED <<clientVars, stop_requested, snapshot, topology, context,
                 creation_failed, observed, worker, sharedVars, workVars>>

\* The workers are joined, the attempt returns and frees its buffer.
Rejoin ==
  /\ coordinator = "rejoin"
  /\ AllReturned
  /\ worker' = NoWorkers
  /\ buffer' = FALSE
  /\ attempt' = attempt + 1
  /\ coordinator' = "prepare"
  /\ UNCHANGED <<clientVars, stop_requested, snapshot, topology, context,
                 creation_failed, observed, sharedVars, workVars>>

BeginMeasure ==
  /\ coordinator = "begin_measure"
  /\ Publish("kMeasuring")
  /\ phase' = 2
  /\ coordinator' = "measure"
  /\ UNCHANGED <<clientVars, stop_requested, attempt, topology, creation_failed,
                 buffer, observed, worker, ready, warm, expired, workVars>>

\* The polling loop: the flag and the clock are read ...
KeepMeasuring ==
  /\ coordinator = "measure"
  /\ ~stop_requested
  /\ ~expired
  /\ coordinator' = "progress"
  /\ UNCHANGED <<clientVars, stop_requested, snapshot, attemptVars, worker,
                 sharedVars, workVars>>

\* What the workers have counted so far.
Processed == Total(processed)

\* ... and then the counters, which may be ahead of that clock.
MeasureProgress ==
  /\ coordinator = "progress"
  /\ context' = [context EXCEPT !.bytes = Processed]
  /\ snapshot' = context'
  /\ coordinator' = "measure"
  /\ UNCHANGED <<clientVars, stop_requested, attempt, topology, creation_failed,
                 buffer, observed, worker, sharedVars, workVars>>

EndMeasure ==
  /\ coordinator = "measure"
  /\ stop_requested \/ expired
  /\ coordinator' = "join"
  /\ UNCHANGED <<clientVars, stop_requested, snapshot, attemptVars, worker,
                 sharedVars, workVars>>

\* Faulty variant: workers that a stop cut short are left out of the result.
CompletedUncut == TotalOf(Cpus \ cut, completed)

\* SummarizeMemoryMeasurement adds up the completions of all workers.
Completed == Total(completed)

\* The totals are taken from the completions after the join.
JoinMeasured ==
  /\ coordinator = "join"
  /\ AllReturned
  /\ worker' = NoWorkers
  /\ context' = [context EXCEPT !.bytes = Completed]
  /\ coordinator' = "finalize"
  /\ UNCHANGED <<clientVars, stop_requested, snapshot, attempt, topology,
                 creation_failed, buffer, observed, sharedVars, workVars>>

\* Faulty variant: the clock decides.
OutcomeByClock ==
  IF creation_failed THEN "kError" ELSE IF ~expired THEN "kCancelled" ELSE "kCompleted"

\* Faulty variant: the flag that SpawnFails raised is taken for the client's.
OutcomeStopFirst ==
  IF stop_requested THEN "kCancelled" ELSE IF creation_failed THEN "kError" ELSE "kCompleted"

Outcome ==
  IF creation_failed THEN "kError" ELSE IF stop_requested THEN "kCancelled" ELSE "kCompleted"

\* The outcome is decided and the buffer freed before the snapshot tells of it.
Finalize ==
  /\ coordinator = "finalize"
  /\ context' = [context EXCEPT !.state = Outcome]
  /\ buffer' = FALSE
  /\ coordinator' = "publish"
  /\ UNCHANGED <<clientVars, stop_requested, snapshot, attempt, topology,
                 creation_failed, observed, worker, sharedVars, workVars>>

PublishOutcome ==
  /\ coordinator = "publish"
  /\ snapshot' = context
  /\ coordinator' = "returned"
  /\ UNCHANGED <<clientVars, stop_requested, attemptVars, worker, sharedVars, workVars>>

------------------------------------------------------------------------------
(* A worker *)

\* What a worker's step leaves alone.
Rest == <<clientVars, stop_requested, snapshot, coordinator, attemptVars, phase, expired>>

Goes(w, place) == worker' = [worker EXCEPT ![w] = place]

WorkerReady(w) ==
  /\ worker[w] = "starting"
  /\ ready' = ready \cup {w}
  /\ Goes(w, "gate")
  /\ UNCHANGED <<Rest, warm, workVars>>

\* A worker spins until the phase comes; it does not look at the stop flag here.
WorkerWarmsUp(w) ==
  /\ worker[w] = "gate"
  /\ phase >= 1
  /\ Goes(w, "warm_up")
  /\ UNCHANGED <<Rest, ready, warm, workVars>>

WorkerWarm(w) ==
  /\ worker[w] = "warm_up"
  /\ warm' = warm \cup {w}
  /\ Goes(w, "warm_gate")
  /\ UNCHANGED <<Rest, ready, workVars>>

\* Phase 2 lets a worker measure, phase 3 lets it go.
WorkerPassesGate(w) ==
  /\ worker[w] = "warm_gate"
  /\ phase >= 2
  /\ Goes(w, IF phase = 2 THEN "measure" ELSE "returned")
  /\ UNCHANGED <<Rest, ready, warm, workVars>>

\* A pass runs to its end, whatever happens meanwhile; only then is it counted.
BeginPass(w) ==
  /\ worker[w] = "measure"
  /\ ~stop_requested
  /\ ~expired
  /\ completed[w] < MaxPasses
  /\ Goes(w, "pass")
  /\ UNCHANGED <<Rest, ready, warm, workVars>>

CompletePass(w) ==
  /\ worker[w] = "pass"
  /\ completed' = [completed EXCEPT ![w] = @ + 1]
  /\ Goes(w, "count")
  /\ UNCHANGED <<Rest, ready, warm, processed, cut>>

CountPass(w) ==
  /\ worker[w] = "count"
  /\ processed' = [processed EXCEPT ![w] = @ + 1]
  /\ Goes(w, "measure")
  /\ UNCHANGED <<Rest, ready, warm, completed, cut>>

WorkerReturns(w) ==
  /\ worker[w] = "measure"
  /\ stop_requested \/ expired
  /\ cut' = IF expired THEN cut ELSE cut \cup {w}
  /\ Goes(w, "returned")
  /\ UNCHANGED <<Rest, ready, warm, completed, processed>>

\* measure_end_ns passes.
Expire ==
  /\ phase = 2
  /\ ~expired
  /\ expired' = TRUE
  /\ UNCHANGED <<clientVars, stop_requested, snapshot, coordinator, attemptVars,
                 worker, ready, warm, phase, workVars>>

------------------------------------------------------------------------------

ClientDecides ==
  \/ StartAccept
  \/ \E run_id \in 1 .. MaxRuns : RequestStop(run_id)
  \/ Destroy

ClientReturns ==
  \/ StartPublish
  \/ \E created \in BOOLEAN : StartLaunch(created)
  \/ DestroyJoin

RefreshTopology ==
  \/ \E usable \in SUBSET Cpus : RefreshChanged(usable) \/ RefreshAccepted(usable)
  \/ RefreshUnreadable

CoordinatorStep ==
  \/ \E usable \in SUBSET Cpus : ReadTopology(usable)
  \/ PrepareFails
  \/ Prepare
  \/ \E w \in Cpus : SpawnWorker(w)
  \/ BeginWarmUp
  \/ EndWarmUp
  \/ RefreshTopology
  \/ Rejoin
  \/ BeginMeasure
  \/ MeasureProgress
  \/ EndMeasure
  \/ JoinMeasured
  \/ Finalize
  \/ PublishOutcome

WorkerStep(w) ==
  \/ WorkerReady(w)
  \/ WorkerWarmsUp(w)
  \/ WorkerWarm(w)
  \/ WorkerPassesGate(w)
  \/ BeginPass(w)
  \/ CompletePass(w)
  \/ CountPass(w)
  \/ WorkerReturns(w)

Next ==
  \/ ClientDecides
  \/ ClientReturns
  \/ CoordinatorStep
  \/ SpawnFails
  \/ KeepMeasuring
  \/ \E w \in Cpus : WorkerStep(w)
  \/ Expire

Spec == Init /\ [][Next]_vars

\* Threads are scheduled and the deadline of a measurement passes.  Nothing makes
\* the client call or a thread creation fail.
Fairness ==
  /\ WF_vars(ClientReturns)
  /\ WF_vars(CoordinatorStep)
  /\ \A w \in Cpus : WF_vars(WorkerStep(w))
  /\ WF_vars(Expire)

FairSpec == Spec /\ Fairness

------------------------------------------------------------------------------
(* Properties *)

\* Workers touch the buffer as long as they live, and a terminal snapshot lets
\* another benchmark use the memory: the buffer outlives the workers of every
\* attempt and is gone before the snapshot is terminal.
BufferOutlivesWorkers ==
  /\ Created # {} => buffer
  /\ IsTerminal(snapshot.state) => ~buffer

\* Nobody measures before every selected CPU has a worker that has warmed up,
\* also when an attempt fails half-way or starts over (docs/compatibility-
\* beta7.md: "No thread-count change occurs inside a scored interval").
MeasureOnlyWhenAllWarm ==
  (\E w \in Cpus : worker[w] \in {"pass", "count"}) => warm = Members

\* A completed run was measured on the CPUs that could be used when its warm-up
\* ended, or says that it was not (docs/compatibility-beta7.md: "The final
\* attempt freezes its worker set and flags continued instability").
MembershipIsCurrent ==
  snapshot.state = "kCompleted" =>
    snapshot.topology_unstable \/ observed = {snapshot.selected}

\* A stop that cut a worker short, in whichever attempt, is not lost in the
\* outcome: a completed run went on to its deadline on all workers.
CompletedCoversDeadline == snapshot.state = "kCompleted" => cut = {}

\* The bytes of a run never move backward, although the live snapshots take them
\* from one set of counters and the last one from another.
BytesNeverDrop ==
  [][snapshot'.run_id = snapshot.run_id => snapshot'.bytes >= snapshot.bytes]_vars

\* Every accepted run ends, through all attempts, stops and failures.
RunEnds == ~IsTerminal(snapshot.state) ~> IsTerminal(snapshot.state)

\* The promise of RunLifecycle, read off the snapshot and the stop flag.
Lifecycle == INSTANCE RunLifecycle WITH
  run <- snapshot.run_id,
  state <- CASE snapshot.state \in RunningStates -> "Running"
             [] snapshot.state = "kCompleted" -> "Completed"
             [] snapshot.state = "kCancelled" -> "Cancelled"
             [] snapshot.state = "kError" -> "Error"
             [] OTHER -> "Idle",
  stopAsked <- snapshot.state \in RunningStates /\ snapshot.run_id \in asked

\* The engine implements RunLifecycle; in particular the flag which it raises
\* itself when a thread cannot be created never shows as a cancellation.
ImplementsLifecycle == Lifecycle!Spec
=============================================================================
