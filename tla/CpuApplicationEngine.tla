------------------------- MODULE CpuApplicationEngine -------------------------
(***************************************************************************)
(* The CPU application engine (native/benchmark_core/src/                  *)
(* cpu_application_engine.cpp): callers of Start, Stop and the destructor, *)
(* the coordinator (Run) and one worker per selected CPU (RunWorker).      *)
(*                                                                         *)
(* Any step of coordinator or worker may throw, and any validation may     *)
(* fail: Fail then keeps the first error and raises the same stop flag as  *)
(* a caller's Stop.  All waiting is polling, of that flag among others.    *)
(*                                                                         *)
(* The counters of Gates are kept as the sets of workers counted, the      *)
(* error code as whether it is set.  Deadlines pass at any moment.         *)
(***************************************************************************)
EXTENDS Naturals, FiniteSetsExt

CONSTANTS
  Cpus,       \* the logical CPUs that topologies may report
  MaxRuns,    \* bound: how many runs are started
  MaxBatches  \* bound: how many batches a worker measures

ASSUME CpuApplicationAssumption ==
  /\ Cpus # {}
  /\ MaxRuns \in Nat \ {0}
  /\ MaxBatches \in Nat \ {0}

VARIABLES
  control,      \* who holds control_mutex_ across several steps, or the destructor
  stop,         \* stop_
  next_id,      \* next_id_
  snapshot,     \* snapshot_ as published
  coordinator,  \* where the coordinator is inside Run
  context,      \* Run's own snapshot
  cpus,         \* the selected CPUs
  workers,      \* the Worker objects, with their corpora
  thread,       \* where the thread of each worker is
  ready,        \* gate.ready
  warm_done,    \* gate.warm_done
  done,         \* gate.done
  phase,        \* gate.phase
  error,        \* gate.error is set
  expired,      \* gate.deadline has passed
  units,        \* worker.units, in batches
  verified,     \* workers whose final validation succeeded
  asked,        \* history: runs that a caller asked to stop
  failed,       \* history: something has failed in this run
  cut           \* history: workers that the flag kept from the deadline

callVars == <<control, next_id, asked>>
gateVars == <<ready, warm_done, done, phase, expired>>
failVars == <<stop, error, failed>>
workVars == <<units, cut>>
vars == <<callVars, failVars, snapshot, coordinator, context, cpus, workers,
          thread, gateVars, workVars, verified>>

Running == {"kPreparing", "kWarmingUp", "kMeasuring"}
Terminal == {"kIdle", "kCompleted", "kCancelled", "kError"}
Batches == [Cpus -> 0 .. MaxBatches]

\* The units of some workers together, and the values that a snapshot may show.
Total(batches, ws) == MapThenSumSet(LAMBDA w : batches[w], ws)
Totals == {0} \cup {Total(batches, ws) : batches \in Batches, ws \in SUBSET Cpus}

Snapshots == [run_id : Nat, state : Running \cup Terminal, units : Totals]

CoordinatorGone == coordinator \in {"none", "returned"}

\* The steps inside the try block of Run, and those after it.
Trying == {"select", "build", "publish", "spawn", "wait_ready", "warm_up",
           "wait_warm", "start_measure", "measure"}
Finishing == {"verify", "judge", "decide", "release", "publish_end"}

TypeOK ==
  /\ control \in {"free", "start_join", "start_launch", "destroy_join", "destroyed"}
  /\ stop \in BOOLEAN
  /\ next_id \in Nat \ {0}
  /\ snapshot \in Snapshots
  /\ coordinator \in Trying \cup Finishing \cup {"none", "join", "returned"}
  /\ context \in Snapshots
  /\ cpus \in SUBSET Cpus
  /\ workers \in SUBSET Cpus
  /\ thread \in [Cpus -> {"absent", "prepare", "gate1", "warm_up", "gate2",
                          "measure", "batch", "leave", "returned"}]
  /\ ready \in SUBSET Cpus
  /\ warm_done \in SUBSET Cpus
  /\ done \in SUBSET Cpus
  /\ phase \in 0 .. 2
  /\ error \in BOOLEAN
  /\ expired \in BOOLEAN
  /\ units \in Batches
  /\ verified \in SUBSET Cpus
  /\ asked \in SUBSET Nat
  /\ failed \in BOOLEAN
  /\ cut \in SUBSET Cpus

Blank(run_id, state) == [run_id |-> run_id, state |-> state, units |-> 0]

Init ==
  /\ control = "free"
  /\ stop = FALSE
  /\ next_id = 1
  /\ snapshot = Blank(0, "kIdle")
  /\ coordinator = "none"
  /\ context = Blank(0, "kIdle")
  /\ cpus = {}
  /\ workers = {}
  /\ thread = [w \in Cpus |-> "absent"]
  /\ ready = {}
  /\ warm_done = {}
  /\ done = {}
  /\ phase = 0
  /\ error = FALSE
  /\ expired = FALSE
  /\ units = [w \in Cpus |-> 0]
  /\ verified = {}
  /\ asked = {}
  /\ failed = FALSE
  /\ cut = {}

------------------------------------------------------------------------------
(* The callers.  Start and Stop exclude each other by control_mutex_. *)

runVars == <<context, cpus, workers, thread, gateVars, workVars, verified>>

StartAccept ==
  /\ control = "free"
  /\ next_id <= MaxRuns
  /\ snapshot.state \in Terminal
  /\ control' = "start_join"
  /\ UNCHANGED <<next_id, asked, failVars, snapshot, coordinator, runVars>>

\* The coordinator of the run before is joined, the new run published ...
StartPublish ==
  /\ control = "start_join"
  /\ CoordinatorGone
  /\ control' = "start_launch"
  /\ stop' = FALSE
  /\ failed' = FALSE
  /\ snapshot' = Blank(next_id, "kPreparing")
  /\ next_id' = next_id + 1
  /\ coordinator' = "none"
  /\ UNCHANGED <<asked, error, runVars>>

\* ... and its thread created, with the locals of Run.
StartLaunch ==
  /\ control = "start_launch"
  /\ control' = "free"
  /\ coordinator' = "select"
  /\ context' = snapshot
  /\ cpus' = {}
  /\ workers' = {}
  /\ thread' = [w \in Cpus |-> "absent"]
  /\ ready' = {}
  /\ warm_done' = {}
  /\ done' = {}
  /\ phase' = 0
  /\ error' = FALSE
  /\ expired' = FALSE
  /\ units' = [w \in Cpus |-> 0]
  /\ verified' = {}
  /\ cut' = {}
  /\ UNCHANGED <<next_id, asked, stop, failed, snapshot>>

\* The thread cannot be created: the run is published as failed.
StartFails ==
  /\ control = "start_launch"
  /\ control' = "free"
  /\ snapshot' = [snapshot EXCEPT !.state = "kError"]
  /\ failed' = TRUE
  /\ UNCHANGED <<next_id, asked, stop, error, coordinator, runVars>>

\* Stop names a run; the flag is raised only while that run is going on.
Stop(id) ==
  /\ control = "free"
  /\ id # 0
  /\ id = snapshot.run_id
  /\ snapshot.state \in Running
  /\ stop' = TRUE
  /\ asked' = asked \cup {id}
  /\ UNCHANGED <<control, next_id, error, failed, snapshot, coordinator, runVars>>

Destroy ==
  /\ control = "free"
  /\ control' = "destroy_join"
  /\ stop' = TRUE
  /\ asked' = asked \cup {snapshot.run_id}
  /\ UNCHANGED <<next_id, error, failed, snapshot, coordinator, runVars>>

DestroyJoin ==
  /\ control = "destroy_join"
  /\ CoordinatorGone
  /\ control' = "destroyed"
  /\ coordinator' = "none"
  /\ UNCHANGED <<next_id, asked, failVars, snapshot, runVars>>

------------------------------------------------------------------------------
(* The coordinator *)

\* Faulty variant: the flag is raised, the error is not kept.
FailForgetful ==
  /\ failed' = TRUE
  /\ stop' = TRUE
  /\ UNCHANGED error

\* The first error is kept and everybody told to stop.
Fail ==
  /\ failed' = TRUE
  /\ error' = TRUE
  /\ stop' = TRUE

Live == {w \in Cpus : thread[w] \notin {"absent", "returned"}}

CoordinatorGoes(place) == coordinator' = place

\* A throw anywhere in the try block ends in the join.
CoordinatorThrows ==
  /\ coordinator \in Trying
  /\ Fail
  /\ CoordinatorGoes("join")
  /\ UNCHANGED <<callVars, snapshot, runVars>>

\* DetectTopology and SelectCpuApplicationCpus; no CPU is an error.
Select(selection) ==
  /\ coordinator = "select"
  /\ selection # {}
  /\ cpus' = selection
  /\ CoordinatorGoes("build")
  /\ UNCHANGED <<callVars, failVars, snapshot, context, workers, thread, gateVars,
                 workVars, verified>>

\* Building a corpus takes time: the flag is looked at before each.
BuildWorker(w) ==
  /\ coordinator = "build"
  /\ ~stop
  /\ w \in cpus \ workers
  /\ workers' = workers \cup {w}
  /\ CoordinatorGoes(IF cpus = workers' THEN "publish" ELSE "build")
  /\ UNCHANGED <<callVars, failVars, snapshot, context, cpus, thread, gateVars,
                 workVars, verified>>

\* The flag is up where the coordinator looks at it: straight to the join.
GiveUp ==
  /\ coordinator \in {"build", "publish", "wait_ready", "wait_warm"}
  /\ stop
  /\ CoordinatorGoes("join")
  /\ UNCHANGED <<callVars, failVars, snapshot, runVars>>

PublishWorkers ==
  /\ coordinator = "publish"
  /\ ~stop
  /\ CoordinatorGoes("spawn")
  /\ UNCHANGED <<callVars, failVars, snapshot, runVars>>

SpawnWorker(w) ==
  /\ coordinator = "spawn"
  /\ thread[w] = "absent"
  /\ w \in workers
  /\ thread' = [thread EXCEPT ![w] = "prepare"]
  /\ CoordinatorGoes(IF \A v \in workers \ {w} : thread[v] # "absent"
                       THEN "wait_ready" ELSE "spawn")
  /\ UNCHANGED <<callVars, failVars, snapshot, context, cpus, workers, gateVars,
                 workVars, verified>>

AllReady ==
  /\ coordinator = "wait_ready"
  /\ ~stop
  /\ ready = workers
  /\ CoordinatorGoes("warm_up")
  /\ UNCHANGED <<callVars, failVars, snapshot, runVars>>

\* The hint session is up, the first gate opens.
BeginWarmUp ==
  /\ coordinator = "warm_up"
  /\ context' = [context EXCEPT !.state = "kWarmingUp"]
  /\ snapshot' = context'
  /\ phase' = 1
  /\ CoordinatorGoes("wait_warm")
  /\ UNCHANGED <<callVars, failVars, cpus, workers, thread, ready, warm_done, done,
                 expired, workVars, verified>>

AllWarm ==
  /\ coordinator = "wait_warm"
  /\ ~stop
  /\ warm_done = workers
  /\ CoordinatorGoes("start_measure")
  /\ UNCHANGED <<callVars, failVars, snapshot, runVars>>

BeginMeasure ==
  /\ coordinator = "start_measure"
  /\ context' = [context EXCEPT !.state = "kMeasuring"]
  /\ phase' = 2
  /\ CoordinatorGoes("measure")
  /\ UNCHANGED <<callVars, failVars, snapshot, cpus, workers, thread, ready,
                 warm_done, done, expired, workVars, verified>>

\* The units of all workers, read while they count.
Units == Total(units, workers)

MeasureProgress ==
  /\ coordinator = "measure"
  /\ done # workers
  /\ context' = [context EXCEPT !.units = Units]
  /\ snapshot' = context'
  /\ UNCHANGED <<callVars, failVars, coordinator, cpus, workers, thread, gateVars,
                 workVars, verified>>

AllDone ==
  /\ coordinator = "measure"
  /\ done = workers
  /\ CoordinatorGoes("join")
  /\ UNCHANGED <<callVars, failVars, snapshot, runVars>>

\* Faulty variant: only the workers that were counted as done are waited for.
JoinIfMeasured ==
  /\ coordinator = "join"
  /\ phase = 2 => Live = {}
  /\ CoordinatorGoes("verify")
  /\ UNCHANGED <<callVars, failVars, snapshot, runVars>>

Join ==
  /\ coordinator = "join"
  /\ Live = {}
  /\ CoordinatorGoes("verify")
  /\ UNCHANGED <<callVars, failVars, snapshot, runVars>>

Worked == {w \in workers : units[w] # 0}

\* Every worker that did something is validated; the totals are taken.
Verify(good) ==
  /\ coordinator = "verify"
  /\ good \subseteq Worked
  /\ verified' = good
  /\ IF good = Worked THEN UNCHANGED failVars ELSE Fail
  /\ context' = [context EXCEPT !.units = Units]
  /\ CoordinatorGoes("judge")
  /\ UNCHANGED <<callVars, snapshot, cpus, workers, thread, gateVars, workVars>>

\* Nothing measured is an error, unless the flag explains it.
Judge ==
  /\ coordinator = "judge"
  /\ error' = (error \/ (~stop /\ context.units = 0))
  /\ failed' = (failed \/ error')
  /\ CoordinatorGoes("decide")
  /\ UNCHANGED <<callVars, stop, snapshot, runVars>>

\* Faulty variant: a raised flag means that the caller asked.
OutcomeStopFirst ==
  IF stop THEN "kCancelled" ELSE IF error THEN "kError" ELSE "kCompleted"

Outcome == IF error THEN "kError" ELSE IF stop THEN "kCancelled" ELSE "kCompleted"

Decide ==
  /\ coordinator = "decide"
  /\ context' = [context EXCEPT !.state = Outcome]
  /\ CoordinatorGoes("release")
  /\ UNCHANGED <<callVars, failVars, snapshot, cpus, workers, thread, gateVars,
                 workVars, verified>>

\* The hint session and the corpora go before the snapshot tells of the end.
Release ==
  /\ coordinator = "release"
  /\ workers' = {}
  /\ CoordinatorGoes("publish_end")
  /\ UNCHANGED <<callVars, failVars, snapshot, context, cpus, thread, gateVars,
                 workVars, verified>>

PublishEnd ==
  /\ coordinator = "publish_end"
  /\ snapshot' = context
  /\ CoordinatorGoes("returned")
  /\ UNCHANGED <<callVars, failVars, runVars>>

------------------------------------------------------------------------------
(* A worker *)

\* What no step of a worker changes.
Rest == <<callVars, snapshot, coordinator, context, cpus, workers, phase, expired,
          verified>>

Goes(w, place) == thread' = [thread EXCEPT ![w] = place]

\* A first batch is run and validated; also a worker that failed counts as ready.
Prepare(w, valid) ==
  /\ thread[w] = "prepare"
  /\ IF valid THEN UNCHANGED failVars ELSE Fail
  /\ ready' = ready \cup {w}
  /\ Goes(w, "gate1")
  /\ UNCHANGED <<Rest, warm_done, done, workVars>>

\* Faulty variant: a worker at a gate does not look at the flag.
PassGateDeaf(w, gate, number, next) ==
  /\ thread[w] = gate
  /\ phase >= number
  /\ Goes(w, IF stop THEN "leave" ELSE next)
  /\ UNCHANGED <<Rest, failVars, ready, warm_done, done, workVars>>

\* WaitPhase: the gate opens or the flag goes up, which has the last word.
PassGate(w, gate, number, next) ==
  /\ thread[w] = gate
  /\ phase >= number \/ stop
  /\ Goes(w, IF stop THEN "leave" ELSE next)
  /\ UNCHANGED <<Rest, failVars, ready, warm_done, done, workVars>>

WarmUp(w) ==
  /\ thread[w] = "warm_up"
  /\ warm_done' = warm_done \cup {w}
  /\ Goes(w, "gate2")
  /\ UNCHANGED <<Rest, failVars, ready, done, workVars>>

BeginBatch(w) ==
  /\ thread[w] = "measure"
  /\ ~stop
  /\ ~expired
  /\ units[w] < MaxBatches
  /\ Goes(w, "batch")
  /\ UNCHANGED <<Rest, failVars, ready, warm_done, done, workVars>>

\* A batch begun is finished and counted, whatever happens meanwhile.
EndBatch(w) ==
  /\ thread[w] = "batch"
  /\ units' = [units EXCEPT ![w] = @ + 1]
  /\ Goes(w, "measure")
  /\ UNCHANGED <<Rest, failVars, ready, warm_done, done, cut>>

EndMeasure(w) ==
  /\ thread[w] = "measure"
  /\ stop \/ expired
  /\ cut' = IF expired THEN cut ELSE cut \cup {w}
  /\ Goes(w, "leave")
  /\ UNCHANGED <<Rest, failVars, ready, warm_done, done, units>>

\* Preparing, warming up or a batch throws.
WorkerThrows(w) ==
  /\ thread[w] \in {"prepare", "warm_up", "batch"}
  /\ Fail
  /\ Goes(w, "leave")
  /\ UNCHANGED <<Rest, ready, warm_done, done, workVars>>

\* However it ends, a worker counts itself as done.
Leave(w) ==
  /\ thread[w] = "leave"
  /\ done' = done \cup {w}
  /\ Goes(w, "returned")
  /\ UNCHANGED <<Rest, failVars, ready, warm_done, workVars>>

\* gate.deadline passes.
Expire ==
  /\ phase = 2
  /\ ~expired
  /\ expired' = TRUE
  /\ UNCHANGED <<callVars, failVars, snapshot, coordinator, context, cpus, workers,
                 thread, ready, warm_done, done, phase, workVars, verified>>

------------------------------------------------------------------------------

CallReturns ==
  \/ StartPublish
  \/ StartLaunch
  \/ DestroyJoin

CoordinatorStep ==
  \/ \E selection \in SUBSET Cpus : Select(selection)
  \/ \E w \in Cpus : BuildWorker(w)
  \/ GiveUp
  \/ PublishWorkers
  \/ \E w \in Cpus : SpawnWorker(w)
  \/ AllReady
  \/ BeginWarmUp
  \/ AllWarm
  \/ BeginMeasure
  \/ MeasureProgress
  \/ AllDone
  \/ Join
  \/ \E good \in SUBSET Cpus : Verify(good)
  \/ Judge
  \/ Decide
  \/ Release
  \/ PublishEnd

WorkerStep(w) ==
  \/ \E valid \in BOOLEAN : Prepare(w, valid)
  \/ PassGate(w, "gate1", 1, "warm_up")
  \/ WarmUp(w)
  \/ PassGate(w, "gate2", 2, "measure")
  \/ BeginBatch(w)
  \/ EndBatch(w)
  \/ EndMeasure(w)
  \/ Leave(w)

Next ==
  \/ StartAccept
  \/ \E id \in 1 .. MaxRuns : Stop(id)
  \/ Destroy
  \/ CallReturns
  \/ StartFails
  \/ CoordinatorStep
  \/ CoordinatorThrows
  \/ \E w \in Cpus : WorkerStep(w) \/ WorkerThrows(w)
  \/ Expire

Spec == Init /\ [][Next]_vars

\* Threads are scheduled and the deadline passes; nothing makes a caller call or
\* a step throw.
Fairness ==
  /\ WF_vars(CallReturns)
  /\ WF_vars(CoordinatorStep)
  /\ \A w \in Cpus : WF_vars(WorkerStep(w))
  /\ WF_vars(Expire)

FairSpec == Spec /\ Fairness

------------------------------------------------------------------------------
(* Properties *)

\* A thread uses its Worker object for as long as it lives, whatever has thrown
\* meanwhile; validation runs when nobody measures any more ("No worker may still
\* be measuring while verification consumes CPU/cache", line 288); and the corpora
\* are gone before a terminal snapshot unlocks the next module (line 325).
WorkersLeaveInOrder ==
  /\ Live \subseteq workers
  /\ coordinator \in Finishing => Live = {}
  /\ snapshot.state \in Terminal => workers = {} /\ Live = {}

\* Nobody measures unless every selected CPU has a worker that has warmed up,
\* although building, preparing and warming up may each end half-way.
MeasureOnlyWhenAllWarm ==
  (\E w \in Cpus : thread[w] \in {"measure", "batch"}) => warm_done = cpus

\* A failure of coordinator or worker is never reported as a cancellation or a
\* success, whichever of failure and stop raised the flag first; a completed run
\* was kept from its deadline on no worker, and all its work is verified.
OutcomeIsHonest ==
  snapshot.run_id # 0 =>
    /\ snapshot.state \in {"kCancelled", "kCompleted"} => ~failed
    /\ snapshot.state = "kCompleted" =>
         /\ cut = {}
         /\ snapshot.units # 0
         /\ \A w \in Cpus : units[w] # 0 => w \in verified

\* Every accepted run ends: no throw, failed validation or stop leaves the
\* coordinator or a worker waiting ("On any preparation/creation failure, all
\* waiters observe stop_ and exit", line 281).
RunEnds == snapshot.state \in Running ~> snapshot.state \in Terminal

\* The promise of RunLifecycle, read off the snapshot and the stops asked for.
Lifecycle == INSTANCE RunLifecycle WITH
  run <- snapshot.run_id,
  state <- CASE snapshot.state \in Running -> "Running"
             [] snapshot.state = "kCompleted" -> "Completed"
             [] snapshot.state = "kCancelled" -> "Cancelled"
             [] snapshot.state = "kError" -> "Error"
             [] OTHER -> "Idle",
  stopAsked <- snapshot.state \in Running /\ snapshot.run_id \in asked

\* The engine implements RunLifecycle; a flag raised by Fail is never taken for
\* a stop that somebody asked for.
ImplementsLifecycle == Lifecycle!Spec
=============================================================================
