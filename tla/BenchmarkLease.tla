---------------------------- MODULE BenchmarkLease ----------------------------
(***************************************************************************)
(* The application side of a benchmark (packages/benchmark_native/lib/src):*)
(* BenchmarkRunCoordinator, which owns the one lease of the application,   *)
(* and the controllers that acquire it, start a run of their native        *)
(* engine, poll it and release the lease when the engine is done.          *)
(*                                                                         *)
(* Everything in Dart runs on the UI isolate, so a tap, a timer callback   *)
(* and a lifecycle event are each one step.  The engines run concurrently  *)
(* and are seen through what RunLifecycle promises: a run that was started *)
(* ends at most once, cancelled only when a stop is pending.  That it ends *)
(* at all is not promised, and not assumed.                                *)
(***************************************************************************)
EXTENDS Naturals

CONSTANTS
  Controllers,   \* one per benchmark page section, each with an engine
  Items,         \* how many runs a controller chains into one sequence
  StrictStop,    \* controllers that treat a failing requestStop as fatal
  MaxLeases      \* bound: how many leases are granted

ASSUME BenchmarkLeaseAssumption ==
  /\ Items \in [Controllers -> Nat \ {0}]
  /\ StrictStop \subseteq Controllers
  /\ MaxLeases \in Nat

VARIABLES
  foreground,   \* BenchmarkRunCoordinator._foreground
  active,       \* _active: the lease and the controller whose stop it calls
  granted,      \* history: how many leases were created; they have identity
  control,      \* each controller's own fields
  engine        \* each controller's native engine

vars == <<foreground, active, granted, control, engine>>

NoLease == [lease |-> 0]
Leases == [lease : Nat \ {0}, owner : Controllers]

Fields ==
  [lease : Nat, engineUnavailable : BOOLEAN, disposed : BOOLEAN,
   isRunning : BOOLEAN, timer : BOOLEAN, runSequence : BOOLEAN, item : Nat]
Engines ==
  [state : {"idle", "running", "completed", "cancelled", "error", "destroyed"},
   stop : BOOLEAN]

TypeOK ==
  /\ foreground \in BOOLEAN
  /\ active \in Leases \cup {NoLease}
  /\ granted \in Nat
  /\ control \in [Controllers -> Fields]
  /\ engine \in [Controllers -> Engines]

Init ==
  /\ foreground \in BOOLEAN
  /\ active = NoLease
  /\ granted = 0
  /\ control = [c \in Controllers |->
       [lease |-> 0, engineUnavailable |-> FALSE, disposed |-> FALSE,
        isRunning |-> FALSE, timer |-> FALSE, runSequence |-> FALSE, item |-> 1]]
  /\ engine = [c \in Controllers |-> [state |-> "idle", stop |-> FALSE]]

------------------------------------------------------------------------------
(* BenchmarkRunCoordinator and ExclusiveBenchmarkController *)

CanStart(c) == foreground /\ active = NoLease /\ ~control[c].engineUnavailable

\* finishBenchmark: the controller forgets its lease, and the coordinator frees
\* the application if that is still the active one.
Release(c) == active' = IF active.lease = control[c].lease THEN NoLease ELSE active

\* Faulty variant: the engine is left running.
DestroyNothing(c) == engine' = engine

\* The engine's destroy function stops what runs and joins it before it returns.
DestroyEngine(c) == engine' = [engine EXCEPT ![c] = [state |-> "destroyed", stop |-> FALSE]]

\* abortBenchmark, as every catch clause calls it: the controller is unusable
\* from now on, its engine is destroyed and joined, its lease released.
Abort(c) ==
  /\ control' = [control EXCEPT ![c] = [@ EXCEPT
       !.engineUnavailable = TRUE, !.lease = 0,
       !.timer = FALSE, !.runSequence = FALSE]]
  /\ DestroyEngine(c)

------------------------------------------------------------------------------
(* Events of the UI isolate *)

\* The controller's start: the lease is acquired, the engine started and the
\* poll timer set.  A sequence is a chain of runs under this one lease.
Start(c, sequence) ==
  /\ ~control[c].disposed
  /\ granted < MaxLeases
  /\ CanStart(c)
  /\ sequence => Items[c] > 1
  /\ granted' = granted + 1
  /\ active' = [lease |-> granted + 1, owner |-> c]
  /\ engine' = [engine EXCEPT ![c] = [state |-> "running", stop |-> FALSE]]
  /\ control' = [control EXCEPT ![c] = [@ EXCEPT
       !.lease = granted + 1, !.isRunning = TRUE,
       !.timer = TRUE, !.runSequence = sequence,
       !.item = 1]]
  /\ UNCHANGED foreground

\* The topology cannot be read, or the engine refuses or the bridge throws: the
\* new lease is gone at once.
StartFails(c) ==
  /\ ~control[c].disposed
  /\ granted < MaxLeases
  /\ CanStart(c)
  /\ granted' = granted + 1
  /\ UNCHANGED <<control, engine>> \/ Abort(c)
  /\ UNCHANGED <<active, foreground>>

\* Faulty variant: the sequence goes on after the stop.
StopItem(c) ==
  /\ control' = control
  /\ engine' = IF control[c].isRunning /\ engine[c].state = "running"
                 THEN [engine EXCEPT ![c].stop = TRUE] ELSE engine

\* The controller's stop: the sequence ends here, and the engine is asked to
\* stop if the controller still believes that it runs.
StopRun(c) ==
  /\ control' = [control EXCEPT ![c] = [@ EXCEPT !.runSequence = FALSE]]
  /\ engine' = IF control[c].isRunning /\ engine[c].state = "running"
                 THEN [engine EXCEPT ![c].stop = TRUE] ELSE engine

\* requestStop throws: most controllers keep the error and go on polling, some
\* abort.
StopThrows(c) ==
  IF c \in StrictStop
    THEN Abort(c) /\ Release(c)
    ELSE /\ control' = [control EXCEPT ![c] = [@ EXCEPT !.runSequence = FALSE]]
         /\ UNCHANGED <<engine, active>>

TapStop(c) ==
  /\ control[c].isRunning
  /\ ~control[c].engineUnavailable
  /\ ~control[c].disposed
  /\ (StopRun(c) /\ UNCHANGED active) \/ StopThrows(c)
  /\ UNCHANGED <<foreground, granted>>

\* didChangeAppLifecycleState: going to the background asks the owner of the
\* lease to stop, whatever comes of it; ownership stays.
EnterBackground ==
  /\ foreground
  /\ foreground' = FALSE
  /\ IF active = NoLease
       THEN UNCHANGED <<active, control, engine>>
       ELSE LET c == active.owner IN
            \/ StopRun(c) /\ UNCHANGED active
            \/ control[c].isRunning /\ StopThrows(c)
  /\ UNCHANGED granted

EnterForeground ==
  /\ ~foreground
  /\ foreground' = TRUE
  /\ UNCHANGED <<active, granted, control, engine>>

Polling(c) == control[c].timer /\ ~control[c].disposed

PollRunning(c) ==
  /\ Polling(c)
  /\ engine[c].state = "running"
  /\ control' = [control EXCEPT ![c] = [@ EXCEPT !.isRunning = TRUE]]
  /\ UNCHANGED <<foreground, active, granted, engine>>

\* A completed item of a sequence that is not its last one.
Continues(c) ==
  /\ engine[c].state = "completed"
  /\ control[c].runSequence
  /\ control[c].item < Items[c]

\* The next item is started under the same lease.
PollContinues(c) ==
  /\ Polling(c)
  /\ Continues(c)
  /\ engine' = [engine EXCEPT ![c] = [state |-> "running", stop |-> FALSE]]
  /\ control' = [control EXCEPT ![c] = [@ EXCEPT
       !.isRunning = TRUE, !.item = control[c].item + 1]]
  /\ UNCHANGED <<foreground, active, granted>>

\* Faulty variant: the timer is cancelled and the lease forgotten.
PollEndsHoldingLease(c) ==
  /\ Polling(c)
  /\ engine[c].state \in {"completed", "cancelled", "error"}
  /\ ~Continues(c)
  /\ control' = [control EXCEPT ![c] = [@ EXCEPT
       !.isRunning = FALSE, !.timer = FALSE,
       !.runSequence = FALSE, !.lease = 0]]
  /\ UNCHANGED <<foreground, active, granted, engine>>

\* The run, or the last item of the sequence, is over.
PollEnds(c) ==
  /\ Polling(c)
  /\ engine[c].state \in {"completed", "cancelled", "error"}
  /\ ~Continues(c)
  /\ control' = [control EXCEPT ![c] = [@ EXCEPT
       !.isRunning = FALSE, !.timer = FALSE,
       !.runSequence = FALSE, !.lease = 0]]
  /\ Release(c)
  /\ UNCHANGED <<foreground, granted, engine>>

\* Faulty variant: the timer is cancelled, nothing else is cleaned up.
PollThrowsGivingUp(c) ==
  /\ Polling(c)
  /\ control' = [control EXCEPT ![c] = [@ EXCEPT !.timer = FALSE, !.runSequence = FALSE]]
  /\ UNCHANGED <<foreground, active, granted, engine>>

\* The snapshot cannot be read, or the next item cannot be started.
PollThrows(c) ==
  /\ Polling(c)
  /\ Abort(c)
  /\ Release(c)
  /\ UNCHANGED <<foreground, granted>>

\* dispose: the engine is destroyed (and joined) before the lease is released.
Dispose(c) ==
  /\ ~control[c].disposed
  /\ control' = [control EXCEPT ![c] = [@ EXCEPT
       !.disposed = TRUE, !.timer = FALSE,
       !.runSequence = FALSE, !.lease = 0]]
  /\ DestroyEngine(c)
  /\ Release(c)
  /\ UNCHANGED <<foreground, granted>>

------------------------------------------------------------------------------
(* The engines *)

EngineEnds(c, outcome) ==
  /\ engine[c].state = "running"
  /\ outcome = "cancelled" => engine[c].stop
  /\ engine' = [engine EXCEPT ![c] = [state |-> outcome, stop |-> FALSE]]
  /\ UNCHANGED <<foreground, active, granted, control>>

------------------------------------------------------------------------------

Poll(c) == PollRunning(c) \/ PollContinues(c) \/ PollEnds(c)
EngineStep(c) ==
  \E outcome \in {"completed", "cancelled", "error"} : EngineEnds(c, outcome)

Next ==
  \/ EnterBackground
  \/ EnterForeground
  \/ \E c \in Controllers :
       \/ \E sequence \in BOOLEAN : Start(c, sequence)
       \/ StartFails(c)
       \/ TapStop(c)
       \/ Poll(c)
       \/ PollThrows(c)
       \/ Dispose(c)
       \/ EngineStep(c)

Spec == Init /\ [][Next]_vars

\* Timers fire.  A native run need not end: CpuEngine and StorageEngine have runs
\* that do not, and destroying the engine of such a run does not return.
Fairness == \A c \in Controllers : WF_vars(Poll(c))

FairSpec == Spec /\ Fairness

------------------------------------------------------------------------------
(* Properties *)

\* Only the engine of the controller that holds the lease runs, on every error,
\* dispose and background path: two benchmarks never disturb each other.
OnlyOwnerRuns ==
  \A c \in Controllers : engine[c].state = "running" =>
    active # NoLease /\ active.owner = c /\ control[c].lease = active.lease

\* An active lease has a holder that will give it back: a controller that knows
\* it, still polls and was not disposed.  Otherwise nothing could start again.
LeaseHasHolder ==
  active # NoLease =>
    LET c == active.owner IN
      /\ control[c].lease = active.lease
      /\ control[c].timer
      /\ ~control[c].disposed

\* Nothing starts in the background, the next item of a sequence included
\* (README.md: "prevents the next item in a sequence from starting").
NothingStartsInBackground ==
  [][\A c \in Controllers :
       engine[c].state # "running" /\ engine'[c].state = "running" => foreground]_vars

\* Every lease is released in the end, by completion, stop, failure or dispose, for
\* whatever part of a sequence was run; unless a native run never ends, the only way
\* for the application to stay blocked.
LeaseIsReleasedUnlessRunHangs ==
  active # NoLease ~>
    \/ active = NoLease
    \/ \E c \in Controllers : [](engine[c].state = "running")
=============================================================================
