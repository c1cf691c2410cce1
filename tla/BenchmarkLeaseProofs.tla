------------------------ MODULE BenchmarkLeaseProofs ------------------------
(***************************************************************************)
(* BenchmarkLease for any number of controllers, sequence lengths and      *)
(* leases.  The inductive invariant adds to the properties that a          *)
(* controller which holds a lease, and every controller that polls, is the *)
(* owner of the active one.                                                *)
(***************************************************************************)
EXTENDS BenchmarkLease, TLAPS

\* A controller that holds a lease is the owner of the active one.
HolderIsOwner ==
  \A c \in Controllers : control[c].lease # 0 =>
    active # NoLease /\ active.owner = c /\ active.lease = control[c].lease

\* A controller polls only for a run under its lease.
PollerHolds == \A c \in Controllers : control[c].timer => control[c].lease # 0

IInv == TypeOK /\ OnlyOwnerRuns /\ LeaseHasHolder /\ HolderIsOwner /\ PollerHolds

------------------------------------------------------------------------------

\* A free application is told apart from every lease.
LEMMA NoLeaseIsNone == \A l \in Leases : l # NoLease /\ l.lease # 0
  BY DEF Leases, NoLease

\* Releasing frees the application exactly when the controller owns the active
\* lease: a controller without one leaves the owner alone.
LEMMA ReleaseFreesOwner ==
  ASSUME TypeOK, LeaseHasHolder, HolderIsOwner, NEW c \in Controllers, Release(c)
  PROVE  active' = IF active # NoLease /\ active.owner = c THEN NoLease ELSE active
<1>1. CASE active = NoLease
  BY <1>1 DEF Release, NoLease
<1>2. CASE active # NoLease
  <2>1. active \in Leases /\ active.lease # 0 /\ active.owner \in Controllers
    BY <1>2, NoLeaseIsNone DEF TypeOK, Leases
  <2>2. control[active.owner].lease = active.lease
    BY <1>2 DEF LeaseHasHolder
  <2>3. control[c].lease = active.lease => active.owner = c
    BY <2>1 DEF HolderIsOwner
  <2> QED BY <1>2, <2>2, <2>3 DEF Release
<1> QED BY <1>1, <1>2

\* A controller's fields are replaced by others of the right type.
LEMMA FieldsReplaced ==
  ASSUME TypeOK, NEW c \in Controllers, NEW r \in Fields
  PROVE  [control EXCEPT ![c] = r] \in [Controllers -> Fields]
  BY DEF TypeOK

LEMMA InitEstablishes == Init => IInv
<1> SUFFICES ASSUME Init PROVE IInv
  OBVIOUS
<1>1. TypeOK
  BY DEF Init, TypeOK, Fields, Engines
<1>2. OnlyOwnerRuns /\ LeaseHasHolder /\ HolderIsOwner /\ PollerHolds
  BY DEF Init, OnlyOwnerRuns, LeaseHasHolder, HolderIsOwner, PollerHolds
<1> QED BY <1>1, <1>2 DEF IInv

\* An abort or the end of a run, together with the release of the lease.
LEMMA LeavingPreserves ==
  ASSUME IInv, NEW c \in Controllers, Release(c),
         foreground' \in BOOLEAN, granted' \in Nat,
         control' \in [Controllers -> Fields],
         engine' \in [Controllers -> Engines],
         \A d \in Controllers \ {c} : control'[d] = control[d] /\ engine'[d] = engine[d],
         control'[c].lease = 0, ~control'[c].timer, engine'[c].state # "running"
  PROVE  IInv'
<1>1. active' = IF active # NoLease /\ active.owner = c THEN NoLease ELSE active
  BY ReleaseFreesOwner DEF IInv
<1>2. TypeOK'
  BY <1>1 DEF IInv, TypeOK, Fields, Engines
<1>3. OnlyOwnerRuns'
  BY <1>1 DEF IInv, OnlyOwnerRuns
<1>4. LeaseHasHolder'
  <2>1. active' # NoLease => active' = active /\ active.owner \in Controllers \ {c}
    BY <1>1 DEF IInv, TypeOK, Fields, Engines, Leases
  <2> QED BY <2>1 DEF IInv, LeaseHasHolder
<1>5. HolderIsOwner'
  BY <1>1 DEF IInv, HolderIsOwner
<1>6. PollerHolds'
  BY DEF IInv, PollerHolds
<1> QED BY <1>2, <1>3, <1>4, <1>5, <1>6 DEF IInv

\* The abort of a controller, with the release of what it holds.
LEMMA AbortPreserves ==
  ASSUME IInv, NEW c \in Controllers, Abort(c), Release(c),
         foreground' \in BOOLEAN, granted' \in Nat
  PROVE  IInv'
<1>1. control'[c] = [control[c] EXCEPT !.engineUnavailable = TRUE, !.lease = 0,
                                       !.timer = FALSE, !.runSequence = FALSE]
  BY DEF Abort, IInv, TypeOK
<1>2. control[c] \in Fields /\ control'[c] \in Fields
  <2>1. control[c] \in Fields
    BY DEF IInv, TypeOK
  <2>2. [control[c] EXCEPT !.engineUnavailable = TRUE, !.lease = 0,
                           !.timer = FALSE, !.runSequence = FALSE] \in Fields
    BY <2>1 DEF Fields
  <2> QED BY <1>1, <2>1, <2>2
<1>3. control' \in [Controllers -> Fields]
  BY <1>1, <1>2 DEF Abort, IInv, TypeOK
<1>4. engine' \in [Controllers -> Engines] /\ engine'[c].state # "running"
  BY DEF Abort, DestroyEngine, IInv, TypeOK, Engines
<1>5. \A d \in Controllers \ {c} : control'[d] = control[d] /\ engine'[d] = engine[d]
  BY DEF Abort, DestroyEngine, IInv, TypeOK
<1>6. control'[c].lease = 0 /\ ~control'[c].timer
  BY <1>1, <1>2 DEF Fields
<1> QED BY <1>3, <1>4, <1>5, <1>6, LeavingPreserves

\* A step that starts no engine and moves no lease or timer.
LEMMA KeepingPreserves ==
  ASSUME IInv, active' = active, foreground' \in BOOLEAN, granted' \in Nat,
         control' \in [Controllers -> Fields],
         engine' \in [Controllers -> Engines],
         \A d \in Controllers :
            /\ control'[d].lease = control[d].lease
            /\ control'[d].timer = control[d].timer
            /\ control'[d].disposed = control[d].disposed
            /\ engine'[d].state = "running" => control[d].timer \/ engine[d].state = "running"
  PROVE  IInv'
<1>1. TypeOK'
  BY DEF IInv, TypeOK, Fields, Engines
<1>2. OnlyOwnerRuns'
  BY DEF IInv, OnlyOwnerRuns, PollerHolds, HolderIsOwner
<1>3. LeaseHasHolder'
  <2>1. active # NoLease => active.owner \in Controllers
    BY DEF IInv, TypeOK, Fields, Engines, Leases
  <2> QED BY <2>1 DEF IInv, LeaseHasHolder
<1>4. HolderIsOwner' /\ PollerHolds'
  BY DEF IInv, HolderIsOwner, PollerHolds
<1> QED BY <1>1, <1>2, <1>3, <1>4 DEF IInv

\* What stop does to the controller that owns the run, in two events.
LEMMA StopPreserves ==
  ASSUME IInv, NEW c \in Controllers, foreground' \in BOOLEAN, granted' = granted,
         (StopRun(c) /\ active' = active) \/ StopThrows(c)
  PROVE  IInv'
<1>1. CASE StopRun(c) /\ active' = active
  BY <1>1, KeepingPreserves DEF IInv, TypeOK, Fields, Engines, StopRun
<1>2. CASE StopThrows(c) /\ c \in StrictStop
  BY <1>2, AbortPreserves DEF IInv, TypeOK, StopThrows
<1>3. CASE StopThrows(c) /\ c \notin StrictStop
  <2>1. /\ control' = [control EXCEPT ![c] = [@ EXCEPT !.runSequence = FALSE]]
        /\ UNCHANGED <<engine, active>>
    BY <1>3 DEF StopThrows
  <2> QED BY <2>1, KeepingPreserves DEF IInv, TypeOK, Fields
<1> QED BY <1>1, <1>2, <1>3

\* A new run: the application was free, so no other engine runs.
LEMMA StartPreserves ==
  ASSUME IInv, NEW c \in Controllers, NEW sequence \in BOOLEAN, Start(c, sequence)
  PROVE  IInv'
<1> USE BenchmarkLeaseAssumption
<1>1. /\ active = NoLease /\ active' = [lease |-> granted + 1, owner |-> c]
      /\ granted + 1 \in Nat \ {0} /\ active' \in Leases /\ active' # NoLease
  <2>1. granted + 1 \in Nat \ {0}
    BY DEF IInv, TypeOK, Fields, Engines
  <2>2. active' \in Leases
    BY <2>1 DEF Start, Leases
  <2> QED BY <2>1, <2>2, NoLeaseIsNone DEF Start, CanStart
<1>2. \A d \in Controllers : control[d].lease = 0 /\ engine[d].state # "running"
  BY <1>1 DEF IInv, HolderIsOwner, OnlyOwnerRuns
<1>3. /\ control'[c].lease = granted + 1 /\ control'[c].timer
      /\ control'[c].disposed = control[c].disposed
      /\ \A d \in Controllers \ {c} : control'[d] = control[d] /\ engine'[d] = engine[d]
  BY DEF IInv, TypeOK, Fields, Engines, Start
<1>4. TypeOK'
  <2>1. foreground' \in BOOLEAN /\ granted' \in Nat
    BY <1>1 DEF IInv, TypeOK, Fields, Engines, Start
  <2>2. control' \in [Controllers -> Fields]
    BY <1>1 DEF IInv, TypeOK, Fields, Engines, Start
  <2>3. engine' \in [Controllers -> Engines]
    BY DEF IInv, TypeOK, Fields, Engines, Start
  <2> QED BY <1>1, <2>1, <2>2, <2>3 DEF TypeOK
<1>5. OnlyOwnerRuns' /\ HolderIsOwner'
  BY <1>1, <1>2, <1>3 DEF OnlyOwnerRuns, HolderIsOwner
<1>6. LeaseHasHolder'
  BY <1>1, <1>3 DEF LeaseHasHolder, Start
<1>7. PollerHolds'
  BY <1>1, <1>3 DEF IInv, PollerHolds
<1> QED BY <1>4, <1>5, <1>6, <1>7 DEF IInv

\* One step per action.
LEMMA NextPreserves == IInv /\ [Next]_vars => IInv'
<1> SUFFICES ASSUME IInv, [Next]_vars PROVE IInv'
  OBVIOUS
<1>1. CASE EnterBackground
  <2>1. CASE active = NoLease
    BY <1>1, <2>1, KeepingPreserves DEF EnterBackground, IInv, TypeOK, Fields, Engines
  <2>2. CASE active # NoLease
    BY <1>1, <2>2, StopPreserves DEF EnterBackground, IInv, TypeOK, Leases
  <2> QED BY <2>1, <2>2
<1>2. CASE EnterForeground
  BY <1>2, KeepingPreserves DEF EnterForeground, IInv, TypeOK, Fields, Engines
<1>3. ASSUME NEW c \in Controllers, NEW sequence \in BOOLEAN, Start(c, sequence)
      PROVE IInv'
  BY <1>3, StartPreserves
<1>4. ASSUME NEW c \in Controllers, StartFails(c) PROVE IInv'
  <2>1. CASE UNCHANGED <<control, engine>>
    BY <1>4, <2>1, KeepingPreserves DEF StartFails, IInv, TypeOK, Fields, Engines
  <2>2. CASE Abort(c)
    <3>1. Release(c)
      BY <1>4 DEF StartFails, CanStart, Release
    <3> QED BY <1>4, <2>2, <3>1, AbortPreserves DEF StartFails, IInv, TypeOK
  <2> QED BY <1>4, <2>1, <2>2 DEF StartFails
<1>5. ASSUME NEW c \in Controllers, TapStop(c) PROVE IInv'
  BY <1>5, StopPreserves DEF TapStop, IInv, TypeOK, Fields, Engines
<1>6. ASSUME NEW c \in Controllers, PollRunning(c) PROVE IInv'
  BY <1>6, KeepingPreserves DEF PollRunning, IInv, TypeOK, Fields, Engines
<1>7. ASSUME NEW c \in Controllers, PollContinues(c) PROVE IInv'
  <2>1. control[c] \in Fields /\ control[c].item + 1 \in Nat
    BY DEF IInv, TypeOK, Fields
  <2>2. [control[c] EXCEPT !.isRunning = TRUE, !.item = control[c].item + 1] \in Fields
    BY <2>1 DEF Fields
  <2>3. control' = [control EXCEPT ![c] =
                      [control[c] EXCEPT !.isRunning = TRUE, !.item = control[c].item + 1]]
    BY <1>7 DEF PollContinues, IInv, TypeOK
  <2>4. control' \in [Controllers -> Fields]
    BY <2>2, <2>3, FieldsReplaced DEF IInv
  <2>5. \A d \in Controllers : /\ control'[d].lease = control[d].lease
                              /\ control'[d].timer = control[d].timer
                              /\ control'[d].disposed = control[d].disposed
    BY <2>1, <2>3 DEF IInv, TypeOK, Fields
  <2>6. /\ engine' \in [Controllers -> Engines]
        /\ \A d \in Controllers :
             engine'[d].state = "running" => control[d].timer \/ engine[d].state = "running"
    BY <1>7 DEF PollContinues, Polling, IInv, TypeOK, Engines
  <2> QED BY <1>7, <2>4, <2>5, <2>6, KeepingPreserves DEF PollContinues, IInv, TypeOK
<1>8. ASSUME NEW c \in Controllers, PollEnds(c) PROVE IInv'
  <2>1. control[c] \in Fields
    BY DEF IInv, TypeOK
  <2>2. control'[c] = [control[c] EXCEPT !.isRunning = FALSE, !.timer = FALSE,
                                         !.runSequence = FALSE, !.lease = 0]
    BY <1>8 DEF PollEnds, IInv, TypeOK
  <2>3. [control[c] EXCEPT !.isRunning = FALSE, !.timer = FALSE,
                           !.runSequence = FALSE, !.lease = 0] \in Fields
    BY <2>1 DEF Fields
  <2>4. control'[c].lease = 0 /\ ~control'[c].timer
    BY <2>1, <2>2 DEF Fields
  <2>5. control' \in [Controllers -> Fields]
    BY <1>8, <2>3 DEF PollEnds, IInv, TypeOK
  <2>6. \A d \in Controllers \ {c} : control'[d] = control[d] /\ engine'[d] = engine[d]
    BY <1>8 DEF PollEnds, IInv, TypeOK
  <2>7. engine' \in [Controllers -> Engines] /\ engine'[c].state # "running"
    BY <1>8 DEF PollEnds, IInv, TypeOK
  <2> QED BY <1>8, <2>4, <2>5, <2>6, <2>7, LeavingPreserves DEF PollEnds, IInv, TypeOK
<1>9. ASSUME NEW c \in Controllers, PollThrows(c) PROVE IInv'
  BY <1>9, AbortPreserves DEF PollThrows, IInv, TypeOK
<1>10. ASSUME NEW c \in Controllers, Dispose(c) PROVE IInv'
  <2>1. control[c] \in Fields
    BY DEF IInv, TypeOK
  <2>2. control'[c] = [control[c] EXCEPT !.disposed = TRUE, !.timer = FALSE,
                                         !.runSequence = FALSE, !.lease = 0]
    BY <1>10 DEF Dispose, IInv, TypeOK
  <2>3. [control[c] EXCEPT !.disposed = TRUE, !.timer = FALSE,
                           !.runSequence = FALSE, !.lease = 0] \in Fields
    BY <2>1 DEF Fields
  <2>7. control'[c].lease = 0 /\ ~control'[c].timer
    BY <2>1, <2>2 DEF Fields
  <2>4. control' \in [Controllers -> Fields]
    BY <1>10, <2>3 DEF Dispose, IInv, TypeOK
  <2>5. engine' \in [Controllers -> Engines] /\ engine'[c].state # "running"
    BY <1>10 DEF Dispose, DestroyEngine, IInv, TypeOK, Engines
  <2>6. \A d \in Controllers \ {c} : control'[d] = control[d] /\ engine'[d] = engine[d]
    BY <1>10 DEF Dispose, DestroyEngine, IInv, TypeOK
  <2> QED BY <1>10, <2>4, <2>5, <2>6, <2>7, LeavingPreserves DEF Dispose, IInv, TypeOK
<1>11. ASSUME NEW c \in Controllers, EngineStep(c) PROVE IInv'
  BY <1>11, KeepingPreserves DEF EngineStep, EngineEnds, IInv, TypeOK, Fields, Engines
<1>12. CASE UNCHANGED vars
  BY <1>12, KeepingPreserves DEF vars, IInv, TypeOK, Fields, Engines
<1> QED
  BY <1>1, <1>2, <1>3, <1>4, <1>5, <1>6, <1>7, <1>8, <1>9, <1>10, <1>11, <1>12
  DEF Next, Poll

------------------------------------------------------------------------------

\* The inductive invariant holds in every reachable state.
THEOREM Invariance == Spec => []IInv
  BY InitEstablishes, NextPreserves, PTL DEF Spec

\* The variables keep their types.
THEOREM TypeCorrect == Spec => []TypeOK
<1>1. IInv => TypeOK
  BY DEF IInv
<1> QED BY <1>1, Invariance, PTL

\* However many modules there are, only the engine of the controller that owns
\* the lease ever runs.
THEOREM Exclusive == Spec => []OnlyOwnerRuns
<1>1. IInv => OnlyOwnerRuns
  BY DEF IInv
<1> QED BY <1>1, Invariance, PTL

\* The active lease always has a polling controller that will give it back.
THEOREM NeverLeaked == Spec => []LeaseHasHolder
<1>1. IInv => LeaseHasHolder
  BY DEF IInv
<1> QED BY <1>1, Invariance, PTL

------------------------------------------------------------------------------
(* Sequences: a controller that would go on with the next item holds the      *)
(* lease and is in the foreground, so that going to the background stops it.  *)

SequenceInv == \A c \in Controllers :
  control[c].runSequence => foreground /\ control[c].lease # 0

\* Every step keeps it: whoever loses the lease loses the sequence with it.
LEMMA SequenceStep == IInv /\ SequenceInv /\ [Next]_vars => SequenceInv'
<1> SUFFICES ASSUME IInv, SequenceInv, [Next]_vars PROVE SequenceInv'
  OBVIOUS
<1> USE DEF IInv, TypeOK, Fields
<1>1. CASE EnterBackground
  <2>1. CASE active = NoLease
    BY <1>1, <2>1 DEF EnterBackground, SequenceInv, HolderIsOwner
  <2>2. CASE active # NoLease
    <3>1. active.owner \in Controllers
      BY <2>2 DEF Leases
    <3>2. ~control'[active.owner].runSequence
      BY <1>1, <2>2, <3>1 DEF EnterBackground, StopRun, StopThrows, Abort
    <3>3. \A d \in Controllers \ {active.owner} :
            control'[d] = control[d] /\ ~control[d].runSequence
      BY <1>1, <2>2, <3>1
      DEF EnterBackground, StopRun, StopThrows, Abort, SequenceInv, HolderIsOwner
    <3> QED BY <3>1, <3>2, <3>3 DEF SequenceInv
  <2> QED BY <2>1, <2>2
<1>2. CASE EnterForeground
  BY <1>2 DEF EnterForeground, SequenceInv
<1>3. ASSUME NEW c \in Controllers, NEW sequence \in BOOLEAN, Start(c, sequence)
      PROVE SequenceInv'
  BY <1>3 DEF Start, CanStart, SequenceInv
<1>4. ASSUME NEW c \in Controllers, StartFails(c) PROVE SequenceInv'
  BY <1>4 DEF StartFails, Abort, SequenceInv
<1>5. ASSUME NEW c \in Controllers, TapStop(c) PROVE SequenceInv'
  BY <1>5 DEF TapStop, StopRun, StopThrows, Abort, SequenceInv
<1>6. ASSUME NEW c \in Controllers, PollRunning(c) PROVE SequenceInv'
  BY <1>6 DEF PollRunning, SequenceInv
<1>7. ASSUME NEW c \in Controllers, PollContinues(c) PROVE SequenceInv'
  BY <1>7 DEF PollContinues, SequenceInv
<1>8. ASSUME NEW c \in Controllers, PollEnds(c) PROVE SequenceInv'
  BY <1>8 DEF PollEnds, SequenceInv
<1>9. ASSUME NEW c \in Controllers, PollThrows(c) PROVE SequenceInv'
  BY <1>9 DEF PollThrows, Abort, SequenceInv
<1>10. ASSUME NEW c \in Controllers, Dispose(c) PROVE SequenceInv'
  BY <1>10 DEF Dispose, SequenceInv
<1>11. ASSUME NEW c \in Controllers, EngineStep(c) PROVE SequenceInv'
  BY <1>11 DEF EngineStep, EngineEnds, SequenceInv
<1>12. CASE UNCHANGED vars
  BY <1>12 DEF vars, SequenceInv
<1> QED
  BY <1>1, <1>2, <1>3, <1>4, <1>5, <1>6, <1>7, <1>8, <1>9, <1>10, <1>11, <1>12
  DEF Next, Poll

\* Only a start and the next item of a sequence make an engine run, and both find
\* the application in the foreground.
LEMMA StartsInForeground ==
  IInv /\ SequenceInv /\ [Next]_vars =>
    \A c \in Controllers :
      engine[c].state # "running" /\ engine'[c].state = "running" => foreground
<1> SUFFICES ASSUME IInv, SequenceInv, [Next]_vars, NEW c \in Controllers,
                    engine[c].state # "running", engine'[c].state = "running"
             PROVE  foreground
  OBVIOUS
<1> USE DEF IInv, TypeOK, Engines
<1>1. CASE EnterBackground
  BY <1>1 DEF EnterBackground
<1>2. CASE EnterForeground
  BY <1>2 DEF EnterForeground
<1>3. ASSUME NEW d \in Controllers, NEW sequence \in BOOLEAN, Start(d, sequence)
      PROVE foreground
  BY <1>3 DEF Start, CanStart
<1>4. ASSUME NEW d \in Controllers, StartFails(d) PROVE foreground
  BY <1>4 DEF StartFails, CanStart
<1>5. ASSUME NEW d \in Controllers, TapStop(d) PROVE foreground
  BY <1>5 DEF TapStop, StopRun, StopThrows, Abort, DestroyEngine
<1>6. ASSUME NEW d \in Controllers, PollRunning(d) PROVE foreground
  BY <1>6 DEF PollRunning
<1>7. ASSUME NEW d \in Controllers, PollContinues(d) PROVE foreground
  BY <1>7 DEF PollContinues, Continues, SequenceInv
<1>8. ASSUME NEW d \in Controllers, PollEnds(d) PROVE foreground
  BY <1>8 DEF PollEnds
<1>9. ASSUME NEW d \in Controllers, PollThrows(d) PROVE foreground
  BY <1>9 DEF PollThrows, Abort, DestroyEngine
<1>10. ASSUME NEW d \in Controllers, Dispose(d) PROVE foreground
  BY <1>10 DEF Dispose, DestroyEngine
<1>11. ASSUME NEW d \in Controllers, EngineStep(d) PROVE foreground
  BY <1>11 DEF EngineStep, EngineEnds
<1>12. CASE UNCHANGED vars
  BY <1>12 DEF vars
<1> QED
  BY <1>1, <1>2, <1>3, <1>4, <1>5, <1>6, <1>7, <1>8, <1>9, <1>10, <1>11, <1>12
  DEF Next, Poll

\* No engine begins to run while the application is in the background, the next
\* item of a sequence included.
THEOREM ForegroundOnly == Spec => NothingStartsInBackground
<1>1. Init => SequenceInv
  BY DEF Init, SequenceInv
<1>2. IInv /\ SequenceInv /\ [Next]_vars =>
        [\A c \in Controllers :
           engine[c].state # "running" /\ engine'[c].state = "running" => foreground]_vars
  BY StartsInForeground
<1> QED
  BY <1>1, <1>2, Invariance, SequenceStep, PTL DEF Spec, NothingStartsInBackground
=============================================================================
