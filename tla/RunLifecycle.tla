---------------------------- MODULE RunLifecycle ----------------------------
(***************************************************************************)
(* What every benchmark engine of the application promises the caller of   *)
(* its Start / RequestStop / GetSnapshot interface.                        *)
(*                                                                         *)
(* Runs are numbered and come one at a time.  A run is accepted only when  *)
(* no other run is active, and then ends at most once: completed, failed,  *)
(* or cancelled, and cancelled only if somebody asked for this very run to *)
(* be stopped.  What the caller reads after the end does not change until  *)
(* the next run is accepted.  The engine modules implement this            *)
(* specification under the refinement mappings they define.                *)
(***************************************************************************)
EXTENDS Naturals

VARIABLES
  run,        \* number of the latest accepted run, 0 before the first
  state,      \* what the caller sees of that run
  stopAsked   \* a stop is pending for the active run

vars == <<run, state, stopAsked>>

Outcomes == {"Completed", "Cancelled", "Error"}

TypeOK ==
  /\ run \in Nat
  /\ state \in Outcomes \cup {"Idle", "Running"}
  /\ stopAsked \in BOOLEAN

Init ==
  /\ run = 0
  /\ state = "Idle"
  /\ stopAsked = FALSE

\* A new run is accepted; a stop meant for an earlier run does not reach it.
Begin ==
  /\ state # "Running"
  /\ run' = run + 1
  /\ state' = "Running"
  /\ stopAsked' = FALSE

\* A stop is posted against the active run.
AskStop ==
  /\ state = "Running"
  /\ stopAsked' = TRUE
  /\ UNCHANGED <<run, state>>

\* The active run ends.  A stop may come too late to change the outcome.
End(outcome) ==
  /\ state = "Running"
  /\ outcome = "Cancelled" => stopAsked
  /\ state' = outcome
  /\ stopAsked' = FALSE
  /\ UNCHANGED run

Next ==
  \/ Begin
  \/ AskStop
  \/ \E outcome \in Outcomes : End(outcome)

Spec == Init /\ [][Next]_vars
=============================================================================
