--------------------------- MODULE MCCpuApplication ---------------------------
(* Two CPUs and two runs; one measured batch per worker tells work from none. *)
EXTENDS CpuApplicationEngine
=============================================================================
