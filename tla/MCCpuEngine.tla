---------------------------- MODULE MCCpuEngine ----------------------------
(* CpuEngine with two CPUs and two runs: one run may leave a late stop or a *)
(* raised flag behind for the other to trip over.                           *)
EXTENDS CpuEngine
=============================================================================
