--------------------------- MODULE MCMemoryEngine ---------------------------
(* MemoryEngine with two CPUs, of which any may come and go before each of   *)
(* the three attempts, and one pass for each worker.                         *)
EXTENDS MemoryEngine
=============================================================================
