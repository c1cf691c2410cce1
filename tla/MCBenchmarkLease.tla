------------------------- MODULE MCBenchmarkLease -------------------------
(* BenchmarkLease with a controller that chains two runs, as CPU and memory *)
(* do, and one that runs one at a time and aborts on a failing stop.        *)
EXTENDS BenchmarkLease

CONSTANTS cpu, app

ItemsOf == [c \in Controllers |-> IF c = cpu THEN 2 ELSE 1]
=============================================================================
