----------------------------- MODULE MCGpuEngine -----------------------------
(* One FP test, with or without its second kernel variant, then the memory    *)
(* test; either may have no pipeline.                                         *)
EXTENDS GpuEngine

TestOrder == <<"kFp32", "kMemoryBandwidth">>
=============================================================================
