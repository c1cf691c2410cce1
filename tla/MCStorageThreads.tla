-------------------------- MODULE MCStorageThreads --------------------------
(* StorageThreads with three threads, so that two may differ while a third   *)
(* cannot be created, and two blocks each, so that one may be ahead.         *)
EXTENDS StorageThreads
=============================================================================
