-------------------------- MODULE MCStorageEngine --------------------------
(* StorageEngine with one test of each kind, written before it is read as in *)
(* a real run of all tests, and two runs.                                    *)
EXTENDS StorageEngine

CONSTANTS write, queued, sqlite

WriteThenRead == <<write, queued, sqlite>>
=============================================================================
