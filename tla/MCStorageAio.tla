--------------------------- MODULE MCStorageAio ---------------------------
(* StorageAio with three requests in flight, the least at which a batch of *)
(* events can be both partial and out of order, and two rounds of them.    *)
EXTENDS StorageAio
=============================================================================
