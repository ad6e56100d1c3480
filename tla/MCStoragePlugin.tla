-------------------------- MODULE MCStoragePlugin --------------------------
(* Three submissions of overlapping lists on a pool of two threads.        *)
EXTENDS StoragePlugin

CONSTANTS k1, k2

Overlapping == {<<k1>>, <<k1, k2>>}
=============================================================================
