------------------------------ MODULE MCStore -------------------------------
(* StoreAsCache.tla on a small instance.                                   *)
EXTENDS StoreAsCache

WithoutPeaks == <<memory, lost, heap, counters, metadataLock, policy, frame, server, mode, main>>

=============================================================================
