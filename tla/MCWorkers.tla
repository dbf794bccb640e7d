----------------------------- MODULE MCWorkers ------------------------------
(* Workers.tla on small instances: what the configurations share.          *)
EXTENDS Workers, TLC

Symmetry == Permutations(Workers) \cup Permutations(FileIds) \cup Permutations(Names)

\* The statistics only grow and no guard reads them: states that differ in
\* nothing else are one state.
WithoutPeaks == <<memory, lost, heap, counters, metadataLock, policy, frame, server>>

=============================================================================
