---------------------------- MODULE MCIngestRuns ----------------------------
(* Instance of IngestRuns: the sets are interchangeable model values.       *)
EXTENDS IngestRuns, TLC

Symmetry == Permutations(Workers) \cup Permutations(Pids) \cup Permutations(RunIds)
=============================================================================
