------------------------- MODULE MCMetricsCollector -------------------------
(* Instances of MetricsCollector for TLC. *)
EXTENDS MetricsCollector, TLC

CollectorSymmetry ==
  Permutations(Goroutines) \cup Permutations(Callers) \cup Permutations(Servers)
=============================================================================
