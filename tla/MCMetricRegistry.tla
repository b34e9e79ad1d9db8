-------------------------- MODULE MCMetricRegistry --------------------------
(***************************************************************************)
(* MetricRegistry for TLC.  Metrics, formulas and requests are             *)
(* interchangeable; one user creates every metric.                         *)
(***************************************************************************)
EXTENDS MetricRegistry, TLC

CONSTANT u1

OneCreator == [m \in Metrics |-> u1]

Symmetry == Permutations(Metrics) \cup Permutations(Texts) \cup Permutations(Requests)

=============================================================================
