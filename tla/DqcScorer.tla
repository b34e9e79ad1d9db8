----------------------------- MODULE DqcScorer -----------------------------
(***************************************************************************)
(* The score of an asset (services/dqc/scorer.py): the signal of a         *)
(* dimension from its score and from the drop since the score before, the  *)
(* signal of the asset from its worst dimension and its mean score, and    *)
(* the events a change of signal is worth (orchestrator.py).               *)
(***************************************************************************)
EXTENDS Integers, Sequences, FiniteSetsExt

CONSTANTS Dims,  \* the dimensions that have rules
          AllDims  \* how many dimensions there are; one without a rule scores 100

ASSUME ScorerAssumption == AllDims \in Nat \ {0} /\ IsFiniteSet(Dims) /\ Cardinality(Dims) <= AllDims

Signals == {"GREEN", "P1", "P0"}
NoScores == [d \in {} |-> 0]

\* DEFAULT_SIGNAL_THRESHOLDS
P0Score == 60
P1Score == 80
DriftP0 == 20
DriftP1 == 10

Priority == [GREEN |-> 0, P1 |-> 1, P0 |-> 2]
Worst(signals) == CHOOSE s \in signals : \A t \in signals : Priority[t] <= Priority[s]

\* Of a score; DOMAIN prev is the dimensions that have a score before.
DimensionSignal(d, scores, prev) ==
    LET score == scores[d]
        drift == IF d \in DOMAIN prev THEN score - prev[d] ELSE 0 IN
    IF score < P0Score \/ drift <= -DriftP0 THEN "P0"
    ELSE IF score < P1Score \/ drift <= -DriftP1 THEN "P1" ELSE "GREEN"

\* The mean of all dimensions, times their number.
Confidence(scores) ==
    MapThenSumSet(LAMBDA d : scores[d], Dims) + 100 * (AllDims - Cardinality(Dims))

ConfidenceSignal(scores) ==
    IF Confidence(scores) < P0Score * AllDims THEN "P0"
    ELSE IF Confidence(scores) < P1Score * AllDims THEN "P1" ELSE "GREEN"

AssetSignal(scores, prev) ==
    Worst({ConfidenceSignal(scores)} \cup {DimensionSignal(d, scores, prev) : d \in Dims})

\* What a change from the signal before, if any, to the one now announces, in this order.
Announcements(before, now) ==
    LET When(condition, event) == IF condition THEN <<event>> ELSE <<>> IN
       When(before # "none" /\ before # now, "signal_changed")
    \o When(now = "P0" /\ before # "P0", "p0_triggered")
    \o When(now = "P1" /\ before # "P1", "p1_triggered")
    \o When(before \in {"P0", "P1"} /\ now = "GREEN", "recovered")
============================================================================
