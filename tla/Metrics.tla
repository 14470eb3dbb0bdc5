--------------------------------- MODULE Metrics --------------------------------
(***************************************************************************)
(* What a metrics row says of a build (internal/metrics/metrics.go) and    *)
(* when it raises an alert (internal/metrics/alert.go).  Ratios are in     *)
(* hundredths.                                                             *)
(***************************************************************************)
EXTENDS Integers, Sequences, FiniteSets

CONSTANTS
  None,     \* no ratio
  Floor,    \* a ratio below it is low
  Delta,    \* a drop by more than it is sudden
  MinProcs  \* builds with fewer processes raise no alert

ASSUME MetricsAssumption == None \notin Int /\ Floor \in Nat /\ Delta \in Nat /\ MinProcs \in Nat

(* The runner counts of a BuildMetrics event, summed by kind; a total of 0 *)
(* was not reported.                                                       *)
Counts == [total : Nat, internal : Nat, disk : Nat, remote : Nat, other : Nat]

Executed(c) == c.remote + c.other

Processes(c) ==
  IF c.total > 0 THEN c.total ELSE c.internal + c.disk + Executed(c)

CacheHitRatio(c) ==
  IF c.disk + Executed(c) = 0 THEN None
  ELSE (100 * c.disk) \div (c.disk + Executed(c))

(* The k-th smallest element of a sequence.                                *)
Ranked(s, k) ==
  CHOOSE x \in {s[j] : j \in DOMAIN s} :
    /\ Cardinality({j \in DOMAIN s : s[j] < x}) < k
    /\ k <= Cardinality({j \in DOMAIN s : s[j] <= x})

(* Twice the median, which an even number of ratios have between two.      *)
TwiceMedian(s) ==
  LET n == Len(s) IN
  IF n % 2 = 1 THEN 2 * Ranked(s, n \div 2 + 1)
  ELSE Ranked(s, n \div 2) + Ranked(s, n \div 2 + 1)

(* A drop against the worktree's own history comes before the floor.       *)
EvaluateAlert(ratio, processes, history) ==
  IF processes < MinProcs THEN "none"
  ELSE IF history # <<>> /\ 2 * ratio < TwiceMedian(history) - 2 * Delta THEN "cache_busting_suspected"
  ELSE IF ratio < Floor THEN "low_cache_hit"
  ELSE "none"

Alerts == {"none", "cache_busting_suspected", "low_cache_hit"}
=============================================================================
