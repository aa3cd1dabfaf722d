---------------------------- MODULE DriftStatistics ----------------------------
(***************************************************************************)
(* drift/: the champion/challenger gate (promotion_gate.py) and the        *)
(* population stability index (psi.py).                                    *)
(*                                                                         *)
(* Recalls and rates are numbers of a small range.  Feature values and bin *)
(* edges are integers, in units of a grid that holds the floating-point    *)
(* numbers of the code.  An edge, lo + i * width, is rounded four times,   *)
(* and with lo larger than hi in magnitude it may be many units of hi off. *)
(* But each of the four operations is monotone, and 0 * width is 0: the    *)
(* edges never fall, and the first one is lo.                              *)
(***************************************************************************)
EXTENDS Integers, Sequences, FiniteSets, Functions

CONSTANTS
  Classes,       \* attack classes of the labelled corpus
  Levels,        \* values of a recall or a rate
  Samples,       \* sequences of feature values
  MinSamples,    \* MIN_SAMPLES_FOR_PSI
  PsiBins,       \* n_bins
  Widening,      \* half the range given to a baseline of equal values
  RoundingError  \* how far an edge may be off

ASSUME StatisticsAssumption ==
  /\ Levels \subseteq Int /\ Samples \subseteq Seq(Int)
  /\ MinSamples \in Nat \ {0} /\ PsiBins \in Nat \ {0}
  /\ Widening \in Nat /\ RoundingError \in Nat

VARIABLES
  champion,    \* metrics of the deployed detector
  origin,      \* history: metrics of the first champion
  psi          \* the last index computed: range, edges and counts

statisticsVars == <<champion, origin, psi>>

\* DetectorMetrics: an attack class may be missing.
Metrics ==
  [recall : UNION {[measured -> Levels] : measured \in SUBSET Classes}, false_positives : Levels]

NoPsi == [baseline |-> <<>>]

StatisticsInit ==
  /\ champion \in Metrics /\ origin = champion
  /\ psi = NoPsi

\* evaluate_promotion.
ShouldPromoteOnSharedClasses(old, new) ==
  /\ \A c \in DOMAIN old.recall \cap DOMAIN new.recall : new.recall[c] >= old.recall[c]
  /\ new.false_positives <= old.false_positives

ShouldPromote(old, new) ==
  /\ \A c \in DOMAIN old.recall : c \in DOMAIN new.recall /\ new.recall[c] >= old.recall[c]
  /\ new.false_positives <= old.false_positives

\* A recalibrated challenger goes through the gate, and replaces the champion
\* or is dropped.
Challenge ==
  /\ \E challenger \in Metrics :
       ShouldPromote(champion, challenger) /\ champion' = challenger
  /\ UNCHANGED <<origin, psi>>

Values(sample) == {sample[i] : i \in DOMAIN sample}
Lowest(sample) == CHOOSE v \in Values(sample) : \A w \in Values(sample) : v <= w
Highest(sample) == CHOOSE v \in Values(sample) : \A w \in Values(sample) : w <= v

\* compute_psi: the range of the baseline, widened when it is a single value.
RangeOf(sample) ==
  IF Lowest(sample) = Highest(sample)
  THEN [lo |-> Lowest(sample) - Widening, hi |-> Highest(sample) + Widening]
  ELSE [lo |-> Lowest(sample), hi |-> Highest(sample)]

\* Every edge but the first carries a rounding error.
Edges(range, error) ==
  [i \in 0..PsiBins |->
     range.lo + (i * (range.hi - range.lo)) \div PsiBins + (IF i = 0 THEN 0 ELSE error[i])]

Errors == [1..PsiBins -> -RoundingError..RoundingError]

NeverFall(edges) == \A i \in 1..PsiBins : edges[i - 1] <= edges[i]

Clip(range, v) ==
  IF v < range.lo THEN range.lo ELSE IF v > range.hi THEN range.hi ELSE v

\* _bin_distribution: the number of values in each bin; the last bin is closed.
HalfOpenInBin(edges, b, v) == edges[b - 1] <= v /\ v < edges[b]

InBin(edges, b, v) ==
  /\ edges[b - 1] <= v
  /\ v < edges[b] \/ (b = PsiBins /\ v = edges[b])

Counts(edges, sample) ==
  [b \in 1..PsiBins |-> Cardinality({i \in DOMAIN sample : InBin(edges, b, sample[i])})]

ComputePsi ==
  /\ \E baseline \in Samples, current \in Samples, error \in Errors :
       /\ Len(baseline) >= MinSamples /\ Len(current) >= MinSamples
       /\ LET range == RangeOf(baseline)
              edges == Edges(range, error)
              clipped == [i \in DOMAIN current |-> Clip(range, current[i])]
          IN /\ NeverFall(edges)
             /\ psi' = [baseline |-> baseline, current |-> clipped,
                        hi |-> range.hi, top |-> edges[PsiBins],
                        baselineCounts |-> Counts(edges, baseline),
                        currentCounts |-> Counts(edges, clipped)]
  /\ UNCHANGED <<champion, origin>>

StatisticsNext == Challenge \/ ComputePsi

StatisticsSpec == StatisticsInit /\ [][StatisticsNext]_statisticsVars
-----------------------------------------------------------------------------
MetricsOK == champion \in Metrics /\ origin \in Metrics

\* However many challengers have been promoted, the deployed detector still
\* covers every attack class the first one covered, with at least its recall,
\* and flags no more legitimate sessions (docstring of evaluate_promotion).
PromotionNeverRegresses ==
  /\ \A c \in DOMAIN origin.recall :
       c \in DOMAIN champion.recall /\ champion.recall[c] >= origin.recall[c]
  /\ champion.false_positives <= origin.false_positives

\* Every value up to the last edge, the last edge included, is counted in one
\* bin, also where rounding has emptied bins; only what lies above the last
\* edge is in none, and that is within the rounding error of the maximum.
Above(sample, edge) == {i \in DOMAIN sample : sample[i] > edge}

BinsLoseOnlyTheTop ==
  psi # NoPsi =>
    /\ SumFunction(psi.baselineCounts) = Len(psi.baseline) - Cardinality(Above(psi.baseline, psi.top))
    /\ SumFunction(psi.currentCounts) = Len(psi.current) - Cardinality(Above(psi.current, psi.top))
    /\ psi.top >= psi.hi - RoundingError
================================================================================
