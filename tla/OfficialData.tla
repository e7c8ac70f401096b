---------------------------- MODULE OfficialData ----------------------------
(***************************************************************************)
(* What the server computes from an official bundle                        *)
(* (server/app/official_dataset.py, official_model.py,                     *)
(* sensor_proxy_model.py): which bundles it accepts, the rows of a split,  *)
(* the assessment before a training, the quantiles of a site and the       *)
(* mapping of an ultrasonic rise to a water level.                         *)
(*                                                                         *)
(* A bundle is a record [origin, sites, span, splits, gap, horizon, rows]; *)
(* time is in hours, a period is a pair of its first and last hour.  A row *)
(* says whether the water is extreme in the `horizon' hours AFTER it.      *)
(* Features other than the water level, and the fit itself, are left out.  *)
(***************************************************************************)
EXTENDS Integers, FiniteSets, Sequences, SequencesExt

CONSTANTS
  MaxHorizon,      \* 72 hours
  Levels,          \* water levels in [-20, 20] m
  MinTrain,        \* MIN_TRAIN_ROWS_PER_SPLIT
  MinActivation,   \* MIN_ACTIVATION_ROWS_PER_SPLIT
  MinSites,        \* MIN_ACTIVATION_SITES
  MinCalibration,  \* valid samples of a formal mapping
  None

ASSUME OfficialDataAssumption ==
  /\ MinTrain \in Nat \ {0} /\ MinActivation \in Nat /\ MinCalibration \in Nat \ {0}
  /\ Levels \subseteq Int

Splits == {"train", "validation", "frozen_test"}
Holdouts == Splits \ {"train"}

Within(period, t) == period[1] <= t /\ t <= period[2]

Lowest(S) == CHOOSE x \in S : \A y \in S : x <= y
Highest(S) == CHOOSE x \in S : \A y \in S : y <= x

-----------------------------------------------------------------------------
(* The bundle *)

\* The splits lie in the range of the data, in order, `gap' hours apart.
ManifestShape(b) ==
  /\ b.origin = "official" /\ b.sites # {} /\ b.span[1] < b.span[2]
  /\ b.horizon \in 1..MaxHorizon /\ b.gap > 0
  /\ \A s \in Splits :
       /\ Within(b.span, b.splits[s][1]) /\ Within(b.span, b.splits[s][2])
       /\ b.splits[s][1] < b.splits[s][2]
  /\ b.splits["validation"][1] - b.splits["train"][2] >= b.gap
  /\ b.splits["frozen_test"][1] - b.splits["validation"][2] >= b.gap

\* Mutant of ManifestValid: the gap need not cover the horizon.
ManifestOfAnyGap(b) == ManifestShape(b)

ManifestValid(b) == ManifestShape(b) /\ b.gap >= b.horizon

\* One row per site and hour, and an extreme one belongs to a storm.
TableValid(b) ==
  /\ b.rows # {}
  /\ \A r \in b.rows :
       /\ Within(b.span, r.at) /\ r.site \in b.sites /\ r.level \in Levels
       /\ r.extreme => r.storm # None
  /\ \A r, q \in b.rows : r.site = q.site /\ r.at = q.at => r = q

BundleValid(b) == ManifestValid(b) /\ TableValid(b)

-----------------------------------------------------------------------------
(* The assessment before a training *)

RowsOf(b, split, sites) ==
  {r \in b.rows : r.site \in sites /\ Within(b.splits[split], r.at)}

BothClasses(rows) == {r.extreme : r \in rows} = BOOLEAN

EventStorms(rows) == {r.storm : r \in rows} \ {None}

StormsOverlap(b, sites) ==
  \E s, u \in Splits :
    s # u /\ EventStorms(RowsOf(b, s, sites)) \cap EventStorms(RowsOf(b, u, sites)) # {}

Ready(b, sites) ==
  /\ \A s \in Splits :
       LET rows == RowsOf(b, s, sites)
       IN  Cardinality(rows) >= MinTrain /\ BothClasses(rows) /\ {r.site : r \in rows} = sites
  /\ ~StormsOverlap(b, sites)

\* The water-level threshold of a site is chosen on validation and evaluated on
\* the frozen test; both need both classes.
FairBaseline(b, sites) ==
  \A site \in sites, s \in Holdouts : BothClasses(RowsOf(b, s, {site}))

Activatable(b, sites) ==
  /\ Ready(b, sites) /\ FairBaseline(b, sites)
  /\ Cardinality(sites) >= MinSites
  /\ \A s \in Splits : Cardinality(RowsOf(b, s, sites)) >= MinActivation

-----------------------------------------------------------------------------
(* Quantiles, contexts and the mapping of a rise *)

\* The quantile k/20 of a sorted sequence by linear interpolation, times 20.
Quantile20(q, k) ==
  LET position == (Len(q) - 1) * k
      low == q[position \div 20 + 1]
      part == position % 20
  IN  IF part = 0 THEN 20 * low ELSE (20 - part) * low + part * q[position \div 20 + 2]

Ascending(s) ==
  LET below(i) == {j \in DOMAIN s : s[j] < s[i] \/ (s[j] = s[i] /\ j < i)}
  IN  [k \in DOMAIN s |-> s[CHOOSE i \in DOMAIN s : Cardinality(below(i)) + 1 = k]]

\* 5% and 95% quantiles, times 20.
Quantiles(s) == <<Quantile20(Ascending(s), 1), Quantile20(Ascending(s), 19)>>

SiteLevels(b, site) ==
  LET rows == SetToSeq(RowsOf(b, "train", {site}))
  IN  [i \in DOMAIN rows |-> rows[i].level]

\* official_train_q05_m and official_train_q95_m of a site.
MappingReference(b, site) == Quantiles(SiteLevels(b, site))

LevelRange(b, sites) ==
  LET levels == {r.level : r \in RowsOf(b, "train", sites)}
  IN  <<Lowest(levels), Highest(levels)>>

\* The artifact is refused when a site's train levels have no width.
Fits(b, sites) ==
  \A site \in sites : MappingReference(b, site)[1] < MappingReference(b, site)[2]

\* level = base + gain * rise, kept as 20 * den * level = base + 20 * num * rise.
\* Mutant of FormalMapping: the reference level forgets where the calibration
\* starts.
FormalFromZero(official, rises) ==
  [num |-> official[2] - official[1], den |-> rises[2] - rises[1],
   base |-> official[1] * (rises[2] - rises[1])]

\* The quantiles of the calibration are mapped to those of the site.
FormalMapping(official, rises) ==
  LET num == official[2] - official[1]
      den == rises[2] - rises[1]
  IN  [num |-> num, den |-> den, base |-> official[1] * den - num * rises[1]]

ManualMapping(gain, level) == [num |-> gain, den |-> 1, base |-> 20 * level]

\* The mapped level lies outside the levels the model was trained on.
OutOfDistribution(map, range, rise) ==
  ~Within(<<20 * map.den * range[1], 20 * map.den * range[2]>>,
          map.base + 20 * map.num * rise)
=============================================================================
