------------------------------ MODULE ImpactData -----------------------------
(* What the offline pipeline computes from an event catalogue: hazard labels, *)
(* the global time split with its purges, the sampling of training rows, the  *)
(* leave-one-site-out folds, the inputs of a fit, and the alert episodes that *)
(* an operating threshold is selected by.  No state.  Times are hours; every  *)
(* site has one coastal zone; a label is the set of lead hours it knows and   *)
(* the set of lead hours it calls an onset.                                   *)
EXTENDS Integers, Sequences, FiniteSets, SequencesExt

CONSTANTS
  Sites,        \* 1..n, in the order of their identifiers
  ZoneOf,       \* site -> coastal zone
  FirstHour, LastHour,  \* observed hours
  Horizon,      \* hours ahead that are predicted
  History,      \* hours of observations a prediction uses
  Stride,       \* hours between two prediction times
  TrainEnd, ValidationEnd, TestEnd,
  Buffer,       \* hours kept clear around an event of another split
  Positive,     \* confidences that may train the primary head
  Day,          \* hours in a day
  MaxSoft,      \* widest onset interval that still gives a soft label
  Spacing,      \* hours between two training negatives of a stratum
  Month,        \* hours in a sampling stratum
  Ratio,        \* negatives per positive training row
  Forecasts,    \* issued forecasts: [site, issue, valid]
  MergeGap, Cooldown, Lookahead,
  None

(* What the configuration refuses otherwise (GlobalSplitConfig, config.py):   *)
(* boundaries in order, a window that is not empty.                           *)
ASSUME ImpactAssumption ==
  /\ Sites \subseteq Int /\ IsFiniteSet(Sites) /\ None \notin Int
  /\ FirstHour \in Int /\ LastHour \in Int
  /\ Horizon \in Nat \ {0} /\ History \in Nat \ {0}
  /\ TrainEnd \in Int /\ ValidationEnd \in Int /\ TestEnd \in Int
  /\ TrainEnd < ValidationEnd /\ ValidationEnd < TestEnd
  /\ Positive \subseteq {"A", "B"}
  /\ \A f \in Forecasts : f.issue \in Int
  /\ MergeGap \in Nat /\ Cooldown \in Nat /\ Lookahead \in Nat \ {0}

Splits == {"train", "validation", "test"}
Leads == 0..Horizon - 1

(* The elements of a finite set in the order of the pairs in R, by their rank. *)
InOrder(S, R) ==
  [k \in 1..Cardinality(S) |-> CHOOSE x \in S : Cardinality({y \in S : <<y, x>> \in R}) = k - 1]

(* A reviewed catalogue: confirmed events have an onset.                      *)
IsCatalog(events) ==
  /\ Len(events) \in Nat /\ DOMAIN events = 1..Len(events)
  /\ \A i \in DOMAIN events :
       /\ events[i].onset \in Int \cup {None} /\ events[i].peak \in Int \cup {None}
       /\ events[i].conf \in {"A", "B"} => events[i].onset # None

(* ------------------------------ hazard labels ---------------------------- *)

(* Lead slot j of a prediction at t is (t+j, t+j+1].                          *)
SlotOverlaps(t, j, from, to) == t + j + 1 >= from /\ t + j < to

Slots(t, span) == {j \in Leads : SlotOverlaps(t, j, span[1], span[2])}

Uncertainty(e, t) ==
  IF e.onset = None THEN <<t, t + Horizon>>
  ELSE IF e.prec = "date" THEN <<(e.onset \div Day) * Day, (e.onset \div Day) * Day + Day>>
  ELSE <<e.onset, IF e.end # None THEN e.end
                  ELSE IF e.prec = "unknown" THEN t + Horizon ELSE e.onset + 1>>

SoftInterval(e) ==
  <<e.onset, IF e.peak = None \/ e.peak <= e.onset THEN e.onset + 1 ELSE e.peak>>

Active(e, t) ==
  /\ e.conf \in Positive /\ e.onset # None /\ e.onset <= t
  /\ e.end = None \/ t <= e.end

Candidate(e, t) ==
  /\ e.conf \in Positive /\ e.prec \in {"exact", "interval"}
  /\ e.onset # None /\ t < e.onset /\ e.onset <= t + Horizon

Doubtful(e) == e.conf \in {"U", "C"} \/ e.prec \in {"date", "unknown"}

(* Rows of a catalogue are told apart by onset, then by position.             *)
Sooner(events, i, k) ==
  events[i].onset < events[k].onset \/ (events[i].onset = events[k].onset /\ i < k)

Unlabelled(known) == [known |-> known, hits |-> {}, event |-> None, storm |-> None]

(* Mutant of AtRisk: hours of doubtful evidence before an onset are negative. *)
AtRiskThroughout(bins, doubtful) == {j \in Leads : \E k \in bins : j <= k}

(* The hours through an onset are known, but for those of doubtful evidence.  *)
AtRisk(bins, doubtful) == ({j \in Leads : \E k \in bins : j <= k} \ doubtful) \cup bins

(* Inside a confirmed event nothing is known.  N rows cover known negatives;  *)
(* U, C, date-only and unknown evidence hides the hours it may fall in.  The  *)
(* earliest confirmed onset makes the hours before it known, and hides the    *)
(* hours after it.                                                            *)
Label(t, zone, catalog) ==
  LET here == {i \in DOMAIN catalog : catalog[i].zone = zone}
      covers(S) == UNION {Slots(t, Uncertainty(catalog[i], t)) : i \in S}
      negative == covers({i \in here : catalog[i].conf = "N"})
      doubtful == covers({i \in here : Doubtful(catalog[i])})
      active == {i \in here : Active(catalog[i], t)}
      onsets == {i \in here : Candidate(catalog[i], t)}
      e == catalog[IF active # {} THEN Min(active)
                   ELSE CHOOSE i \in onsets : \A k \in onsets \ {i} : Sooner(catalog, i, k)]
      soft == SoftInterval(e)
      wide == e.prec = "interval" /\ soft[2] - soft[1] > MaxSoft
      bins == IF e.prec = "exact" THEN {e.onset - t - 1} ELSE Slots(t, soft)
  IN IF active = {} /\ onsets = {} THEN Unlabelled(negative \ doubtful)
     ELSE [event |-> e.id, storm |-> e.storm,
           hits |-> IF active # {} \/ wide THEN {} ELSE bins,
           known |-> IF active # {} THEN {}
                     ELSE IF wide THEN (negative \ doubtful) \ bins
                     ELSE AtRisk(bins, doubtful)]

(* ------------------------------ time split ------------------------------- *)

SampleTimes ==
  LET from == FirstHour + History - 1 IN
  {t \in from..LastHour - Horizon : t <= TestEnd - Horizon /\ (t - from) % Stride = 0}

Rows(catalog) ==
  {LET l == Label(t, ZoneOf[s], catalog) IN
   [site |-> s, t |-> t, hits |-> l.hits, known |-> l.known, event |-> l.event, storm |-> l.storm]
   : s \in Sites, t \in SampleTimes}

Before(r, q) == r.site < q.site \/ (r.site = q.site /\ r.t < q.t)

(* Mutant of TimeSplit: a target window may reach over the end of its split.  *)
TimeSplitByPrediction(t, strict) ==
  IF t <= TrainEnd THEN "train"
  ELSE IF t <= ValidationEnd THEN "validation"
  ELSE IF t + Horizon <= TestEnd THEN "test" ELSE "out"

(* The whole target window must end inside the split; in strict mode the      *)
(* history window must begin inside it too (a row of the first History hours  *)
(* after a boundary is purged).                                               *)
TimeSplit(t, strict) ==
  IF strict /\ \E end \in {TrainEnd, ValidationEnd} : end < t /\ t <= end + History THEN "out"
  ELSE IF t + Horizon <= TrainEnd THEN "train"
  ELSE IF t > TrainEnd /\ t + Horizon <= ValidationEnd THEN "validation"
  ELSE IF t > ValidationEnd /\ t + Horizon <= TestEnd THEN "test" ELSE "out"

(* Rows of another split within the buffer of a group are purged, unless the  *)
(* group itself still lies in several splits, or in none.                     *)
PurgeAround(split, group) ==
  LET sides == {split[r] : r \in group} \ {"out"} IN
  IF Cardinality(sides) # 1 THEN split
  ELSE [r \in DOMAIN split |->
          IF /\ split[r] \notin sides
             /\ \E g \in group : g.t - Buffer <= r.t
             /\ \E g \in group : r.t <= g.t + Buffer
          THEN "out" ELSE split[r]]

(* Groups are visited in the order of their first rows.                       *)
PurgeGroups(split, groups) ==
  LET leads == {p \in groups \X groups : \E r \in p[1] : \A q \in p[2] : Before(r, q)}
      visited == InOrder(groups, leads)
      after[k \in 0..Cardinality(groups)] ==
        IF k = 0 THEN split ELSE PurgeAround(after[k - 1], visited[k])
  IN after[Cardinality(groups)]

(* The events, then the storms.                                               *)
AssignSplits(rows, strict) ==
  LET bySplit == [r \in rows |-> TimeSplit(r.t, strict)]
      events == {{r \in rows : r.event = v} : v \in {r.event : r \in rows} \ {None}}
      storms == {{r \in rows : r.storm = v} : v \in {r.storm : r \in rows} \ {None}}
  IN IF Buffer = 0 THEN bySplit ELSE PurgeGroups(PurgeGroups(bySplit, events), storms)

(* ------------------------- sampling and the dataset ---------------------- *)

(* In the order of site and time: what is too close to a kept row of the same *)
(* site and month is left out.                                                *)
Spaced(negatives) ==
  LET ordered == InOrder(negatives, {p \in negatives \X negatives : Before(p[1], p[2])})
      close(q, r) == q.site = r.site /\ q.t \div Month = r.t \div Month /\ r.t - q.t < Spacing
      kept[k \in 0..Cardinality(negatives)] ==
        IF k = 0 THEN {}
        ELSE kept[k - 1] \cup {r \in {ordered[k]} : \A q \in kept[k - 1] : ~close(q, r)}
  IN kept[Cardinality(negatives)]

(* Training negatives: spaced, then the first of them up to the cap.  Every   *)
(* positive row stays.                                                        *)
SampleTraining(rows) ==
  LET positive == {r \in rows : r.hits # {}}
      spaced == Spaced({r \in rows \ positive : r.known # {}})
      cap == IF positive = {} THEN Cardinality(spaced) ELSE Cardinality(positive) * Ratio
  IN positive \cup {r \in spaced : Cardinality({q \in spaced : Before(q, r)}) < cap}

Dataset(catalog, strict) ==
  LET split == AssignSplits(Rows(catalog), strict)
      part(name) == {r \in DOMAIN split : split[r] = name}
  IN [train |-> SampleTraining(part("train")),
      validation |-> part("validation"), test |-> part("test")]

(* The audit: no event and no storm in two splits.                            *)
GroupExclusive(data) ==
  \A a, b \in Splits : a # b =>
    \A r \in data[a], q \in data[b] :
      /\ r.event # None => r.event # q.event
      /\ r.storm # None => r.storm # q.storm

Admitted(data) == GroupExclusive(data) /\ \A split \in Splits : data[split] # {}

(* --------------------------------- fits ---------------------------------- *)

Folds(data) ==
  {[held |-> s, train |-> {r \in data.train : r.site # s},
    tune |-> {r \in data.validation : r.site = s}]
   : s \in {r.site : r \in UNION {data[split] : split \in Splits}}}

FoldsAdmitted(folds) ==
  Cardinality(folds) >= 2 /\ \A f \in folds : f.train # {} /\ f.tune # {}

(* Without a known and a positive cell there is nothing to fit.               *)
HasEvidence(train) == \E r \in train : r.hits # {}

(* The latest forecast for an hour that had been issued; None without one.    *)
AsOf(site, t, valid) ==
  LET issued == {f \in Forecasts : f.site = site /\ f.valid = valid /\ f.issue <= t}
  IN IF issued = {} THEN None ELSE CHOOSE f \in issued : \A g \in issued : g.issue <= f.issue

(* A row whose forecast for some hour was only issued later is refused.       *)
FutureOnly(r) ==
  \E j \in Leads : /\ AsOf(r.site, r.t, r.t + j + 1) = None
                   /\ \E f \in Forecasts : f.site = r.site /\ f.valid = r.t + j + 1

HistoryWindow(r) == (r.t - History + 1)..r.t

(* Mutant of Scaled: every observation of the training sites.                 *)
ScaledByAll(train) ==
  [observed |-> {<<r.site, h>> : r \in train, h \in FirstHour..LastHour},
   issued |-> {f \in Forecasts : \E r \in train : r.site = f.site}]

(* The rows the scalers are fitted on: of the training sites, and of no later *)
(* than the latest training prediction.                                       *)
Scaled(train) ==
  LET sites == {r.site : r \in train}
      known(h) == \E r \in train : h <= r.t
  IN [observed |-> {<<s, h>> : s \in sites, h \in {x \in FirstHour..LastHour : known(x)}},
      issued |-> {f \in Forecasts : f.site \in sites /\ known(f.issue) /\ known(f.valid - Horizon)}]

(* --------------------------- alerts and events --------------------------- *)

(* Episodes are <<start, end>>; one that begins soon enough joins the last.   *)
Join(gap, episodes, next) ==
  IF episodes # <<>> /\ next[1] - episodes[Len(episodes)][2] <= gap
  THEN [episodes EXCEPT ![Len(episodes)] = <<@[1], next[2]>>]
  ELSE Append(episodes, next)

Joined(gap, episodes) ==
  LET done[k \in 0..Len(episodes)] ==
        IF k = 0 THEN <<>> ELSE Join(gap, done[k - 1], episodes[k])
  IN done[Len(episodes)]

(* Hours above the threshold, merged over short gaps; then episodes that      *)
(* restart during the cooldown are folded into the one before.                *)
Episodes(hours) ==
  LET ordered == InOrder(hours, {p \in hours \X hours : p[1] < p[2]})
      single == [k \in 1..Cardinality(hours) |-> <<ordered[k], ordered[k]>>]
  IN Joined(Cooldown, Joined(MergeGap + 1, single))

(* The events an evaluation counts, as rows of the catalogue: confirmed,      *)
(* exact, of the split's period.                                              *)
EventsOf(catalog, from, to, site) ==
  {i \in DOMAIN catalog :
     /\ catalog[i].conf \in {"A", "B"} /\ catalog[i].prec = "exact"
     /\ catalog[i].zone = ZoneOf[site]
     /\ from < catalog[i].onset /\ catalog[i].onset <= to}

InLookahead(episode, e) == episode[1] < e.onset /\ episode[1] >= e.onset - Lookahead

(* What an event may take: an episode of its lookahead that no event has      *)
(* taken; 0 stands for none.                                                  *)
Free(episodes, taken, e) ==
  {n \in DOMAIN episodes : InLookahead(episodes[n], e) /\ \A k \in DOMAIN taken : taken[k] # n}

(* Mutant of MatchEvent: the latest alert before the onset is taken.          *)
MatchEventLatest(episodes, taken, events, i) ==
  LET free == Free(episodes, taken, events[i])
  IN IF free = {} THEN taken ELSE [taken EXCEPT ![i] = Max(free)]

(* An event takes the first episode that it may.                              *)
MatchEvent(episodes, taken, events, i) ==
  LET free == Free(episodes, taken, events[i])
  IN IF free = {} THEN taken ELSE [taken EXCEPT ![i] = Min(free)]

(* The rows S of the catalogue are matched in the order of their onsets.      *)
Matching(episodes, events, S) ==
  LET ordered == InOrder(S, {p \in S \X S : Sooner(events, p[1], p[2])})
      taken[k \in 0..Cardinality(S)] ==
        IF k = 0 THEN [i \in S |-> 0] ELSE MatchEvent(episodes, taken[k - 1], events, ordered[k])
  IN taken[Cardinality(S)]

Detected(taken) == {i \in DOMAIN taken : taken[i] # 0}

(* ------------------------------ thresholds ------------------------------- *)

(* Levels stand for probabilities: row -> level.                              *)
AlertHours(levels, site, threshold) ==
  {r.t : r \in {q \in DOMAIN levels : q.site = site /\ levels[q] >= threshold}}

(* Detected events and episodes at a threshold, over every site.              *)
Operating(levels, catalog, threshold) ==
  LET at(s) == Episodes(AlertHours(levels, s, threshold))
      found(s) == Detected(Matching(at(s), catalog, EventsOf(catalog, TrainEnd, ValidationEnd, s)))
  IN [threshold |-> threshold,
      detected |-> Cardinality(UNION {{<<s, i>> : i \in found(s)} : s \in Sites}),
      episodes |-> Cardinality(UNION {{<<s, i>> : i \in DOMAIN at(s)} : s \in Sites})]

(* F1, then recall, then fewer false episodes, then the higher threshold.     *)
Preferred(a, b, events) ==
  LET f(x, y) == x.detected * (y.episodes + events) IN
  \/ f(a, b) > f(b, a)
  \/ /\ f(a, b) = f(b, a)
     /\ \/ a.detected > b.detected
        \/ /\ a.detected = b.detected
           /\ \/ a.episodes < b.episodes
              \/ a.episodes = b.episodes /\ a.threshold >= b.threshold

(* The balanced point of the candidate thresholds.                            *)
Balanced(levels, catalog, candidates) ==
  LET events == Cardinality(UNION {{<<s, i>> : i \in
                  EventsOf(catalog, TrainEnd, ValidationEnd, s)} : s \in Sites})
      points == {Operating(levels, catalog, c) : c \in candidates}
  IN CHOOSE p \in points : \A q \in points : Preferred(p, q, events)
=============================================================================
