---------------------------- MODULE ImpactPipeline ---------------------------
(* The data stages of the offline pipeline, one after the other over one      *)
(* event catalogue: the dataset, the primary fit and the leave-one-site-out   *)
(* fits, the validation predictions, and the operating threshold.             *)
EXTENDS ImpactData

CONSTANTS
  Catalogs,   \* event catalogues, each a sequence of events
  Levels,     \* abstract probabilities: 0..n
  Scored,     \* bound: the site whose predictions are free; others stay at 0
  Rejected

ASSUME CatalogsAssumption == \A c \in Catalogs : IsCatalog(c)

VARIABLES
  catalog,
  strict,     \* the context mode of the configuration
  data,       \* the dataset: split -> rows; None before, Rejected if refused
  fits,       \* the fits: rows trained on and tuned on, and scaler inputs
  levels,     \* level of each validation row, or None
  balanced    \* the selected operating point, or None

vars == <<catalog, strict, data, fits, levels, balanced>>

Init ==
  /\ catalog \in Catalogs /\ strict \in BOOLEAN
  /\ data = None /\ fits = {} /\ levels = None /\ balanced = None

BuildDataset ==
  /\ data = None
  /\ LET built == Dataset(catalog, strict) IN data' = IF Admitted(built) THEN built ELSE Rejected
  /\ UNCHANGED <<catalog, strict, fits, levels, balanced>>

FitOf(held, train, tune) ==
  [held |-> held, train |-> train, tune |-> tune, scaled |-> Scaled(train)]

Refused(train, tune) == ~HasEvidence(train) \/ \E r \in train \cup tune : FutureOnly(r)

(* The primary model: trained on train, stopped early by validation.          *)
Train ==
  /\ data \notin {None, Rejected} /\ fits = {}
  /\ ~Refused(data.train, data.validation)
  /\ fits' = {FitOf(None, data.train, data.validation)}
  /\ UNCHANGED <<catalog, strict, data, levels, balanced>>

(* All folds or none.                                                         *)
CrossValidate ==
  /\ fits # {} /\ Cardinality(fits) = 1
  /\ LET folds == Folds(data) IN
     /\ FoldsAdmitted(folds)
     /\ \A f \in folds : ~Refused(f.train, f.tune)
     /\ fits' = fits \cup {FitOf(f.held, f.train, f.tune) : f \in folds}
  /\ UNCHANGED <<catalog, strict, data, levels, balanced>>

(* What the trained model says of the validation rows: any level.             *)
Predict ==
  /\ fits # {} /\ levels = None
  /\ \E free \in [{r \in data.validation : r.site = Scored} -> Levels] :
       levels' = [r \in data.validation |-> IF r.site = Scored THEN free[r] ELSE 0]
  /\ UNCHANGED <<catalog, strict, data, fits, balanced>>

(* Selection needs an hourly timeline, an eligible event, and events that are *)
(* not listed twice because two predicted sites share a zone.                 *)
SelectThreshold ==
  /\ levels # None /\ balanced = None /\ Stride = 1
  /\ LET sites == {r.site : r \in data.validation}
         events(s) == EventsOf(catalog, TrainEnd, ValidationEnd, s)
     IN /\ \E s \in sites : events(s) # {}
        /\ \A s, q \in sites : s # q /\ ZoneOf[s] = ZoneOf[q] => events(s) = {}
  /\ balanced' = Balanced(levels, catalog, Levels)
  /\ UNCHANGED <<catalog, strict, data, fits, levels>>

Next == BuildDataset \/ Train \/ CrossValidate \/ Predict \/ SelectThreshold

Spec == Init /\ [][Next]_vars

(* ------------------------------ properties ------------------------------- *)

Built == data \notin {None, Rejected}

(* The target windows of two splits never share an hour, and no event and no  *)
(* storm has rows on two sides - at any site; in strict mode no history       *)
(* window of a later split reaches a target of an earlier one.                *)
NoSplitLeak ==
  Built => \A a, b \in Splits : a # b => \A r \in data[a], q \in data[b] :
    /\ r.t + Horizon <= q.t \/ q.t + Horizon <= r.t
    /\ r.event = None \/ r.event # q.event
    /\ r.storm = None \/ r.storm # q.storm
    /\ strict /\ r.t < q.t => \A h \in HistoryWindow(q) : h > r.t + Horizon

(* A known hour without an onset is really known: it is covered by an N row   *)
(* or lies before the row's confirmed onset; no doubtful evidence may fall in *)
(* it; and it holds no exact onset of a confirmed event, unless N rows speak  *)
(* against that event, and no hour of the row is a hit (labels.py: unknown    *)
(* evidence must never be converted to clean negatives).                      *)
NegativesAreEvidence ==
  Built => \A split \in Splits : \A r \in data[split] : \A j \in r.known \ r.hits :
    LET here == {i \in DOMAIN catalog : catalog[i].zone = ZoneOf[r.site]}
        within(i) == j \in Slots(r.t, Uncertainty(catalog[i], r.t))
        covered == \E i \in here : catalog[i].conf = "N" /\ within(i)
    IN /\ covered \/ \E k \in r.hits : j < k
       /\ \A i \in here : Doubtful(catalog[i]) => ~within(i)
       /\ \A i \in here : catalog[i].conf \in Positive /\ catalog[i].prec = "exact"
                            /\ catalog[i].onset = r.t + j + 1 => covered /\ r.hits = {}

(* No fit sees what it is judged on: it uses no test row, its target hours    *)
(* and everything its scalers were fitted on lie before the first prediction  *)
(* it is tuned on, and a fold uses nothing of the site it holds out.          *)
FitsAreBlind ==
  \A f \in fits : \A q \in f.tune \cup data.test :
    /\ \A r \in f.train : r.t + Horizon < q.t + 1 /\ r \notin data.test
    /\ \A o \in f.scaled.observed : o[2] < q.t /\ o[1] # f.held
    /\ \A i \in f.scaled.issued : i.issue < q.t /\ i.site # f.held

(* The largest number of events that any one-to-one matching could detect.    *)
MostDetected(episodes, events, S) ==
  LET fits1(m) == \A i \in S : m[i] = 0 \/ InLookahead(episodes[m[i]], events[i])
      apart(m) == \A i, k \in S : i # k /\ m[i] # 0 => m[i] # m[k]
      choices == {m \in [S -> 0..Len(episodes)] : fits1(m) /\ apart(m)}
  IN CHOOSE n \in {Cardinality(Detected(m)) : m \in choices} :
       \A m \in choices : Cardinality(Detected(m)) <= n

(* At every candidate threshold the alerts are cut into episodes that no      *)
(* merge or cooldown would still join and that cover every alert hour, and    *)
(* the greedy matching detects as many events as any matching could.          *)
EventsAreCounted ==
  balanced # None => \A s \in Sites, c \in Levels :
    LET hours == AlertHours(levels, s, c)
        episodes == Episodes(hours)
        events == EventsOf(catalog, TrainEnd, ValidationEnd, s)
    IN /\ \A h \in hours : \E i \in DOMAIN episodes : episodes[i][1] <= h /\ h <= episodes[i][2]
       /\ \A i \in DOMAIN episodes : {episodes[i][1], episodes[i][2]} \subseteq hours
       /\ \A i \in 1..Len(episodes) - 1 :
            /\ episodes[i + 1][1] - episodes[i][2] > Cooldown
            /\ episodes[i + 1][1] - episodes[i][2] > MergeGap + 1
       /\ Cardinality(Detected(Matching(episodes, catalog, events))) = MostDetected(episodes, catalog, events)
=============================================================================
