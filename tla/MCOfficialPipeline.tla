------------------------- MODULE MCOfficialPipeline -------------------------
(* Small instances of OfficialPipeline, told apart by `focus`: rescans and    *)
(* trainings of two versions of a dataset while an operator changes files,    *)
(* one rescan at a time or two; every bundle of the pool on its way to an     *)
(* active model; or sessions, profiles and tests after two trainings.         *)
EXTENDS OfficialPipeline

CONSTANTS v1, v2, w1, s1, s2, d1, d2, ada, ben, cyd

VARIABLE focus

\* Two versions of one dataset, and another dataset.
TheFolders == <<v1, v2, w1>>
TheDatasets == [f \in {v1, v2, w1} |-> IF f = w1 THEN d2 ELSE d1]

\* Two sites, a safe and an extreme hour for each in each split; a label is about
\* the hour after its row.
Hours == [train |-> <<0, 1>>, validation |-> <<2, 3>>, frozen_test |-> <<4, 5>>]
Storm == [train |-> ada, validation |-> ben, frozen_test |-> cyd]
SiteRow(site, split, i) ==
  [site |-> site, at |-> Hours[split][i], extreme |-> i = 2,
   storm |-> IF i = 2 THEN Storm[split] ELSE None,
   level |-> IF site = s1 THEN 2 * i ELSE i + 4]
GoodRows == {SiteRow(site, split, i) : site \in {s1, s2}, split \in Splits, i \in 1..2}
Good == [origin |-> "official", sites |-> {s1, s2}, span |-> <<0, 5>>, splits |-> Hours,
         gap |-> 1, horizon |-> 1, rows |-> GoodRows]

\* The good bundle with other rows: those that satisfy P are changed by f.
Altered(P(_), f(_)) ==
  [Good EXCEPT !.rows = {IF P(r) THEN f(r) ELSE r : r \in @}]
InSplit(r, split) == Within(Hours[split], r.at)

LongHorizon == [Good EXCEPT !.horizon = 2]
WideGap == [Good EXCEPT !.gap = 2]
Fixture == [Good EXCEPT !.origin = "synthetic_test_fixture"]
Outside == [Good EXCEPT !.span = <<1, 5>>]
StormGoesOn ==
  Altered(LAMBDA r : r.storm = cyd, LAMBDA r : [r EXCEPT !.storm = ada])
StormUnnamed ==
  Altered(LAMBDA r : r.storm = ben, LAMBDA r : [r EXCEPT !.storm = None])
\* The test of a site has one class: trainable, not activatable.
OneClass ==
  Altered(LAMBDA r : r.site = s2 /\ InSplit(r, "frozen_test"),
          LAMBDA r : [r EXCEPT !.extreme = FALSE])
NoClass ==
  Altered(LAMBDA r : InSplit(r, "validation"), LAMBDA r : [r EXCEPT !.extreme = FALSE])
\* The levels of a site have no width: the training fails.
Flat == Altered(LAMBDA r : r.site = s2 /\ InSplit(r, "train"), LAMBDA r : [r EXCEPT !.level = 5])
Twice == [Good EXCEPT !.rows = @ \cup {[SiteRow(s1, "train", 1) EXCEPT !.level = 9]}]
Unseen == [Good EXCEPT !.rows = {r \in @ : ~(r.site = s2 /\ InSplit(r, "validation"))}]
Higher == Altered(LAMBDA r : TRUE, LAMBDA r : [r EXCEPT !.level = @ + 3])

Pool == {Good, LongHorizon, WideGap, Fixture, Outside, StormGoesOn, StormUnnamed, OneClass,
         NoClass, Flat, Twice, Unseen, Higher}

TheSitePicks == {{s1, s2}, {s1}}
TheRises == {<<130, 110, 150>>, <<110>>}
TheManuals == {<<1, 0>>}

First(S) == CHOOSE x \in S : TRUE
Still == session = [s \in Sessions |-> Nothing] /\ profile = None
BundlesOnDisk ==
  UNION {{disk[f].manifest, disk[f].table} : f \in {g \in {v1, v2} : disk[g] # None}} \ {None}

\* Registrations: an operator puts one of two good bundles into two folders, the one
\* that is there from the beginning or the other.
Registrations ==
  /\ disk[w1] = None /\ (changes = 0 => disk[v2] = None)
  /\ BundlesOnDisk \subseteq (IF changes = 0 THEN {Good} ELSE {Good, Higher})
  /\ Still /\ active = None
  /\ \A r \in Runs : run[r].status # "absent" => r = First(Runs)
  /\ \A t \in Threads : Training(t) => job[t].sites = {s1, s2}
\* ... with one thread that rescans and others that train.
OneRescan == \A t \in Threads : job[t] # None => (Training(t) <=> t # First(Threads))
\* Every bundle, and one thread.
Data ==
  /\ changes = 0 /\ Still /\ disk[v2] = None /\ disk[w1] = None
  /\ \A t \in Threads : job[t] # None => t = First(Threads)
  /\ \A r \in Runs : run[r].status # "absent" => r = First(Runs)
\* Sessions after the trainings: two datasets, two models and no more rescans.
Devices ==
  /\ changes = 0 /\ BundlesOnDisk = {Good} /\ disk[v2] = None
  /\ disk[w1] # None /\ disk[w1].manifest = Higher
  /\ \A t \in Threads : job[t] # None => t = First(Threads)
  /\ \A t \in Threads : (job[t] # None => Still) /\ (At(t, "look") => \A r \in Runs : run[r].status = "absent")
  /\ \A r \in Runs :
       /\ run[r] # Failed
       /\ run[r].status # "absent" => run[r].dataset = (IF r = First(Runs) THEN d1 ELSE d2)
       /\ Still \/ run[r].status # "absent"
  /\ Cardinality(tests) <= 1

Focuses == {"one rescan", "rescans", "data", "device"}
Focused ==
  CASE focus = "one rescan" -> Registrations /\ OneRescan
    [] focus = "rescans" -> changes = 0 /\ BundlesOnDisk # {} /\ Registrations
    [] focus = "data" -> Data
    [] focus = "device" -> Devices

MCInit == Init /\ focus \in Focuses /\ Focused
MCNext == Next /\ UNCHANGED focus /\ Focused'
MCSpec == MCInit /\ [][MCNext]_<<vars, focus>>

-----------------------------------------------------------------------------

\* With one rescan at a time every model names the registration that the database
\* holds for its dataset (experiment_store.py:60 "changing any immutable
\* registration hash is rejected instead of rewriting provenance"), and was trained
\* on its data, unless an operator changed files while they were loaded.
AloneTrainedOnRegistered == focus # "rescans" => TrainedOnRegistered
=============================================================================
