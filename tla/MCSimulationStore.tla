------------------------- MODULE MCSimulationStore -------------------------
(* Small instances of SimulationStore, told apart by `alone`: requests of     *)
(* two threads that interleave, about one device and one label at a time; or  *)
(* one request at a time, about two devices or two labels.  All constants are *)
(* interchangeable: no action and no property names one of them.              *)
EXTENDS SimulationStore, TLC

VARIABLE alone

Symmetry ==
  Permutations(Sessions) \cup Permutations(Workers) \cup Permutations(Devices)
    \cup Permutations(LabelNames)

Requested == {req[w] : w \in {v \in Workers : req[v] # None}}

DevicesInUse ==
  {r.d : r \in Requested} \cup {r.device : r \in telemetry}
    \cup {d \in Devices : deviceScenario[d] # None \/ \E s \in Sessions : owner[s] = d}
NamesInUse ==
  {r.row.label : r \in {q \in Requested : q.op = "label"}}
    \cup {l.label : l \in UNION {labels[s] : s \in Sessions}}
OneDevice == Cardinality(DevicesInUse) <= 1
OneName == Cardinality(NamesInUse) <= 1
OneRequest == \A v, w \in Workers : req[v] # None /\ req[w] # None => v = w

Bounded == IF alone THEN OneRequest /\ (OneDevice \/ OneName) ELSE OneDevice /\ OneName

MCInit == Init /\ alone \in BOOLEAN
MCNext == Next /\ UNCHANGED alone /\ Bounded'
MCSpec == MCInit /\ [][MCNext]_<<vars, alone>>

-----------------------------------------------------------------------------
(* Rules that only the checks of a request enforce: they need it to be alone *)
(* (see SimulationStore for what each says of the code).                     *)

\* One request at a time, a session has its scenario, no sample of a session
\* carries two labels, and every label covers a sample.
AloneIsSound == alone => SessionHasScenario /\ NoConflictingLabels /\ LabelsHaveSamples

\* One request at a time, the scenario of a device stays while it collects.
AloneScenarioFrozen == [][alone => ScenarioStep]_vars
=============================================================================
