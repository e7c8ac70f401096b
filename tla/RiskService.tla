---------------------------- MODULE RiskService ----------------------------
(* One risk request of a device, read by read, while the device uploads and   *)
(* operators change its place, model, scenario and profile.  The reads are    *)
(* transactions of their own (gateway.py, get_risk), the environment comes    *)
(* from EnvironmentCache, the live window from TelemetryWindow.  Writers are  *)
(* atomic here: SimulationStore and OfficialModel model them in full.         *)
EXTENDS EnvironmentCache, TelemetryWindow

CONSTANTS
  Scenarios,    \* operator scenarios
  Artifacts,    \* official artifacts that can be activated
  Sessions,     \* collection sessions of the device
  MaxRows,      \* bound: telemetry rows
  MaxChanges,   \* bound: changes of place, model, scenario, profile, activation
  Searchable,   \* places found by search, the others are presets
  ModelLoaded   \* the baseline model was loaded at the start of the process

ASSUME RiskAssumption ==
  /\ None \notin Scenarios \cup Artifacts \cup Sessions \cup Places
  /\ Searchable \subseteq Places /\ ModelLoaded \in BOOLEAN

VARIABLES
  legacy,     \* COAST_ENABLE_LEGACY_SIMULATION_TRAINING and a custom artifact
  configured, \* the location of the deployment, if COAST_LATITUDE ... are set
  place,      \* the device's saved place
  model,      \* its row of device_model_selections
  scenario,   \* its operator scenario
  active,     \* the active official artifact
  profile,    \* the artifact its sensor profile was made for
  frozen,     \* what each session froze at its start
  collecting, \* its active session
  rows,       \* its telemetry, oldest first
  changes,    \* changes made so far
  req         \* the risk request each thread serves

context == <<legacy, configured, place, model, scenario, active, profile, changes>>
recording == <<frozen, collecting, rows>>
vars == <<cacheVars, context, recording, req>>

Init ==
  /\ CacheInit
  /\ legacy \in BOOLEAN /\ configured \in Places \cup {None}
  /\ place \in Places \cup {None} /\ model \in {"default", "custom", "official"}
  /\ scenario \in Scenarios \cup {None}
  /\ active \in Artifacts \cup {None} /\ profile \in {active, None}
  /\ frozen = [s \in Sessions |-> None] /\ collecting = None
  /\ rows = <<>> /\ changes = 0
  /\ req = [t \in Threads |-> None]

(* get_selected_model_id(): an official selection stays even when it cannot   *)
(* serve; a custom one that is not ready is the default.                      *)
Selected == IF model = "custom" /\ ~legacy THEN "default" ELSE model

-----------------------------------------------------------------------------
(* The device and the operators.                                             *)

(* Every change is seen by the requests under way.                            *)
Change ==
  /\ changes < MaxChanges /\ changes' = changes + 1
  /\ req' = [t \in Threads |-> IF req[t] = None THEN None
                               ELSE [req[t] EXCEPT !.quiet = FALSE]]
  /\ UNCHANGED <<legacy, configured, recording>>

SelectPreset(p) ==
  /\ Change /\ place' = p
  /\ UNCHANGED <<cacheVars, model, scenario, active, profile>>

(* A searched place is resolved by the server before it is saved.             *)
SelectPlace(t, p) ==
  /\ req[t] = None /\ call[t] = None
  /\ AskPreset(t, p)
  /\ UNCHANGED <<clock, cache, lock, searches, presets, context, recording, req>>
SavePlace(t) ==
  /\ At(t, "resolved")
  /\ Change /\ place' = call[t].place
  /\ call' = [call EXCEPT ![t] = None]
  /\ UNCHANGED <<clock, cache, lock, searches, presets, model, scenario, active, profile>>

SelectModel(m) ==
  /\ m = "custom" => legacy
  /\ m = "official" => ~legacy /\ profile # None /\ profile = active
  /\ Change /\ model' = m
  /\ UNCHANGED <<cacheVars, place, scenario, active, profile>>

SetScenario(v) ==
  /\ collecting = None
  /\ Change /\ scenario' = v
  /\ UNCHANGED <<cacheVars, place, model, active, profile>>

SensorTest == collecting # None /\ frozen[collecting] \in Artifacts

Activate(a) ==
  /\ ~SensorTest
  /\ Change /\ active' = a
  /\ UNCHANGED <<cacheVars, place, model, scenario, profile>>
SaveProfile ==
  /\ active # None /\ ~SensorTest
  /\ Change /\ profile' = active
  /\ UNCHANGED <<cacheVars, place, model, scenario, active>>

StartSession(s) ==
  /\ collecting = None /\ frozen[s] = None
  /\ IF model = "official" THEN profile # None /\ profile = active ELSE scenario # None
  /\ collecting' = s
  /\ frozen' = [frozen EXCEPT ![s] = IF model = "official" THEN profile ELSE scenario]
  /\ UNCHANGED <<cacheVars, context, rows, req>>
StopSession ==
  /\ collecting # None /\ collecting' = None
  /\ UNCHANGED <<cacheVars, context, frozen, rows, req>>

(* An upload; a frame without a healthy echo carries the fault alarm.  Before *)
(* it the device may have lost a frame, or restarted.                         *)
Upload(ok, gap) ==
  LET n == Len(rows)
      last == IF n = 0 THEN [seq |-> 0, up |-> 0, at |-> clock] ELSE rows[n] IN
  /\ n < MaxRows
  /\ rows' = Append(rows,
       [id |-> n + 1, at |-> clock, ok |-> ok, session |-> collecting,
        seq |-> last.seq + IF gap = "lost" THEN 2 ELSE 1,
        up |-> IF gap = "restart" THEN 0 ELSE last.up + clock - last.at])
  /\ UNCHANGED <<cacheVars, context, frozen, collecting, req>>

-----------------------------------------------------------------------------
(* get_risk().                                                               *)

Doing(t, step) == req[t] # None /\ req[t].step = step
Refuse(t) == req' = [req EXCEPT ![t] = [@ EXCEPT !.step = "refused"]]
Goto(t, step) == req' = [req EXCEPT ![t] = [@ EXCEPT !.step = step]]

Begin(t, row) ==
  /\ req[t] = None /\ call[t] = None
  /\ req' = [req EXCEPT ![t] =
       [step |-> "select", row |-> row, begun |-> clock, quiet |-> TRUE,
        env |-> None, place |-> None, model |-> None, result |-> None]]
  /\ UNCHANGED <<cacheVars, context, recording>>
BeginRisk(t) == rows # <<>> /\ Begin(t, rows[Len(rows)])
BeginEnvironment(t) == Begin(t, None)

(* The environment route ends here, the risk route goes on.                   *)
WithEnvironment(t, env) ==
  req' = [req EXCEPT ![t] = [@ EXCEPT !.env = env,
                              !.step = IF req[t].row = None THEN "shown" ELSE "place"]]

(* _environment_for_device(): the first look at the selected model.           *)
OfficialEnvironment(t) ==
  /\ Doing(t, "select") /\ Selected = "official"
  /\ IF profile # None /\ profile = active
     THEN WithEnvironment(t, Weather("manual", profile, None)) ELSE Refuse(t)
  /\ UNCHANGED <<cacheVars, context, recording>>
CustomEnvironment(t) ==
  /\ Doing(t, "select") /\ Selected = "custom"
  /\ IF scenario # None
     THEN WithEnvironment(t, Weather("manual", scenario, None)) ELSE Refuse(t)
  /\ UNCHANGED <<cacheVars, context, recording>>
(* The place whose weather is shown: the saved one, or else the configured.   *)
WeatherPlace == IF place # None THEN place ELSE configured

DemoEnvironment(t) ==
  /\ Doing(t, "select") /\ Selected = "default" /\ WeatherPlace = None
  /\ WithEnvironment(t, Weather("demo", None, None))
  /\ UNCHANGED <<cacheVars, context, recording>>
AskEnvironment(t) ==
  /\ Doing(t, "select") /\ Selected = "default" /\ WeatherPlace # None
  /\ AskWeather(t, WeatherPlace) /\ Goto(t, "weather")
  /\ UNCHANGED <<clock, cache, lock, searches, presets, context, recording>>
TakeEnvironment(t) ==
  /\ Doing(t, "weather") /\ At(t, "returned")
  /\ WithEnvironment(t, call[t].answer)
  /\ call' = [call EXCEPT ![t] = None]
  /\ UNCHANGED <<clock, cache, lock, searches, presets, context, recording>>

(* The baseline is told the saved place only, never the configured one.       *)
ReadPlace(t) ==
  /\ Doing(t, "place")
  /\ req' = [req EXCEPT ![t] = [@ EXCEPT !.step = "model", !.place = place]]
  /\ UNCHANGED <<cacheVars, context, recording>>
(* The second look at the selected model decides who answers.                 *)
ReadModel(t) ==
  /\ Doing(t, "model")
  /\ req' = [req EXCEPT ![t] = [@ EXCEPT !.step = "history", !.model = Selected]]
  /\ UNCHANGED <<cacheVars, context, recording>>

History == Reverse(rows)

(* build_risk_result_from_prediction(): what is said about the data.          *)
Result(r, basis, required, degraded, late) ==
  LET stale == required /\ r.env.kind # "live" IN
  [basis |-> basis,
   quality |-> IF late THEN "stale" ELSE IF ~r.row.ok THEN "fault"
               ELSE IF stale THEN "stale" ELSE "ok",
   degraded |-> degraded \/ ~r.row.ok \/ stale]

Done(t, result) == req' = [req EXCEPT ![t] = [@ EXCEPT !.step = "answered", !.result = result]]

DefaultAnswer(t) ==
  /\ Doing(t, "history") /\ req[t].model = "default"
  /\ Done(t, Result(req[t], None, TRUE, ~ModelLoaded, FALSE))
  /\ UNCHANGED <<cacheVars, context, recording>>

(* Mutant of SessionAdmits: the hashes are not compared.                      *)
SessionAdmitsAny(s) == s # None => frozen[s] \in Scenarios

(* The scenario must be the one its session froze.                            *)
SessionAdmits(s) == s # None => frozen[s] = scenario

(* One step: the rows of the window and the session's snapshot no longer      *)
(* change, and the device's scenario is read once.                            *)
CustomServes(r) ==
  /\ r.row.ok /\ r.env.kind = "manual" /\ scenario # None
  /\ LiveWindowComplete(r.row, History, clock)
  /\ SessionAdmits(r.row.session)
CustomAnswer(t) ==
  /\ Doing(t, "history") /\ req[t].model = "custom"
  /\ IF CustomServes(req[t])
     THEN Done(t, Result(req[t], scenario, FALSE, TRUE, ~IsFresh(req[t].row, clock)))
     ELSE Refuse(t)
  /\ UNCHANGED <<cacheVars, context, recording>>

(* The profile the row's session froze, else the one of the device.           *)
ProfileOf(row) ==
  IF row.session # None /\ frozen[row.session] \in Artifacts THEN frozen[row.session] ELSE profile
OfficialAnswer(t) ==
  /\ Doing(t, "history") /\ req[t].model = "official"
  /\ IF req[t].row.ok /\ active # None /\ ProfileOf(req[t].row) = active
     THEN Done(t, Result(req[t], active, FALSE, TRUE, ~IsFresh(req[t].row, clock)))
     ELSE Refuse(t)
  /\ UNCHANGED <<cacheVars, context, recording>>

Respond(t) ==
  /\ req[t] # None /\ req[t].step \in {"shown", "answered", "refused"}
  /\ req' = [req EXCEPT ![t] = None]
  /\ UNCHANGED <<cacheVars, context, recording>>

Serve(t) ==
  \/ OfficialEnvironment(t) \/ CustomEnvironment(t) \/ DemoEnvironment(t)
  \/ AskEnvironment(t) \/ TakeEnvironment(t) \/ ReadPlace(t) \/ ReadModel(t)
  \/ DefaultAnswer(t) \/ CustomAnswer(t) \/ OfficialAnswer(t) \/ Respond(t)

Inside(t) == CacheStep(t) /\ UNCHANGED <<context, recording, req>>

Search(t, p) == req[t] = None /\ SearchPlaces(t, p) /\ UNCHANGED <<context, recording, req>>

Operate ==
  \/ \E p \in Places \ Searchable : SelectPreset(p)
  \/ \E m \in {"default", "custom", "official"} : SelectModel(m)
  \/ \E v \in Scenarios \cup {None} : SetScenario(v)
  \/ \E a \in Artifacts : Activate(a)
  \/ SaveProfile

Record ==
  \/ \E s \in Sessions : StartSession(s)
  \/ StopSession
  \/ \E ok \in BOOLEAN, gap \in {"none", "lost", "restart"} : Upload(ok, gap)

Next ==
  \/ \E t \in Threads :
       \/ BeginRisk(t) \/ BeginEnvironment(t) \/ Serve(t) \/ Inside(t) \/ SavePlace(t)
       \/ \E p \in Searchable : SelectPlace(t, p) \/ Search(t, p)
  \/ Operate \/ Record
  \/ Tick /\ UNCHANGED <<context, recording, req>>

Spec == Init /\ [][Next]_vars

-----------------------------------------------------------------------------
(* Properties *)

Answered(t) == Doing(t, "answered")

\* Weather that is not marked stale was less than the cache's ten minutes old
\* when the request arrived, however long the request then waited for the lock
\* behind other fetches (server/README.md:57), and only such weather and a
\* healthy frame give a risk, from the baseline, that is not marked degraded.
LiveIsFresh ==
  \A t \in Threads :
    /\ req[t] # None /\ req[t].env # None /\ req[t].env.kind = "live" =>
         req[t].begun - req[t].env.fetched < Ttl
    /\ Answered(t) /\ ~req[t].result.degraded =>
         req[t].model = "default" /\ req[t].row.ok /\ req[t].env.kind = "live"

\* The custom model is refused for its window exactly when the last rows up to
\* the one the request began with are not a whole fresh window: rows stored
\* since neither enter the window nor break it.
WholeWindow(row) ==
  LET first == row.id - Window + 1 IN
  /\ first >= 1
  /\ \A i \in first..row.id : IsFresh(rows[i], clock)
  /\ \A i \in first..row.id - 1 : Contiguous(rows[i], rows[i + 1])
WindowIsDecided ==
  \A t \in Threads : Doing(t, "history") =>
    /\ LiveWindowComplete(req[t].row, History, clock) <=> WholeWindow(req[t].row)
    /\ WholeWindow(req[t].row) =>
         \A i \in 1..Window : LiveWindow(req[t].row, History)[i] = rows[req[t].row.id - i + 1]

\* The basis of a custom answer for a row of a session is the scenario that
\* session froze, and of an official answer the artifact of the profile it froze,
\* whatever was changed since the session and between the reads.
FrozenContext ==
  \A t \in Threads : Answered(t) /\ req[t].row.session # None =>
    LET snapshot == frozen[req[t].row.session] IN
    req[t].model = "custom" \/ (req[t].model = "official" /\ snapshot \in Artifacts) =>
      req[t].result.basis = snapshot

\* While nothing is changed under a request, its environment is the one of the
\* model that answers.  For the baseline it is the weather of the place it is
\* told; a baseline that is told no place has the weather of the configured
\* location (server/README.md:42), or the demonstration where there is none.
QuietIsOfOneMoment ==
  \A t \in Threads : Answered(t) /\ req[t].quiet =>
    /\ req[t].model = Selected
    /\ IF req[t].model = "default"
       THEN req[t].env.place = IF req[t].place # None THEN req[t].place ELSE configured
       ELSE req[t].env.kind = "manual" /\ req[t].env.place = req[t].result.basis

\* Every request is answered, also those that wait for the lock behind a provider
\* that does not answer.
Serving(t) == req[t] # None
EveryRequestAnswered == \A t \in Threads : Serving(t) ~> ~Serving(t)
=============================================================================
