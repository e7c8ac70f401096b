-------------------------- MODULE SimulationStore --------------------------
(***************************************************************************)
(* server/app/simulation_store.py and the transaction of insert_telemetry  *)
(* in server/app/database.py: collection sessions, their samples, labels   *)
(* and scenario snapshots, kept in one SQLite database that the gateway    *)
(* and the main process share.                                             *)
(*                                                                         *)
(* sqlite3 opens a transaction at the first INSERT, UPDATE or DELETE of a  *)
(* connection.  The SELECTs an operation makes before it are transactions  *)
(* of their own, so such an operation is two actions of its worker: the    *)
(* checks, which leave a request behind, and the write, which sees         *)
(* whatever was committed in between.  Operations that write first         *)
(* (telemetry) or take the write lock first (delete) are one action.       *)
(***************************************************************************)
EXTENDS Naturals, FiniteSets

CONSTANTS
  Devices, Sessions, Seqs,
  Scenarios,      \* versions of an operator's scenario
  LabelNames,     \* what an interval may be labelled: safe, danger, unknown
  Workers,        \* threads of the two server processes that serve requests
  MaxRows,        \* bound: telemetry rows ever inserted
  None

ASSUME StoreAssumption ==
  /\ Seqs \subseteq Nat
  /\ MaxRows \in Nat
  /\ None \notin Devices \cup Sessions \cup Scenarios \cup Nat
  /\ "profile" \notin Scenarios \cup {None}

VARIABLES
  owner,           \* simulation_sessions.device_id, None when there is no row
  status,          \* simulation_sessions.state, "absent" when there is no row
  baseline,        \* the row whose distance became baseline_distance_mm
  snapshot,        \* the frozen simulation_scenarios row, or "profile" for the
                   \* frozen sensor profile of an official external test
  deviceScenario,  \* simulation_device_scenarios
  lastRow,         \* highest telemetry id
  telemetry,       \* telemetry rows
  samples,         \* samples[s]: simulation_samples rows of s
  labels,          \* labels[s]: simulation_labels rows of s (one version)
  referenced,      \* sessions an artifact, a test run or a profile was made from
  req              \* req[w]: the request whose checks worker w has made

session == <<owner, status, baseline, snapshot>>
rows == <<lastRow, telemetry, samples>>
db == <<session, deviceScenario, rows, labels, referenced>>
vars == <<owner, status, baseline, snapshot, deviceScenario, lastRow, telemetry,
          samples, labels, referenced, req>>

LabelRows == {l \in [lo : Seqs, hi : Seqs, label : LabelNames] : l.lo <= l.hi}

Requests ==
  [op : {"start"}, s : Sessions, d : Devices, official : BOOLEAN]
    \cup [op : {"stop"}, s : Sessions, d : Devices]
    \cup [op : {"scenario"}, d : Devices, to : Scenarios \cup {None}]
    \cup [op : {"label"}, s : Sessions, d : Devices, row : LabelRows]

Init ==
  /\ owner = [s \in Sessions |-> None]
  /\ status = [s \in Sessions |-> "absent"]
  /\ baseline = [s \in Sessions |-> None]
  /\ snapshot = [s \in Sessions |-> None]
  /\ deviceScenario = [d \in Devices |-> None]
  /\ lastRow = 0
  /\ telemetry = {}
  /\ samples = [s \in Sessions |-> {}]
  /\ labels = [s \in Sessions |-> {}]
  /\ referenced = {}
  /\ req = [w \in Workers |-> None]

Idle(w) == req[w] = None
Accept(w, r) == req' = [req EXCEPT ![w] = r] /\ UNCHANGED db
Pending(w, op) == req[w] # None /\ req[w].op = op
Done(w) == req' = [req EXCEPT ![w] = None]

HasActive(d) == \E s \in Sessions : owner[s] = d /\ status[s] = "active"

\* Commit or roll back with nothing written; also a busy database or the death
\* of the process between the checks and the write.
Abort(w) == ~Idle(w) /\ Done(w) /\ UNCHANGED db

\* start_simulation_session(), the checks.
StartCheck(w, s, d, official) ==
  /\ Idle(w)
  /\ ~HasActive(d)
  /\ status[s] = "absent"
  /\ deviceScenario[d] # None \/ official
  /\ Accept(w, [op |-> "start", s |-> s, d |-> d, official |-> official])

\* Mutant of StartCommit: no unique index on the device's active session.
StartCommitNoIndex(w) ==
  /\ Pending(w, "start")
  /\ LET s == req[w].s
         d == req[w].d
     IN  /\ status[s] = "absent"
         /\ owner' = [owner EXCEPT ![s] = d]
         /\ status' = [status EXCEPT ![s] = "active"]
         /\ snapshot' = [snapshot EXCEPT ![s] =
                           IF req[w].official THEN "profile" ELSE deviceScenario[d]]
  /\ Done(w)
  /\ UNCHANGED <<baseline, deviceScenario, rows, labels, referenced>>

\* start_simulation_session(), the write: the primary key and the unique index
\* on a device's active session decide; INSERT .. SELECT copies the device's
\* scenario if there still is one.
StartCommit(w) ==
  /\ Pending(w, "start")
  /\ LET s == req[w].s
         d == req[w].d
     IN  /\ status[s] = "absent"
         /\ ~HasActive(d)
         /\ owner' = [owner EXCEPT ![s] = d]
         /\ status' = [status EXCEPT ![s] = "active"]
         /\ snapshot' = [snapshot EXCEPT ![s] =
                           IF req[w].official THEN "profile" ELSE deviceScenario[d]]
  /\ Done(w)
  /\ UNCHANGED <<baseline, deviceScenario, rows, labels, referenced>>

\* stop_simulation_session(), the checks.
StopCheck(w, s, d) ==
  /\ Idle(w)
  /\ owner[s] = d /\ status[s] = "active"
  /\ Accept(w, [op |-> "stop", s |-> s, d |-> d])

\* stop_simulation_session(), the write: UPDATE .. WHERE state = 'active'.
StopCommit(w) ==
  /\ Pending(w, "stop")
  /\ owner[req[w].s] = req[w].d /\ status[req[w].s] = "active"
  /\ status' = [status EXCEPT ![req[w].s] = "completed"]
  /\ Done(w)
  /\ UNCHANGED <<owner, baseline, snapshot, deviceScenario, rows, labels, referenced>>

\* Mutant of ScenarioCheck: no look at the device's active session.
ScenarioCheckNothing(w, d, v) ==
  /\ Idle(w)
  /\ Accept(w, [op |-> "scenario", d |-> d, to |-> v])

\* upsert_device_simulation_scenario() and, to None, its delete: the check.
ScenarioCheck(w, d, v) ==
  /\ Idle(w)
  /\ ~HasActive(d)
  /\ Accept(w, [op |-> "scenario", d |-> d, to |-> v])

\* The upsert or the DELETE; deleting a row that is gone is a 404.
ScenarioCommit(w) ==
  /\ Pending(w, "scenario")
  /\ req[w].to = None => deviceScenario[req[w].d] # None
  /\ deviceScenario' = [deviceScenario EXCEPT ![req[w].d] = req[w].to]
  /\ Done(w)
  /\ UNCHANGED <<session, rows, labels, referenced>>

Covers(l, q) == l.lo <= q /\ q <= l.hi
Conflict(l, m) ==
  /\ ~(l.hi < m.lo \/ l.lo > m.hi)
  /\ ~(l.lo = m.lo /\ l.hi = m.hi)
  /\ l.label # m.label

\* Mutant of LabelCheck: does not look for conflicting intervals.
LabelCheckNoConflict(w, s, d, l) ==
  /\ Idle(w)
  /\ owner[s] = d /\ status[s] = "completed"
  /\ snapshot[s] \in Scenarios
  /\ \E r \in samples[s] : Covers(l, r.seq)
  /\ Accept(w, [op |-> "label", s |-> s, d |-> d, row |-> l])

\* upsert_simulation_label(), the checks.
LabelCheck(w, s, d, l) ==
  /\ Idle(w)
  /\ owner[s] = d /\ status[s] = "completed"
  /\ snapshot[s] \in Scenarios
  /\ \E r \in samples[s] : Covers(l, r.seq)
  /\ \A m \in labels[s] : ~Conflict(m, l)
  /\ Accept(w, [op |-> "label", s |-> s, d |-> d, row |-> l])

\* Mutant of LabelCommit: no foreign key to the session.
LabelCommitNoKey(w) ==
  /\ Pending(w, "label")
  /\ labels' = [labels EXCEPT ![req[w].s] = @ \cup {req[w].row}]
  /\ Done(w)
  /\ UNCHANGED <<session, deviceScenario, rows, referenced>>

\* The upsert on (start_seq, end_seq); the foreign key holds it to a session
\* of the device.
LabelCommit(w) ==
  /\ Pending(w, "label")
  /\ LET s == req[w].s
         l == req[w].row
     IN  /\ owner[s] = req[w].d
         /\ labels' = [labels EXCEPT ![s] =
                         {m \in @ : m.lo # l.lo \/ m.hi # l.hi} \cup {l}]
  /\ Done(w)
  /\ UNCHANGED <<session, deviceScenario, rows, referenced>>

\* INSERT INTO telemetry.
InsertRow(d, q, s) ==
  /\ lastRow < MaxRows
  /\ lastRow' = lastRow + 1
  /\ telemetry' = telemetry \cup {[id |-> lastRow + 1, device |-> d, seq |-> q, s |-> s]}

\* insert_telemetry() without a session id.
IngestPlain(d, q) ==
  /\ InsertRow(d, q, None)
  /\ UNCHANGED <<session, deviceScenario, samples, labels, referenced, req>>

\* The sample of that row.
AddSample(s, q, ultrasonicValid) ==
  samples' = [samples EXCEPT ![s] =
                @ \cup {[seq |-> q, row |-> lastRow + 1, valid |-> ultrasonicValid]}]

FreshSeq(s, q) == \A r \in samples[s] : r.seq # q

\* The first valid echo becomes the baseline: UPDATE .. WHERE baseline IS NULL.
KeepBaseline(s, ultrasonicValid) ==
  baseline' = IF baseline[s] = None /\ ultrasonicValid
                THEN [baseline EXCEPT ![s] = lastRow + 1] ELSE baseline

\* Mutant of IngestSample: the sample enters the session whatever its state.
IngestSampleLate(d, q, ultrasonicValid, s) ==
  /\ owner[s] = d
  /\ FreshSeq(s, q)
  /\ InsertRow(d, q, s) /\ AddSample(s, q, ultrasonicValid)
  /\ KeepBaseline(s, ultrasonicValid)
  /\ UNCHANGED <<owner, status, snapshot, deviceScenario, labels, referenced, req>>

\* insert_telemetry() with a session id: row, sample and baseline in one
\* transaction that rolls back when the session or the seq is refused.
IngestSample(d, q, ultrasonicValid, s) ==
  /\ owner[s] = d /\ status[s] = "active"
  /\ FreshSeq(s, q)
  /\ InsertRow(d, q, s) /\ AddSample(s, q, ultrasonicValid)
  /\ KeepBaseline(s, ultrasonicValid)
  /\ UNCHANGED <<owner, status, snapshot, deviceScenario, labels, referenced, req>>

\* The rows of session s go; its telemetry stays, detached.
Erase(s) ==
  /\ telemetry' = {IF r.s = s THEN [r EXCEPT !.s = None] ELSE r : r \in telemetry}
  /\ samples' = [samples EXCEPT ![s] = {}]
  /\ labels' = [labels EXCEPT ![s] = {}]
  /\ snapshot' = [snapshot EXCEPT ![s] = None]
  /\ baseline' = [baseline EXCEPT ![s] = None]
  /\ owner' = [owner EXCEPT ![s] = None]
  /\ status' = [status EXCEPT ![s] = "absent"]

\* delete_simulation_session(), under BEGIN IMMEDIATE: refused for a session
\* something was made from.
Delete(s) ==
  /\ status[s] = "completed"
  /\ s \notin referenced
  /\ Erase(s)
  /\ UNCHANGED <<lastRow, deviceScenario, referenced, req>>

\* A completed session with labelled rows becomes the source of a training
\* artifact; training and deletion exclude each other (SIMULATION_ARTIFACT_LOCK).
Train(s) ==
  /\ status[s] = "completed"
  /\ \E l \in labels[s], r \in samples[s] : Covers(l, r.seq)
  /\ referenced' = referenced \cup {s}
  /\ UNCHANGED <<session, deviceScenario, rows, labels, req>>

Request(w) ==
  \/ StartCommit(w) \/ StopCommit(w) \/ ScenarioCommit(w) \/ LabelCommit(w)
  \/ Abort(w)
  \/ \E d \in Devices, v \in Scenarios \cup {None} : ScenarioCheck(w, d, v)
  \/ \E s \in Sessions, d \in Devices :
       \/ \E official \in BOOLEAN : StartCheck(w, s, d, official)
       \/ StopCheck(w, s, d)
       \/ \E l \in LabelRows : LabelCheck(w, s, d, l)

Next ==
  \/ \E w \in Workers : Request(w)
  \/ \E s \in Sessions : Delete(s) \/ Train(s)
  \/ \E d \in Devices, q \in Seqs :
       \/ IngestPlain(d, q)
       \/ \E v \in BOOLEAN, s \in Sessions : IngestSample(d, q, v, s)

Spec == Init /\ [][Next]_vars

-----------------------------------------------------------------------------
(* Properties *)

SampleRows == [seq : Seqs, row : 1 .. MaxRows, valid : BOOLEAN]
TelemetryRows ==
  [id : 1 .. MaxRows, device : Devices, seq : Seqs, s : Sessions \cup {None}]

TypeOK ==
  /\ owner \in [Sessions -> Devices \cup {None}]
  /\ status \in [Sessions -> {"absent", "active", "completed"}]
  /\ baseline \in [Sessions -> 1 .. MaxRows \cup {None}]
  /\ snapshot \in [Sessions -> Scenarios \cup {"profile", None}]
  /\ deviceScenario \in [Devices -> Scenarios \cup {None}]
  /\ lastRow \in 0 .. MaxRows
  /\ telemetry \subseteq TelemetryRows
  /\ samples \in [Sessions -> SUBSET SampleRows]
  /\ labels \in [Sessions -> SUBSET LabelRows]
  /\ referenced \subseteq Sessions
  /\ req \in [Workers -> Requests \cup {None}]

\* However start, stop and delete requests of the two processes interleave, a
\* device has at most one session that is collecting.
OneActivePerDevice ==
  \A s, t \in Sessions :
    status[s] = "active" /\ status[t] = "active" /\ owner[s] = owner[t] => s = t

\* What a session holds hangs together with the session row: nothing survives
\* its deletion, and no write that was checked before it brings anything back.
NoOrphans ==
  \A s \in Sessions :
    /\ status[s] = "absent" <=> owner[s] = None
    /\ status[s] = "absent" =>
         /\ samples[s] = {} /\ labels[s] = {}
         /\ snapshot[s] = None /\ baseline[s] = None

\* Telemetry and samples agree: each sample has the telemetry row it came with,
\* of the session's own device, and each row that names a session is a sample
\* of it, even after a session of that id was deleted and started again.
LinkedRows ==
  \A s \in Sessions :
    /\ \A r \in samples[s] :
         [id |-> r.row, device |-> owner[s], seq |-> r.seq, s |-> s] \in telemetry
    /\ \A t \in telemetry : t.s = s => \E r \in samples[s] : r.row = t.id

\* The baseline of a session is its first valid echo in order of arrival, and
\* there is one as soon as there is a valid sample.
BaselineIsFirstValid ==
  \A s \in Sessions :
    LET valid == {r.row : r \in {x \in samples[s] : x.valid}}
    IN  /\ baseline[s] = None <=> valid = {}
        /\ baseline[s] # None =>
             baseline[s] \in valid /\ \A n \in valid : baseline[s] <= n

\* Something made from a session keeps its source: the session stays completed
\* and its labelled samples are not deleted.
SourcesKept == \A s \in referenced : status[s] = "completed" /\ samples[s] # {}

\* A completed session keeps its owner, samples, baseline and scenario until it
\* is deleted as a whole, whatever requests were checked while it was active.
CompletedStep ==
  \A s \in Sessions : status[s] = "completed" =>
    \/ status'[s] = "absent"
    \/ /\ status'[s] = "completed" /\ owner'[s] = owner[s]
       /\ samples'[s] = samples[s] /\ baseline'[s] = baseline[s]
       /\ snapshot'[s] = snapshot[s]
CompletedFrozen == [][CompletedStep]_vars

\* The store implements the atomic service.
Service == INSTANCE SessionService WITH
  data <- [s \in Sessions |-> {r.seq : r \in samples[s]}]
RefinesService == Service!SessionSpec

\* What makes the safety properties inductive together: row ids never exceed
\* the highest one given out.
IInv ==
  /\ TypeOK /\ OneActivePerDevice /\ NoOrphans /\ LinkedRows
  /\ BaselineIsFirstValid /\ SourcesKept
  /\ \A t \in telemetry : t.id <= lastRow

\* A session that collects has the scenario, or the sensor profile, it was
\* started with (simulation_store.py:455 "an operator-supplied device scenario
\* must be saved before collection starts").
SessionHasScenario == \A s \in Sessions : status[s] # "absent" => snapshot[s] # None

\* The scenario of a device does not change while a session of the device is
\* active (simulation_store.py:302 "the device scenario cannot change while
\* collection session .. is active").
ScenarioStep ==
  \A d \in Devices : HasActive(d) /\ HasActive(d)' => deviceScenario'[d] = deviceScenario[d]
ScenarioFrozenWhileActive == [][ScenarioStep]_vars

\* Overlapping intervals of a session carry the same label unless they are the
\* same interval (overview of 2026-08-14, line 247: "不同标签的重叠区间会被拒绝",
\* overlapping intervals with different labels are rejected).
NoConflictingLabels ==
  \A s \in Sessions : \A l, m \in labels[s] : ~Conflict(l, m)

\* A labelled session is completed, has a scenario, and each of its intervals
\* holds a sample.
LabelsHaveSamples ==
  \A s \in Sessions : \A l \in labels[s] :
    /\ status[s] = "completed" /\ snapshot[s] \in Scenarios
    /\ \E r \in samples[s] : Covers(l, r.seq)
=============================================================================
