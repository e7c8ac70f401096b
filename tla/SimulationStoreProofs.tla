------------------------ MODULE SimulationStoreProofs ------------------------
(***************************************************************************)
(* Proofs, for any devices, sessions and server threads, of the safety     *)
(* properties of SimulationStore and of its refinement of the atomic       *)
(* session service; and of what MCSimulationStore says of a request that   *)
(* is alone.  Then, for any number of sessions, that the display of the    *)
(* ESP32 is true of the server and that no press is forgotten, when no     *)
(* press falls between the two critical sections in which a recovery is    *)
(* applied.                                                                *)
(***************************************************************************)
EXTENDS MCSimulationStore, CollectionLink, TLAPS

\* The initial database satisfies the inductive invariant.
THEOREM InitIInv == Init => IInv
<1> SUFFICES ASSUME Init PROVE IInv
  OBVIOUS
<1> USE StoreAssumption DEF Init
<1>1. TypeOK
  BY DEF TypeOK
<1>2. OneActivePerDevice /\ NoOrphans /\ LinkedRows /\ SourcesKept
  BY DEF OneActivePerDevice, NoOrphans, LinkedRows, SourcesKept
<1>3. BaselineIsFirstValid
  BY DEF BaselineIsFirstValid
<1>4. \A t \in telemetry : t.id <= lastRow
  OBVIOUS
<1> QED
  BY <1>1, <1>2, <1>3, <1>4 DEF IInv

\* A step that leaves the database alone keeps the invariant, as long as the
\* requests stay requests.
LEMMA OnlyRequests ==
  ASSUME IInv, UNCHANGED db, req' \in [Workers -> Requests \cup {None}]
  PROVE  IInv'
<1> USE DEF IInv, db, session, rows
<1>1. TypeOK'
  BY DEF TypeOK
<1>2. OneActivePerDevice' /\ NoOrphans' /\ LinkedRows' /\ SourcesKept'
  BY DEF OneActivePerDevice, NoOrphans, LinkedRows, SourcesKept
<1>3. BaselineIsFirstValid'
  BY DEF BaselineIsFirstValid
<1> QED
  BY <1>1, <1>2, <1>3

\* What a pending request is, by its kind.
LEMMA PendingShape ==
  ASSUME TypeOK, NEW w \in Workers, NEW op, Pending(w, op)
  PROVE  /\ req[w] \in Requests
         /\ op = "start" => req[w].s \in Sessions /\ req[w].d \in Devices
         /\ op = "stop" => req[w].s \in Sessions /\ req[w].d \in Devices
         /\ op = "scenario" => req[w].d \in Devices /\ req[w].to \in Scenarios \cup {None}
         /\ op = "label" => /\ req[w].s \in Sessions /\ req[w].d \in Devices
                            /\ req[w].row \in LabelRows
<1>1. req[w] \in Requests
  BY DEF TypeOK, Pending
<1> QED
  BY <1>1 DEF Requests, Pending

\* Finishing a request leaves an idle worker.
LEMMA DoneType ==
  ASSUME TypeOK, NEW w \in Workers, Done(w)
  PROVE  req' \in [Workers -> Requests \cup {None}]
BY DEF TypeOK, Done

\* start_simulation_session() inserts the one active session of its device.
LEMMA StartPreserves ==
  ASSUME IInv, NEW w \in Workers, StartCommit(w)
  PROVE  IInv'
<1> DEFINE s == req[w].s
           d == req[w].d
<1> USE StoreAssumption DEF IInv
<1>1. s \in Sessions /\ d \in Devices
  BY PendingShape DEF StartCommit
<1>2. /\ status[s] = "absent" /\ ~HasActive(d)
      /\ owner' = [owner EXCEPT ![s] = d]
      /\ status' = [status EXCEPT ![s] = "active"]
      /\ \E x \in Scenarios \cup {"profile", None} : snapshot' = [snapshot EXCEPT ![s] = x]
      /\ UNCHANGED <<baseline, deviceScenario, rows, labels, referenced>>
  BY <1>1 DEF StartCommit, TypeOK
<1>3. req' \in [Workers -> Requests \cup {None}]
  BY DoneType DEF StartCommit
<1> HIDE DEF s, d
<1>4. TypeOK'
  BY <1>1, <1>2, <1>3 DEF TypeOK, rows
<1>5. OneActivePerDevice'
  BY <1>1, <1>2 DEF TypeOK, OneActivePerDevice, HasActive
<1>6. NoOrphans'
  BY <1>1, <1>2 DEF TypeOK, NoOrphans, rows
<1>7. LinkedRows'
  BY <1>1, <1>2 DEF TypeOK, LinkedRows, NoOrphans, rows
<1>8. BaselineIsFirstValid'
  BY <1>2 DEF BaselineIsFirstValid, rows
<1>9. SourcesKept'
  BY <1>1, <1>2 DEF TypeOK, SourcesKept, rows
<1> QED
  BY <1>2, <1>4, <1>5, <1>6, <1>7, <1>8, <1>9 DEF rows

\* stop_simulation_session() completes an active session of its device.
LEMMA StopPreserves ==
  ASSUME IInv, NEW w \in Workers, StopCommit(w)
  PROVE  IInv'
<1> DEFINE s == req[w].s
<1> USE StoreAssumption DEF IInv
<1>1. s \in Sessions /\ req[w].d \in Devices
  BY PendingShape DEF StopCommit
<1>2. /\ owner[s] \in Devices /\ status[s] = "active"
      /\ status' = [status EXCEPT ![s] = "completed"]
      /\ UNCHANGED <<owner, baseline, snapshot, deviceScenario, rows, labels, referenced>>
  BY <1>1 DEF StopCommit
<1>3. req' \in [Workers -> Requests \cup {None}]
  BY DoneType DEF StopCommit
<1> HIDE DEF s
<1>4. TypeOK'
  BY <1>1, <1>2, <1>3 DEF TypeOK, rows
<1>5. OneActivePerDevice' /\ NoOrphans' /\ SourcesKept'
  BY <1>1, <1>2 DEF TypeOK, OneActivePerDevice, NoOrphans, SourcesKept, rows
<1>6. LinkedRows'
  BY <1>2 DEF LinkedRows, rows
<1>7. BaselineIsFirstValid'
  BY <1>2 DEF BaselineIsFirstValid, rows
<1> QED
  BY <1>2, <1>4, <1>5, <1>6, <1>7 DEF rows

\* A scenario write touches nothing that belongs to a session.
LEMMA ScenarioPreserves ==
  ASSUME IInv, NEW w \in Workers, ScenarioCommit(w)
  PROVE  IInv'
<1> USE DEF IInv
<1>1. /\ req[w].d \in Devices /\ req[w].to \in Scenarios \cup {None}
      /\ deviceScenario' = [deviceScenario EXCEPT ![req[w].d] = req[w].to]
      /\ UNCHANGED <<session, rows, labels, referenced>>
  BY PendingShape DEF ScenarioCommit
<1>2. req' \in [Workers -> Requests \cup {None}]
  BY DoneType DEF ScenarioCommit
<1>3. TypeOK'
  BY <1>1, <1>2 DEF TypeOK, session, rows
<1>4. OneActivePerDevice' /\ NoOrphans' /\ LinkedRows' /\ SourcesKept'
  BY <1>1 DEF OneActivePerDevice, NoOrphans, LinkedRows, SourcesKept, session, rows
<1>5. BaselineIsFirstValid'
  BY <1>1 DEF BaselineIsFirstValid, session, rows
<1> QED
  BY <1>1, <1>3, <1>4, <1>5 DEF session, rows

\* A label is written to a session of the device or not at all.
LEMMA LabelPreserves ==
  ASSUME IInv, NEW w \in Workers, LabelCommit(w)
  PROVE  IInv'
<1> DEFINE s == req[w].s
           l == req[w].row
<1> USE StoreAssumption DEF IInv
<1>1. s \in Sessions /\ req[w].d \in Devices /\ l \in LabelRows
  BY PendingShape DEF LabelCommit
<1>2. /\ owner[s] \in Devices
      /\ labels' = [labels EXCEPT ![s] =
                      {m \in labels[s] : m.lo # l.lo \/ m.hi # l.hi} \cup {l}]
      /\ UNCHANGED <<session, deviceScenario, rows, referenced>>
  BY <1>1 DEF LabelCommit
<1>3. req' \in [Workers -> Requests \cup {None}]
  BY DoneType DEF LabelCommit
<1> HIDE DEF s, l
<1>4. TypeOK'
  <2>1. labels' \in [Sessions -> SUBSET LabelRows]
    BY <1>1, <1>2 DEF TypeOK
  <2> QED
    BY <2>1, <1>2, <1>3 DEF TypeOK, session, rows
<1>5. NoOrphans'
  BY <1>1, <1>2 DEF TypeOK, NoOrphans, session, rows
<1>6. OneActivePerDevice' /\ LinkedRows' /\ SourcesKept'
  BY <1>2 DEF OneActivePerDevice, LinkedRows, SourcesKept, session, rows
<1>7. BaselineIsFirstValid'
  BY <1>2 DEF BaselineIsFirstValid, session, rows
<1> QED
  BY <1>2, <1>4, <1>5, <1>6, <1>7 DEF rows

\* A telemetry row without a session gets a fresh id.
LEMMA PlainPreserves ==
  ASSUME IInv, NEW d \in Devices, NEW q \in Seqs, IngestPlain(d, q)
  PROVE  IInv'
<1> DEFINE t == [id |-> lastRow + 1, device |-> d, seq |-> q, s |-> None]
<1> USE StoreAssumption DEF IInv
<1>1. /\ lastRow \in 0 .. MaxRows /\ lastRow < MaxRows /\ lastRow' = lastRow + 1
      /\ telemetry' = telemetry \cup {t}
      /\ UNCHANGED <<session, deviceScenario, samples, labels, referenced, req>>
  BY DEF IngestPlain, InsertRow, TypeOK
<1>2. t \in TelemetryRows /\ t.s \notin Sessions /\ t.id = lastRow + 1
  BY <1>1 DEF TelemetryRows
<1> HIDE DEF t
<1>3. TypeOK'
  BY <1>1, <1>2 DEF TypeOK, session
<1>4. OneActivePerDevice' /\ NoOrphans' /\ SourcesKept'
  BY <1>1 DEF OneActivePerDevice, NoOrphans, SourcesKept, session
<1>5. LinkedRows'
  BY <1>1, <1>2 DEF LinkedRows, session
<1>6. BaselineIsFirstValid'
  BY <1>1 DEF BaselineIsFirstValid, session
<1>7. \A r \in telemetry' : r.id <= lastRow'
  BY <1>1, <1>2 DEF TypeOK, TelemetryRows
<1> QED
  BY <1>3, <1>4, <1>5, <1>6, <1>7

\* insert_telemetry() with a session: the new row is younger than every sample.
LEMMA SamplePreserves ==
  ASSUME IInv, NEW d \in Devices, NEW q \in Seqs, NEW v \in BOOLEAN, NEW s \in Sessions,
         IngestSample(d, q, v, s)
  PROVE  IInv'
<1> DEFINE t == [id |-> lastRow + 1, device |-> d, seq |-> q, s |-> s]
           r0 == [seq |-> q, row |-> lastRow + 1, valid |-> v]
<1> USE StoreAssumption DEF IInv
<1>1. /\ lastRow \in 0 .. MaxRows /\ lastRow < MaxRows /\ lastRow' = lastRow + 1
      /\ telemetry' = telemetry \cup {t}
      /\ samples' = [samples EXCEPT ![s] = samples[s] \cup {r0}]
      /\ owner[s] = d /\ status[s] = "active"
      /\ baseline' = IF baseline[s] = None /\ v
                       THEN [baseline EXCEPT ![s] = lastRow + 1] ELSE baseline
      /\ UNCHANGED <<owner, status, snapshot, deviceScenario, labels, referenced, req>>
  BY DEF IngestSample, InsertRow, AddSample, KeepBaseline, TypeOK
<1>2. t \in TelemetryRows /\ t.s = s /\ t.id = lastRow + 1
  BY <1>1 DEF TelemetryRows
<1>3. r0 \in SampleRows /\ r0.row = lastRow + 1 /\ r0.seq = q /\ (r0.valid <=> v)
  BY <1>1 DEF SampleRows
<1>4. t = [id |-> r0.row, device |-> owner'[s], seq |-> r0.seq, s |-> s]
  BY <1>1
<1> HIDE DEF t, r0
<1>5. samples' \in [Sessions -> SUBSET SampleRows]
  BY <1>1, <1>3 DEF TypeOK
<1>6. baseline' \in [Sessions -> 1 .. MaxRows \cup {None}]
  BY <1>1 DEF TypeOK
<1>7. TypeOK'
  BY <1>1, <1>2, <1>5, <1>6 DEF TypeOK
<1>8. OneActivePerDevice'
  BY <1>1 DEF OneActivePerDevice
<1>9. NoOrphans'
  BY <1>1 DEF NoOrphans, TypeOK
<1>10. SourcesKept'
  BY <1>1 DEF SourcesKept, TypeOK
<1>11. LinkedRows'
  <2> SUFFICES ASSUME NEW x \in Sessions
               PROVE  /\ \A r \in samples'[x] :
                           [id |-> r.row, device |-> owner'[x], seq |-> r.seq, s |-> x] \in telemetry'
                      /\ \A y \in telemetry' : y.s = x => \E r \in samples'[x] : r.row = y.id
    BY DEF LinkedRows
  <2>1. CASE x = s
    BY <2>1, <1>1, <1>2, <1>3, <1>4 DEF LinkedRows, TypeOK
  <2>2. CASE x # s
    BY <2>2, <1>1, <1>2 DEF LinkedRows, TypeOK
  <2> QED
    BY <2>1, <2>2
<1>12. BaselineIsFirstValid'
  <2> SUFFICES ASSUME NEW x \in Sessions
               PROVE  /\ baseline'[x] = None <=> {r.row : r \in {y \in samples'[x] : y.valid}} = {}
                      /\ baseline'[x] # None =>
                           /\ baseline'[x] \in {r.row : r \in {y \in samples'[x] : y.valid}}
                           /\ \A n \in {r.row : r \in {y \in samples'[x] : y.valid}} : baseline'[x] <= n
    BY DEF BaselineIsFirstValid
  <2>1. \A r \in samples[x] : r.row <= lastRow /\ r.row \in Nat
    <3> SUFFICES ASSUME NEW r \in samples[x] PROVE r.row <= lastRow /\ r.row \in Nat
      OBVIOUS
    <3>1. [id |-> r.row, device |-> owner[x], seq |-> r.seq, s |-> x] \in telemetry
      BY DEF LinkedRows
    <3>2. r \in SampleRows
      BY DEF TypeOK
    <3> QED
      BY <3>1, <3>2 DEF SampleRows
  <2>2. CASE x # s
    BY <2>2, <1>1 DEF BaselineIsFirstValid, TypeOK
  <2>3. CASE x = s /\ ~v
    <3>1. {y \in samples'[x] : y.valid} = {y \in samples[x] : y.valid} /\ baseline' = baseline
      BY <2>3, <1>1, <1>3 DEF TypeOK
    <3> QED
      BY <3>1 DEF BaselineIsFirstValid
  <2>4. CASE x = s /\ v
    <3>1. {r.row : r \in {y \in samples'[x] : y.valid}} =
            {r.row : r \in {y \in samples[x] : y.valid}} \cup {lastRow + 1}
      BY <2>4, <1>1, <1>3 DEF TypeOK
    <3>2. CASE baseline[s] = None
      <4>1. {r.row : r \in {y \in samples[x] : y.valid}} = {}
        BY <2>4, <3>2 DEF BaselineIsFirstValid
      <4>2. baseline'[x] = lastRow + 1
        BY <2>4, <3>2, <1>1 DEF TypeOK
      <4> QED
        BY <3>1, <4>1, <4>2, <1>1
    <3>3. CASE baseline[s] # None
      <4>1. baseline'[x] = baseline[x] /\ baseline[x] \in {r.row : r \in {y \in samples[x] : y.valid}}
        BY <2>4, <3>3, <1>1 DEF BaselineIsFirstValid, TypeOK
      <4>2. baseline[x] <= lastRow + 1
        BY <4>1, <2>1, <1>1
      <4> QED
        BY <2>4, <3>1, <3>3, <4>1, <4>2 DEF BaselineIsFirstValid
    <3> QED
      BY <3>2, <3>3
  <2> QED
    BY <2>2, <2>3, <2>4
<1>13. \A r \in telemetry' : r.id <= lastRow'
  BY <1>1, <1>2 DEF TypeOK, TelemetryRows
<1> QED
  BY <1>7, <1>8, <1>9, <1>10, <1>11, <1>12, <1>13

\* delete_simulation_session() removes a session with all that is its own.
LEMMA DeletePreserves ==
  ASSUME IInv, NEW s \in Sessions, Delete(s)
  PROVE  IInv'
<1> DEFINE detached(r) == IF r.s = s THEN [r EXCEPT !.s = None] ELSE r
<1> USE StoreAssumption DEF IInv
<1>1. /\ s \notin referenced
      /\ telemetry' = {detached(r) : r \in telemetry}
      /\ samples' = [samples EXCEPT ![s] = {}]
      /\ labels' = [labels EXCEPT ![s] = {}]
      /\ snapshot' = [snapshot EXCEPT ![s] = None]
      /\ baseline' = [baseline EXCEPT ![s] = None]
      /\ owner' = [owner EXCEPT ![s] = None]
      /\ status' = [status EXCEPT ![s] = "absent"]
      /\ UNCHANGED <<lastRow, deviceScenario, referenced, req>>
  BY DEF Delete, Erase
<1>2. \A r \in telemetry :
        /\ detached(r) \in TelemetryRows
        /\ detached(r).id = r.id
        /\ detached(r).s # s
        /\ r.s # s => detached(r) = r
        /\ r.s = s => detached(r).s \notin Sessions
  BY DEF TypeOK, TelemetryRows
<1> HIDE DEF detached
<1>3. TypeOK'
  <2>1. telemetry' \subseteq TelemetryRows
    BY <1>1, <1>2
  <2> QED
    BY <1>1, <2>1 DEF TypeOK
<1>4. OneActivePerDevice'
  BY <1>1 DEF OneActivePerDevice, TypeOK
<1>5. NoOrphans'
  BY <1>1 DEF NoOrphans, TypeOK
<1>6. SourcesKept'
  BY <1>1 DEF SourcesKept, TypeOK
<1>7. LinkedRows'
  <2> SUFFICES ASSUME NEW x \in Sessions
               PROVE  /\ \A r \in samples'[x] :
                           [id |-> r.row, device |-> owner'[x], seq |-> r.seq, s |-> x] \in telemetry'
                      /\ \A y \in telemetry' : y.s = x => \E r \in samples'[x] : r.row = y.id
    BY DEF LinkedRows
  <2>1. CASE x = s
    BY <2>1, <1>1, <1>2 DEF TypeOK
  <2>2. CASE x # s
    <3>1. samples'[x] = samples[x] /\ owner'[x] = owner[x]
      BY <2>2, <1>1 DEF TypeOK
    <3>2. \A t \in telemetry : t.s = x => t \in telemetry'
      BY <2>2, <1>1, <1>2
    <3>3. \A t \in telemetry' : t.s = x => t \in telemetry
      BY <2>2, <1>1, <1>2
    <3> QED
      BY <3>1, <3>2, <3>3 DEF LinkedRows
  <2> QED
    BY <2>1, <2>2
<1>8. BaselineIsFirstValid'
  <2> SUFFICES ASSUME NEW x \in Sessions
               PROVE  LET valid == {r.row : r \in {y \in samples'[x] : y.valid}}
                      IN  /\ baseline'[x] = None <=> valid = {}
                          /\ baseline'[x] # None =>
                               baseline'[x] \in valid /\ \A n \in valid : baseline'[x] <= n
    BY DEF BaselineIsFirstValid
  <2>1. CASE x = s
    <3>1. samples'[x] = {} /\ baseline'[x] = None
      BY <2>1, <1>1 DEF TypeOK
    <3> QED
      BY <3>1
  <2>2. CASE x # s
    <3>1. samples'[x] = samples[x] /\ baseline'[x] = baseline[x]
      BY <2>2, <1>1 DEF TypeOK
    <3> QED
      BY <3>1 DEF BaselineIsFirstValid
  <2> QED
    BY <2>1, <2>2
<1>9. \A r \in telemetry' : r.id <= lastRow'
  BY <1>1, <1>2
<1> QED
  BY <1>3, <1>4, <1>5, <1>6, <1>7, <1>8, <1>9

\* Training only adds a completed session with samples to the sources.
LEMMA TrainPreserves ==
  ASSUME IInv, NEW s \in Sessions, Train(s)
  PROVE  IInv'
<1> USE DEF IInv
<1>1. /\ status[s] = "completed" /\ samples[s] # {}
      /\ referenced' = referenced \cup {s}
      /\ UNCHANGED <<session, deviceScenario, rows, labels, req>>
  BY DEF Train
<1>2. TypeOK'
  BY <1>1 DEF TypeOK, session, rows
<1>3. OneActivePerDevice' /\ NoOrphans' /\ LinkedRows' /\ SourcesKept'
  BY <1>1 DEF OneActivePerDevice, NoOrphans, LinkedRows, SourcesKept, session, rows
<1>4. BaselineIsFirstValid'
  BY <1>1 DEF BaselineIsFirstValid, session, rows
<1> QED
  BY <1>1, <1>2, <1>3, <1>4 DEF rows

\* Checks of a request and its end without a write.
LEMMA RequestOnly ==
  ASSUME IInv, NEW w \in Workers
  PROVE  /\ Abort(w) => IInv' /\ UNCHANGED db
         /\ \A d \in Devices, v \in Scenarios \cup {None} :
              ScenarioCheck(w, d, v) => IInv' /\ UNCHANGED db
         /\ \A s \in Sessions, d \in Devices :
              /\ \A official \in BOOLEAN : StartCheck(w, s, d, official) => IInv' /\ UNCHANGED db
              /\ StopCheck(w, s, d) => IInv' /\ UNCHANGED db
              /\ \A l \in LabelRows : LabelCheck(w, s, d, l) => IInv' /\ UNCHANGED db
<1>1. \A r \in Requests : Accept(w, r) => IInv' /\ UNCHANGED db
  <2> SUFFICES ASSUME NEW r \in Requests, Accept(w, r) PROVE IInv' /\ UNCHANGED db
    OBVIOUS
  <2>1. UNCHANGED db /\ req' \in [Workers -> Requests \cup {None}]
    BY DEF Accept, IInv, TypeOK
  <2> QED
    BY <2>1, OnlyRequests
<1>2. Abort(w) => IInv' /\ UNCHANGED db
  BY DoneType, OnlyRequests DEF Abort, IInv
<1>3. ASSUME NEW d \in Devices, NEW v \in Scenarios \cup {None}, ScenarioCheck(w, d, v)
      PROVE  IInv' /\ UNCHANGED db
  BY <1>1, <1>3 DEF ScenarioCheck, Requests
<1>4. ASSUME NEW s \in Sessions, NEW d \in Devices, NEW official \in BOOLEAN,
             StartCheck(w, s, d, official)
      PROVE  IInv' /\ UNCHANGED db
  BY <1>1, <1>4 DEF StartCheck, Requests
<1>5. ASSUME NEW s \in Sessions, NEW d \in Devices, StopCheck(w, s, d)
      PROVE  IInv' /\ UNCHANGED db
  BY <1>1, <1>5 DEF StopCheck, Requests
<1>6. ASSUME NEW s \in Sessions, NEW d \in Devices, NEW l \in LabelRows, LabelCheck(w, s, d, l)
      PROVE  IInv' /\ UNCHANGED db
  BY <1>1, <1>6 DEF LabelCheck, Requests
<1> QED
  BY <1>2, <1>3, <1>4, <1>5, <1>6

\* Every step keeps the inductive invariant.
THEOREM NextIInv == IInv /\ [Next]_vars => IInv'
<1> SUFFICES ASSUME IInv, [Next]_vars PROVE IInv'
  OBVIOUS
<1>1. CASE UNCHANGED vars
  BY <1>1, OnlyRequests DEF vars, db, session, rows, IInv, TypeOK
<1>2. ASSUME NEW w \in Workers, Request(w) PROVE IInv'
  BY <1>2, StartPreserves, StopPreserves, ScenarioPreserves, LabelPreserves, RequestOnly
  DEF Request
<1>3. ASSUME NEW s \in Sessions, Delete(s) \/ Train(s) PROVE IInv'
  BY <1>3, DeletePreserves, TrainPreserves
<1>4. ASSUME NEW d \in Devices, NEW q \in Seqs, IngestPlain(d, q) PROVE IInv'
  BY <1>4, PlainPreserves
<1>5. ASSUME NEW d \in Devices, NEW q \in Seqs, NEW v \in BOOLEAN, NEW s \in Sessions,
             IngestSample(d, q, v, s)
      PROVE  IInv'
  BY <1>5, SamplePreserves
<1> QED
  BY <1>1, <1>2, <1>3, <1>4, <1>5 DEF Next

\* The invariant holds in every reachable state.
THEOREM Invariance == Spec => []IInv
BY InitIInv, NextIInv, PTL DEF Spec

\* Type correctness of the store.
THEOREM TypeCorrect == Spec => []TypeOK
<1>1. IInv => TypeOK
  BY DEF IInv
<1> QED
  BY <1>1, Invariance, PTL

\* No interleaving of requests gives a device two active sessions.
THEOREM OneActive == Spec => []OneActivePerDevice
<1>1. IInv => OneActivePerDevice
  BY DEF IInv
<1> QED
  BY <1>1, Invariance, PTL

\* Nothing of a session outlives its row.
THEOREM NothingOrphaned == Spec => []NoOrphans
<1>1. IInv => NoOrphans
  BY DEF IInv
<1> QED
  BY <1>1, Invariance, PTL

\* Samples and the telemetry rows that name their session correspond.
THEOREM RowsStayLinked == Spec => []LinkedRows
<1>1. IInv => LinkedRows
  BY DEF IInv
<1> QED
  BY <1>1, Invariance, PTL

\* The baseline is the first valid sample to arrive.
THEOREM FirstValidBaseline == Spec => []BaselineIsFirstValid
<1>1. IInv => BaselineIsFirstValid
  BY DEF IInv
<1> QED
  BY <1>1, Invariance, PTL

\* The sources of an artifact stay.
THEOREM SourcesStay == Spec => []SourcesKept
<1>1. IInv => SourcesKept
  BY DEF IInv
<1> QED
  BY <1>1, Invariance, PTL

\* Every step of the store is a step of the atomic service or none.
THEOREM StepRefines == IInv /\ [Next]_vars => [Service!SessionNext]_(Service!svars)
<1> DEFINE data(S) == [s \in Sessions |-> {r.seq : r \in S[s]}]
<1> SUFFICES ASSUME IInv, [Next]_vars
             PROVE  Service!SessionNext \/ UNCHANGED Service!svars
  OBVIOUS
<1> USE StoreAssumption DEF IInv
<1>1. CASE UNCHANGED <<owner, status, samples>>
  BY <1>1 DEF Service!svars
<1>2. ASSUME NEW w \in Workers, StartCommit(w)
      PROVE  Service!SessionNext
  <2>1. req[w].s \in Sessions /\ req[w].d \in Devices
    BY <1>2, PendingShape DEF StartCommit
  <2>2. Service!StartSession(req[w].s, req[w].d)
    BY <1>2, <2>1 DEF StartCommit, HasActive, rows, Service!StartSession, Service!Open
  <2> QED
    BY <2>1, <2>2 DEF Service!SessionNext
<1>3. ASSUME NEW w \in Workers, StopCommit(w)
      PROVE  Service!SessionNext
  <2>1. req[w].s \in Sessions /\ req[w].d \in Devices
    BY <1>3, PendingShape DEF StopCommit
  <2>2. Service!CompleteSession(req[w].s, req[w].d)
    BY <1>3, <2>1 DEF StopCommit, rows, Service!CompleteSession, Service!Open
  <2> QED
    BY <2>1, <2>2 DEF Service!SessionNext
<1>4. ASSUME NEW s \in Sessions, Delete(s)
      PROVE  Service!SessionNext
  <2>1. data(samples') = [data(samples) EXCEPT ![s] = {}]
    <3>1. ASSUME NEW x \in Sessions
          PROVE  {r.seq : r \in samples'[x]} = IF x = s THEN {} ELSE {r.seq : r \in samples[x]}
      BY <1>4 DEF Delete, Erase, TypeOK
    <3> QED
      BY <3>1
  <2>2. Service!DeleteSession(s)
    BY <1>4, <2>1 DEF Delete, Erase, Service!DeleteSession
  <2> QED
    BY <2>2 DEF Service!SessionNext
<1>5. ASSUME NEW d \in Devices, NEW q \in Seqs, NEW v \in BOOLEAN, NEW s \in Sessions,
             IngestSample(d, q, v, s)
      PROVE  Service!SessionNext
  <2>1. /\ owner[s] = d /\ status[s] = "active" /\ FreshSeq(s, q)
        /\ UNCHANGED <<owner, status>>
        /\ \E r0 : r0.seq = q /\ samples' = [samples EXCEPT ![s] = samples[s] \cup {r0}]
    BY <1>5 DEF IngestSample, AddSample
  <2>2. q \notin data(samples)[s]
    BY <2>1 DEF FreshSeq
  <2>3. data(samples') = [data(samples) EXCEPT ![s] = @ \cup {q}]
    <3>1. ASSUME NEW x \in Sessions
          PROVE  {r.seq : r \in samples'[x]} =
                   IF x = s THEN {r.seq : r \in samples[x]} \cup {q} ELSE {r.seq : r \in samples[x]}
      BY <2>1 DEF TypeOK
    <3> QED
      BY <3>1
  <2>4. Service!AppendSample(s, d, q)
    BY <2>1, <2>2, <2>3 DEF Service!AppendSample, Service!Open
  <2> QED
    BY <2>4 DEF Service!SessionNext
<1>6. ASSUME NEW w \in Workers, Request(w)
      PROVE  Service!SessionNext \/ UNCHANGED <<owner, status, samples>>
  BY <1>2, <1>3, <1>6, RequestOnly
  DEF Request, ScenarioCommit, LabelCommit, db, session, rows
<1>7. ASSUME NEW s \in Sessions, Train(s)
      PROVE  UNCHANGED <<owner, status, samples>>
  BY <1>7 DEF Train, session, rows
<1>8. ASSUME NEW d \in Devices, NEW q \in Seqs, IngestPlain(d, q)
      PROVE  UNCHANGED <<owner, status, samples>>
  BY <1>8 DEF IngestPlain, session
<1> QED
  BY <1>1, <1>4, <1>5, <1>6, <1>7, <1>8 DEF Next, vars

\* The store, with its checks and writes apart, implements the atomic service.
THEOREM ImplementsService == Spec => RefinesService
<1>1. Init => Service!SessionInit
  BY DEF Init, Service!SessionInit
<1> QED
  BY <1>1, StepRefines, Invariance, PTL DEF Spec, RefinesService, Service!SessionSpec

\* A completed session never changes before it is deleted.
THEOREM CompletedStaysFrozen == Spec => CompletedFrozen
<1>1. IInv /\ [Next]_vars => CompletedStep
  <2> SUFFICES ASSUME IInv, [Next]_vars, NEW s \in Sessions, status[s] = "completed"
               PROVE  \/ status'[s] = "absent"
                      \/ /\ status'[s] = "completed" /\ owner'[s] = owner[s]
                         /\ samples'[s] = samples[s] /\ baseline'[s] = baseline[s]
                         /\ snapshot'[s] = snapshot[s]
    BY DEF CompletedStep
  <2> USE StoreAssumption DEF IInv
  <2>1. CASE UNCHANGED <<session, samples>>
    BY <2>1 DEF session
  <2>2. ASSUME NEW w \in Workers, StartCommit(w)
        PROVE  UNCHANGED <<owner[s], status[s], samples, baseline, snapshot[s]>>
    <3>1. req[w].s \in Sessions /\ req[w].s # s
      BY <2>2, PendingShape DEF StartCommit
    <3> QED
      BY <2>2, <3>1 DEF StartCommit, rows, TypeOK
  <2>3. ASSUME NEW w \in Workers, StopCommit(w)
        PROVE  UNCHANGED <<owner, status[s], samples, baseline, snapshot>>
    <3>1. req[w].s \in Sessions /\ req[w].s # s
      BY <2>3, PendingShape DEF StopCommit
    <3> QED
      BY <2>3, <3>1 DEF StopCommit, rows, TypeOK
  <2>4. ASSUME NEW x \in Sessions, Delete(x)
        PROVE  \/ status'[s] = "absent"
               \/ UNCHANGED <<owner[s], status[s], samples[s], baseline[s], snapshot[s]>>
    BY <2>4 DEF Delete, Erase, TypeOK
  <2>5. ASSUME NEW d \in Devices, NEW q \in Seqs, NEW v \in BOOLEAN, NEW x \in Sessions,
               IngestSample(d, q, v, x)
        PROVE  UNCHANGED <<owner, status, samples[s], baseline[s], snapshot>>
    <3>1. x # s
      BY <2>5 DEF IngestSample
    <3> QED
      BY <2>5, <3>1 DEF IngestSample, AddSample, KeepBaseline, TypeOK
  <2>6. ASSUME NEW w \in Workers, Request(w), ~StartCommit(w), ~StopCommit(w)
        PROVE  UNCHANGED <<session, samples>>
    BY <2>6, RequestOnly DEF Request, ScenarioCommit, LabelCommit, db, rows
  <2>7. ASSUME NEW x \in Sessions, Train(x)
        PROVE  UNCHANGED <<session, samples>>
    BY <2>7 DEF Train, rows
  <2>8. ASSUME NEW d \in Devices, NEW q \in Seqs, IngestPlain(d, q)
        PROVE  UNCHANGED <<session, samples>>
    BY <2>8 DEF IngestPlain
  <2>9. CASE UNCHANGED vars
    BY <2>1, <2>9 DEF vars, session
  <2> QED
    BY <2>1, <2>2, <2>3, <2>4, <2>5, <2>6, <2>7, <2>8, <2>9 DEF Next
<1> QED
  BY <1>1, Invariance, PTL DEF Spec, CompletedFrozen

-----------------------------------------------------------------------------
(* One request at a time *)

\* What the checks of a pending request found, as far as a deletion, a training
\* and telemetry, which are not requests, leave it true until the write.
StartHolds(r) == r.official \/ deviceScenario[r.d] # None
LabelHolds(r) ==
  owner[r.s] = r.d =>
    /\ status[r.s] = "completed" /\ snapshot[r.s] \in Scenarios
    /\ \E x \in samples[r.s] : Covers(r.row, x.seq)
    /\ \A m \in labels[r.s] : ~Conflict(m, r.row)
StillHolds ==
  \A w \in Workers :
    /\ Pending(w, "start") => StartHolds(req[w])
    /\ Pending(w, "scenario") => ~HasActive(req[w].d)
    /\ Pending(w, "label") => LabelHolds(req[w])

\* The inductive invariant of requests that are alone.
Sound == SessionHasScenario /\ NoConflictingLabels /\ LabelsHaveSamples
AloneInv == OneRequest /\ StillHolds /\ Sound

\* Intervals conflict both ways or not at all.
LEMMA ConflictSymmetric ==
  ASSUME NEW l, NEW m, Conflict(l, m)
  PROVE  Conflict(m, l)
BY DEF Conflict

\* A request whose checks hold leaves a sound store sound.
LEMMA AloneAccepts ==
  ASSUME TypeOK, AloneInv, NEW w \in Workers, NEW r \in Requests, Accept(w, r), OneRequest',
         r.op = "start" => StartHolds(r),
         r.op = "scenario" => ~HasActive(r.d),
         r.op = "label" => LabelHolds(r)
  PROVE  AloneInv'
<1> USE DEF db, session, rows
<1>1. /\ UNCHANGED db
      /\ \A v \in Workers : /\ v # w => req'[v] = req[v]
                            /\ v = w => req'[v] = r
  BY DEF Accept, TypeOK
<1>2. StillHolds'
  BY <1>1 DEF AloneInv, StillHolds, Pending, StartHolds, LabelHolds, HasActive
<1>3. Sound'
  BY <1>1 DEF AloneInv, Sound, SessionHasScenario, NoConflictingLabels, LabelsHaveSamples
<1> QED
  BY <1>2, <1>3 DEF AloneInv

\* When the one request ends, no request is left.
LEMMA AloneEnds ==
  ASSUME TypeOK, OneRequest, NEW w \in Workers, ~Idle(w), Done(w)
  PROVE  /\ \A v \in Workers : req'[v] = None
         /\ StillHolds'
<1>1. \A v \in Workers : req'[v] = None
  BY DEF OneRequest, Done, TypeOK, Idle
<1> QED
  BY <1>1 DEF StillHolds, Pending

\* A session starts with the scenario, or the profile, that was checked for it.
LEMMA AloneStart ==
  ASSUME IInv, AloneInv, NEW w \in Workers, StartCommit(w)
  PROVE  Sound'
<1> DEFINE s == req[w].s
           x == IF req[w].official THEN "profile" ELSE deviceScenario[req[w].d]
<1> USE StoreAssumption DEF IInv
<1>1. s \in Sessions /\ req[w].d \in Devices
  BY PendingShape DEF StartCommit
<1>2. x # None
  BY <1>1 DEF StartCommit, AloneInv, StillHolds, StartHolds
<1>3. /\ status[s] = "absent"
      /\ \A t \in Sessions : t # s => status'[t] = status[t] /\ snapshot'[t] = snapshot[t]
      /\ snapshot'[s] = x
      /\ UNCHANGED <<samples, labels>>
  BY <1>1 DEF StartCommit, TypeOK, rows
<1>4. labels[s] = {}
  BY <1>1, <1>3 DEF NoOrphans
<1> HIDE DEF s, x
<1>5. SessionHasScenario'
  BY <1>2, <1>3 DEF AloneInv, Sound, SessionHasScenario
<1>6. NoConflictingLabels'
  BY <1>3 DEF AloneInv, Sound, NoConflictingLabels
<1>7. LabelsHaveSamples'
  BY <1>3, <1>4 DEF AloneInv, Sound, LabelsHaveSamples
<1> QED
  BY <1>5, <1>6, <1>7 DEF Sound

\* A session that stops has no label yet.
LEMMA AloneStop ==
  ASSUME IInv, AloneInv, NEW w \in Workers, StopCommit(w)
  PROVE  Sound'
<1> DEFINE s == req[w].s
<1> USE DEF IInv
<1>1. s \in Sessions
  BY PendingShape DEF StopCommit
<1>2. /\ status[s] = "active"
      /\ \A t \in Sessions : t # s => status'[t] = status[t]
      /\ UNCHANGED <<snapshot, samples, labels>>
  BY <1>1 DEF StopCommit, TypeOK, rows
<1> HIDE DEF s
<1>3. labels[s] = {}
  BY <1>1, <1>2 DEF AloneInv, Sound, LabelsHaveSamples
<1> QED
  BY <1>2, <1>3
     DEF AloneInv, Sound, SessionHasScenario, NoConflictingLabels, LabelsHaveSamples

\* A label is written to the session it was checked for, where it conflicts with
\* no other label; or not at all, when the session was deleted meanwhile.
LEMMA AloneLabel ==
  ASSUME IInv, AloneInv, NEW w \in Workers, LabelCommit(w)
  PROVE  Sound'
<1> DEFINE s == req[w].s
           l == req[w].row
           kept == {m \in labels[s] : m.lo # l.lo \/ m.hi # l.hi}
<1> USE DEF IInv
<1>1. s \in Sessions
  BY PendingShape DEF LabelCommit
<1>2. /\ status[s] = "completed" /\ snapshot[s] \in Scenarios
      /\ \E x \in samples[s] : Covers(l, x.seq)
      /\ \A m \in labels[s] : ~Conflict(m, l)
  BY DEF LabelCommit, AloneInv, StillHolds, LabelHolds
<1>3. /\ labels'[s] = kept \cup {l}
      /\ \A t \in Sessions : t # s => labels'[t] = labels[t]
      /\ UNCHANGED <<status, snapshot, samples>>
  BY <1>1 DEF LabelCommit, TypeOK, session, rows
<1>4. kept \subseteq labels[s]
  OBVIOUS
<1> HIDE DEF s, l, kept
<1>5. SessionHasScenario'
  BY <1>3 DEF AloneInv, Sound, SessionHasScenario
<1>6. NoConflictingLabels'
  <2>1. ~Conflict(l, l)
    BY DEF Conflict
  <2>2. \A m \in labels[s] : ~Conflict(l, m)
    BY <1>2, ConflictSymmetric
  <2>3. \A k, m \in labels[s] : ~Conflict(k, m)
    BY <1>1 DEF AloneInv, Sound, NoConflictingLabels
  <2>4. \A k, m \in labels'[s] : ~Conflict(k, m)
    BY <1>2, <1>3, <1>4, <2>1, <2>2, <2>3
  <2> QED
    BY <1>3, <2>4 DEF AloneInv, Sound, NoConflictingLabels
<1>7. LabelsHaveSamples'
  BY <1>1, <1>2, <1>3, <1>4 DEF AloneInv, Sound, LabelsHaveSamples
<1> QED
  BY <1>5, <1>6, <1>7 DEF Sound

\* A deletion takes the labels with the samples, and the write of a label that
\* was checked before it is refused by the foreign key.
LEMMA AloneDelete ==
  ASSUME IInv, AloneInv, NEW s \in Sessions, Delete(s)
  PROVE  StillHolds' /\ Sound'
<1> USE StoreAssumption DEF IInv
<1>1. /\ owner'[s] = None /\ status'[s] = "absent" /\ labels'[s] = {} /\ samples'[s] = {}
      /\ \A t \in Sessions : t # s =>
           /\ owner'[t] = owner[t] /\ status'[t] = status[t] /\ snapshot'[t] = snapshot[t]
           /\ samples'[t] = samples[t] /\ labels'[t] = labels[t]
      /\ UNCHANGED <<deviceScenario, req>>
  BY DEF Delete, Erase, TypeOK
<1>2. Sound'
  BY <1>1 DEF AloneInv, Sound, SessionHasScenario, NoConflictingLabels, LabelsHaveSamples
<1>3. ASSUME NEW w \in Workers, Pending(w, "start")' PROVE StartHolds(req[w])'
  BY <1>1, <1>3 DEF AloneInv, StillHolds, StartHolds, Pending
<1>4. ASSUME NEW w \in Workers, Pending(w, "scenario")' PROVE (~HasActive(req[w].d))'
  <2>1. ~HasActive(req[w].d)
    BY <1>1, <1>4 DEF AloneInv, StillHolds, Pending
  <2> QED
    BY <1>1, <2>1 DEF HasActive
<1>5. ASSUME NEW w \in Workers, Pending(w, "label")' PROVE LabelHolds(req[w])'
  <2>1. /\ LabelHolds(req[w])
        /\ req'[w] = req[w] /\ req[w].s \in Sessions /\ req[w].d \in Devices
    BY <1>1, <1>5, PendingShape DEF AloneInv, StillHolds, Pending
  <2>2. CASE req[w].s = s
    BY <1>1, <2>1, <2>2 DEF LabelHolds
  <2>3. CASE req[w].s # s
    BY <1>1, <2>1, <2>3 DEF LabelHolds
  <2> QED
    BY <2>2, <2>3
<1> QED
  BY <1>2, <1>3, <1>4, <1>5 DEF StillHolds

\* Telemetry adds samples and takes none away; a training changes nothing here.
LEMMA AloneGrows ==
  ASSUME IInv, AloneInv,
         UNCHANGED <<owner, status, snapshot, deviceScenario, labels, req>>,
         \A s \in Sessions : samples[s] \subseteq samples'[s]
  PROVE  AloneInv'
<1> USE DEF IInv
<1>1. Sound'
  <2>1. LabelsHaveSamples'
    BY DEF AloneInv, Sound, LabelsHaveSamples
  <2> QED
    BY <2>1 DEF AloneInv, Sound, SessionHasScenario, NoConflictingLabels
<1>2. ASSUME NEW w \in Workers, Pending(w, "label")' PROVE LabelHolds(req[w])'
  <2>1. LabelHolds(req[w]) /\ req'[w] = req[w] /\ req[w].s \in Sessions
    BY <1>2, PendingShape DEF AloneInv, StillHolds, Pending
  <2> QED
    BY <2>1 DEF LabelHolds
<1>3. StillHolds'
  BY <1>2 DEF AloneInv, StillHolds, StartHolds, HasActive, Pending
<1> QED
  BY <1>1, <1>3 DEF AloneInv, OneRequest

\* The invariant of a request that is alone is kept by every step.
LEMMA AloneNext ==
  ASSUME IInv, AloneInv, Next, OneRequest'
  PROVE  AloneInv'
<1> USE DEF IInv
<1>1. ASSUME NEW w \in Workers, StartCommit(w) \/ StopCommit(w) \/ LabelCommit(w)
      PROVE  AloneInv'
  <2>1. StillHolds'
    BY <1>1, AloneEnds DEF StartCommit, StopCommit, LabelCommit, Pending, Idle, AloneInv
  <2> QED
    BY <1>1, <2>1, AloneStart, AloneStop, AloneLabel DEF AloneInv
<1>2. ASSUME NEW w \in Workers, ScenarioCommit(w) \/ Abort(w) PROVE AloneInv'
  <2>1. StillHolds'
    BY <1>2, AloneEnds DEF ScenarioCommit, Abort, Pending, Idle, AloneInv
  <2>2. UNCHANGED <<session, rows, labels>>
    BY <1>2 DEF ScenarioCommit, Abort, db
  <2> QED
    BY <2>1, <2>2 DEF session, rows, AloneInv, Sound, SessionHasScenario,
                      NoConflictingLabels, LabelsHaveSamples
<1>3. ASSUME NEW w \in Workers, NEW d \in Devices, NEW v \in Scenarios \cup {None},
             ScenarioCheck(w, d, v)
      PROVE  AloneInv'
  <2> DEFINE r == [op |-> "scenario", d |-> d, to |-> v]
  <2>1. r \in Requests /\ r.op = "scenario" /\ r.d = d
    BY DEF Requests
  <2>2. Accept(w, r) /\ ~HasActive(d)
    BY <1>3 DEF ScenarioCheck
  <2> HIDE DEF r
  <2> QED
    BY <2>1, <2>2, AloneAccepts
<1>4. ASSUME NEW w \in Workers, NEW s \in Sessions, NEW d \in Devices, NEW o \in BOOLEAN,
             StartCheck(w, s, d, o)
      PROVE  AloneInv'
  <2> DEFINE r == [op |-> "start", s |-> s, d |-> d, official |-> o]
  <2>1. r \in Requests /\ r.op = "start" /\ r.d = d /\ r.official = o
    BY DEF Requests
  <2>2. Accept(w, r) /\ (o \/ deviceScenario[d] # None)
    BY <1>4 DEF StartCheck
  <2> HIDE DEF r
  <2>3. StartHolds(r)
    BY <2>1, <2>2 DEF StartHolds
  <2> QED
    BY <2>1, <2>2, <2>3, AloneAccepts
<1>5. ASSUME NEW w \in Workers, NEW s \in Sessions, NEW d \in Devices, StopCheck(w, s, d)
      PROVE  AloneInv'
  <2> DEFINE r == [op |-> "stop", s |-> s, d |-> d]
  <2>1. r \in Requests /\ r.op = "stop"
    BY DEF Requests
  <2>2. Accept(w, r)
    BY <1>5 DEF StopCheck
  <2> HIDE DEF r
  <2> QED
    BY <2>1, <2>2, AloneAccepts
<1>6. ASSUME NEW w \in Workers, NEW s \in Sessions, NEW d \in Devices, NEW l \in LabelRows,
             LabelCheck(w, s, d, l)
      PROVE  AloneInv'
  <2> DEFINE r == [op |-> "label", s |-> s, d |-> d, row |-> l]
  <2>1. r \in Requests /\ r.op = "label" /\ r.s = s /\ r.d = d /\ r.row = l
    BY DEF Requests
  <2>2. /\ Accept(w, r)
        /\ status[s] = "completed" /\ snapshot[s] \in Scenarios
        /\ \E x \in samples[s] : Covers(l, x.seq)
        /\ \A m \in labels[s] : ~Conflict(m, l)
    BY <1>6 DEF LabelCheck
  <2> HIDE DEF r
  <2>3. LabelHolds(r)
    BY <2>1, <2>2 DEF LabelHolds
  <2> QED
    BY <2>1, <2>2, <2>3, AloneAccepts
<1>7. ASSUME NEW s \in Sessions, Delete(s) PROVE AloneInv'
  BY <1>7, AloneDelete DEF AloneInv
<1>8. ASSUME NEW s \in Sessions, Train(s) PROVE AloneInv'
  BY <1>8, AloneGrows DEF Train, session, rows
<1>9. ASSUME NEW d \in Devices, NEW q \in Seqs, IngestPlain(d, q) PROVE AloneInv'
  BY <1>9, AloneGrows DEF IngestPlain, session
<1>10. ASSUME NEW d \in Devices, NEW q \in Seqs, NEW v \in BOOLEAN, NEW s \in Sessions,
              IngestSample(d, q, v, s)
       PROVE  AloneInv'
  <2>1. \A t \in Sessions : samples[t] \subseteq samples'[t]
    BY <1>10 DEF IngestSample, AddSample, TypeOK
  <2> QED
    BY <1>10, <2>1, AloneGrows DEF IngestSample
<1> QED
  BY <1>1, <1>2, <1>3, <1>4, <1>5, <1>6, <1>7, <1>8, <1>9, <1>10 DEF Next, Request

\* A request at a time, with nothing else assumed of the store's use.
AloneSpec ==
  MCInit /\ [][Next /\ UNCHANGED alone /\ (alone => OneRequest')]_<<vars, alone>>

\* Both inductive invariants, for stores whose requests are alone.
LEMMA AloneInvariance == AloneSpec => [](IInv /\ (alone => AloneInv))
<1> DEFINE Inv == IInv /\ (alone => AloneInv)
<1>1. MCInit => Inv
  <2> SUFFICES ASSUME MCInit PROVE AloneInv
    BY InitIInv DEF MCInit
  <2> QED
    BY DEF MCInit, Init, AloneInv, OneRequest, StillHolds, Sound, SessionHasScenario,
           NoConflictingLabels, LabelsHaveSamples, Pending
<1>2. Inv /\ [Next /\ UNCHANGED alone /\ (alone => OneRequest')]_<<vars, alone>> => Inv'
  <2> SUFFICES ASSUME Inv,
                      [Next /\ UNCHANGED alone /\ (alone => OneRequest')]_<<vars, alone>>
               PROVE  Inv'
    OBVIOUS
  <2>1. CASE Next /\ UNCHANGED alone /\ (alone => OneRequest')
    BY <2>1, NextIInv, AloneNext
  <2>2. CASE UNCHANGED <<vars, alone>>
    <3>1. IInv'
      BY <2>2, NextIInv DEF vars
    <3>2. AloneInv => AloneInv'
      BY <2>2, AloneGrows DEF vars
    <3> QED
      BY <2>2, <3>1, <3>2
  <2> QED
    BY <2>1, <2>2
<1> QED
  BY <1>1, <1>2, PTL DEF AloneSpec

\* A request alone keeps the rules that only its own checks enforce, although a
\* session may be deleted between a check and the write it allowed.
THEOREM AloneStaysSound == AloneSpec => []AloneIsSound
<1>1. IInv /\ (alone => AloneInv) => AloneIsSound
  BY DEF AloneInv, Sound, AloneIsSound
<1> QED
  BY <1>1, AloneInvariance, PTL

\* A request alone does not change the scenario of a device that collects.
THEOREM AloneKeepsScenario == AloneSpec => AloneScenarioFrozen
<1>1. /\ IInv /\ (alone => AloneInv)
      /\ [Next /\ UNCHANGED alone /\ (alone => OneRequest')]_<<vars, alone>>
      => [alone => ScenarioStep]_vars
  <2> SUFFICES ASSUME IInv, alone => AloneInv, Next, alone
               PROVE  ScenarioStep
    BY DEF vars
  <2>1. CASE UNCHANGED deviceScenario
    BY <2>1 DEF ScenarioStep
  <2>2. ASSUME NEW w \in Workers, ScenarioCommit(w)
        PROVE  ScenarioStep
    <3>1. /\ ~HasActive(req[w].d)
          /\ \A d \in Devices : d # req[w].d => deviceScenario'[d] = deviceScenario[d]
      BY <2>2, PendingShape DEF ScenarioCommit, AloneInv, StillHolds, IInv, TypeOK
    <3> QED
      BY <3>1 DEF ScenarioStep
  <2> QED
    BY <2>1, <2>2
       DEF Next, Request, StartCommit, StopCommit, LabelCommit, Abort, ScenarioCheck, StartCheck,
           StopCheck, LabelCheck, Accept, db, Delete, Train, IngestPlain, IngestSample
<1> QED
  BY <1>1, AloneInvariance, PTL DEF AloneSpec, AloneScenarioFrozen

\* In particular in every run of the instance that is model-checked.
THEOREM AloneInMC == MCSpec => []AloneIsSound /\ AloneScenarioFrozen
<1>1. MCNext => Next /\ UNCHANGED alone /\ (alone => OneRequest')
  BY DEF MCNext, Bounded
<1>2. MCSpec => AloneSpec
  BY <1>1, PTL DEF MCSpec, AloneSpec
<1> QED
  BY <1>2, AloneStaysSound, AloneKeepsScenario, PTL

-----------------------------------------------------------------------------
(* The collection session between the ESP32 and the server *)

\* The task and the display: one request at a time, an id wherever a stop needs
\* one and always of a session the server has started, and a stop under way for
\* the session shown, unless a START has cleared it meanwhile.
Flow ==
  /\ ~(startReq /\ stopReq)
  /\ stopReq \/ dev \in {"active", "stopping"} => sid # NoId
  /\ sid # NoId => srv[sid] # "absent"
  /\ pc = "stop" => IF sid = NoId THEN startReq ELSE sid = arg

\* An answer that names a session names one the server has started, and a stop
\* that succeeded has completed its session.
AnswersAreTrue ==
  /\ pc = "recovered" => Code = 200
  /\ \/ wire = "answered" /\ pc \in {"recover", "start", "conflict"}
     \/ pc = "recovered"
     => (Code = 200 => answer.sid # NoId /\ srv[answer.sid] # "absent")
  /\ wire = "answered" /\ pc = "stop" /\ Code = 200 => srv[arg] = "completed"

LinkInv == LinkTypeOK /\ Flow /\ AnswersAreTrue /\ DisplayIsTrue /\ RequestIsServed

\* The initial state satisfies the inductive invariant.
LEMMA InitInv == LinkInit => LinkInv
<1> SUFFICES ASSUME LinkInit PROVE LinkInv
  OBVIOUS
<1>1. Flags
  BY Zenon DEF LinkInit, Flags
<1>2. LinkTypeOK
  BY <1>1 DEF LinkInit, LinkTypeOK, States, Calls, NoAnswer
<1>3. Flow /\ AnswersAreTrue /\ DisplayIsTrue /\ RequestIsServed
  BY DEF LinkInit, Flow, AnswersAreTrue, DisplayIsTrue, OpenHasServerId, StoppedIsCompleted, Replaced,
         RequestIsServed, Open
<1> QED
  BY <1>2, <1>3 DEF LinkInv

\* A step keeps a flag, sets it or clears it.
FlagStep ==
  /\ startReq' \in {startReq, TRUE, FALSE} /\ stopReq' \in {stopReq, TRUE, FALSE}
  /\ recReq' \in {recReq, TRUE, FALSE} /\ recDue' \in {recDue, TRUE, FALSE}
  /\ connected' \in {connected, TRUE, FALSE} /\ pending' \in {pending, TRUE, FALSE}

\* The flags stay Boolean.
LEMMA FlagsKeep ==
  ASSUME Flags, LinkNext
  PROVE  Flags'
<1> USE DEF ui, call, server, frame
<1>1. ASSUME PressStart \/ PressStop PROVE FlagStep
  BY <1>1 DEF FlagStep, PressStart, PressStop
<1>2. ASSUME Reconnect PROVE FlagStep
  <2>1. recReq' \in {recReq, TRUE, FALSE}
    BY <1>2, Zenon DEF Reconnect
  <2> QED
    BY <1>2, <2>1 DEF FlagStep, Reconnect
<1>3. ASSUME Disconnect \/ RecoveryDue \/ NewFrame PROVE FlagStep
  BY <1>3 DEF FlagStep, Disconnect, RecoveryDue, NewFrame
<1>4. ASSUME Loop PROVE FlagStep
  BY <1>4 DEF FlagStep, Loop, Send, SendRecover, SendStop, SendStart, SendTelemetry
<1>5. ASSUME Handle \/ TimeOut \/ StrayArrives \/ Operator PROVE FlagStep
  BY <1>5 DEF FlagStep, Handle, TimeOut, StrayArrives, Operator, HandleStart, HandleStop,
              HandleActive, HandleTelemetry
<1>6. ASSUME After PROVE FlagStep
  BY <1>6 DEF FlagStep, After, RecoverOk, RecoverPublish, RecoverNone, RecoverIdle,
              RecoverRetry, StartPublish, StartFinish, StartConflict, StartFail, ConflictFail,
              ConflictRetry, StopDone, TelemetryDone, SetState, Return, Continue
<1>7. ASSUME Reboot PROVE FlagStep
  BY <1>7 DEF FlagStep, Reboot, Boot
<1>8. FlagStep
  BY <1>1, <1>2, <1>3, <1>4, <1>5, <1>6, <1>7 DEF LinkNext
<1>9. \A x, y : x \in BOOLEAN /\ y \in {x, TRUE, FALSE} => y \in BOOLEAN
  OBVIOUS
<1> QED
  BY <1>8, <1>9, Zenon DEF FlagStep, Flags

\* A press changes the display and a request, and opens or closes nothing.
LEMMA PressKeeps ==
  ASSUME Flags', LinkInv, PressStart \/ PressStop
  PROVE  LinkInv'
<1> USE LinkAssumption DEF LinkInv, call, server, frame
<1>1. LinkTypeOK'
  BY DEF LinkTypeOK, PressStart, PressStop, States
<1>2. Flow'
  BY DEF Flow, PressStart, PressStop, Open, CanStart, CanStop
<1>3. AnswersAreTrue'
  BY DEF AnswersAreTrue, PressStart, PressStop, Code
<1>4. DisplayIsTrue'
  BY DEF DisplayIsTrue, OpenHasServerId, StoppedIsCompleted, Replaced, PressStart, PressStop, Open, CanStop
<1>5. RequestIsServed'
  BY DEF RequestIsServed, Replaced, PressStart, PressStop
<1> QED
  BY <1>1, <1>2, <1>3, <1>4, <1>5

\* Between calls the task looks at the network, the backoff and the queue.
LEMMA BetweenCallsKeeps ==
  ASSUME Flags', LinkInv, Reconnect \/ Disconnect \/ RecoveryDue \/ NewFrame
  PROVE  LinkInv'
<1> USE LinkAssumption DEF LinkInv, ui, call, server, frame
<1>1. LinkTypeOK'
  BY DEF LinkTypeOK, Reconnect, Disconnect, RecoveryDue, NewFrame
<1>2. Flow'
  BY DEF Flow, Reconnect, Disconnect, RecoveryDue, NewFrame
<1>3. AnswersAreTrue' /\ DisplayIsTrue' /\ RequestIsServed'
  BY DEF AnswersAreTrue, DisplayIsTrue, OpenHasServerId, StoppedIsCompleted, RequestIsServed,
         Replaced, Reconnect, Disconnect, RecoveryDue, NewFrame, Open, Code
<1> QED
  BY <1>1, <1>2, <1>3

\* A call takes one request off and carries what the display shows.
LEMMA SendKeeps ==
  ASSUME Flags', LinkInv, Loop
  PROVE  LinkInv'
<1> USE LinkAssumption DEF LinkInv, server, frame, Loop, Send
<1>1. LinkTypeOK'
  BY DEF LinkTypeOK, SendRecover, SendStop, SendStart, SendTelemetry, Calls, Open, Flow
<1>2. Flow'
  BY DEF Flow, SendRecover, SendStop, SendStart, SendTelemetry, Open
<1>3. AnswersAreTrue'
  BY DEF AnswersAreTrue, SendRecover, SendStop, SendStart, SendTelemetry, Code
<1>4. DisplayIsTrue'
  BY DEF DisplayIsTrue, OpenHasServerId, StoppedIsCompleted, Replaced, SendRecover, SendStop, SendStart,
         SendTelemetry, Open
<1>5. RequestIsServed'
  BY DEF RequestIsServed, Replaced, Flow, SendRecover, SendStop, SendStart, SendTelemetry
<1> QED
  BY <1>1, <1>2, <1>3, <1>4, <1>5

\* Whatever happens at the server, a session that was started stays started and
\* one that is completed stays completed.
LEMMA ServerMoves ==
  ASSUME LinkTypeOK, NEW s \in Sids, StartAtServer(s) \/ CompleteAtServer(s)
  PROVE  /\ srv' \in [Sids -> {"absent", "active", "completed"}]
         /\ \A t \in Sids : /\ srv[t] # "absent" => srv'[t] # "absent"
                            /\ srv[t] = "completed" => srv'[t] = "completed"
         /\ StartAtServer(s) => srv'[s] # "absent"
         /\ CompleteAtServer(s) => srv'[s] = "completed"
BY DEF LinkTypeOK, StartAtServer, CompleteAtServer, Active

\* The device sees only the answers: what is true of the server's sessions stays
\* true however they move.
LEMMA ServerKeeps ==
  ASSUME LinkInv, UNCHANGED <<ui, recReq, recDue, connected, pc, arg>>, LinkTypeOK',
         \A t \in Sids : /\ srv[t] # "absent" => srv'[t] # "absent"
                         /\ srv[t] = "completed" => srv'[t] = "completed",
         \/ UNCHANGED <<wire, answer>>
         \/ AnswersAreTrue'
  PROVE  LinkInv'
<1> USE LinkAssumption DEF LinkInv, ui
<1>1. Flow' /\ RequestIsServed'
  BY DEF Flow, RequestIsServed, Replaced, LinkTypeOK
<1>2. AnswersAreTrue'
  BY DEF AnswersAreTrue, LinkTypeOK, Code
<1>3. DisplayIsTrue'
  BY DEF DisplayIsTrue, OpenHasServerId, StoppedIsCompleted, Replaced, LinkTypeOK, Open, Flow
<1> QED
  BY <1>1, <1>2, <1>3

\* The server answers, or a call or an operator changes it behind the device.
LEMMA HandleKeeps ==
  ASSUME Flags', LinkInv, Handle \/ TimeOut \/ StrayArrives \/ Operator
  PROVE  LinkInv'
<1> USE LinkAssumption DEF LinkInv, server, frame, call
<1>1. CASE HandleStart
  <2>1. CASE \E s \in Sids : StartAtServer(s) /\ Reply(200, s)
    <3>1. PICK s \in Sids : StartAtServer(s) /\ Reply(200, s)
      BY <2>1
    <3>2. LinkTypeOK'
      BY <1>1, <3>1, ServerMoves DEF HandleStart, Reply, LinkTypeOK, Calls, ui
    <3>3. AnswersAreTrue'
      BY <1>1, <3>1, ServerMoves DEF HandleStart, Reply, AnswersAreTrue, Code, Sids
    <3> QED
      BY <1>1, <3>1, <3>2, <3>3, ServerMoves, ServerKeeps DEF HandleStart
  <2>2. CASE Reply(409, NoId) /\ UNCHANGED srv
    <3>1. LinkTypeOK'
      BY <1>1, <2>2 DEF HandleStart, Reply, LinkTypeOK, Calls, ui
    <3>2. AnswersAreTrue'
      BY <1>1, <2>2 DEF HandleStart, Reply, AnswersAreTrue, Code
    <3> QED
      BY <1>1, <2>2, <3>1, <3>2, ServerKeeps DEF HandleStart
  <2> QED
    BY <1>1, <2>1, <2>2 DEF HandleStart
<1>2. CASE HandleActive
  <2>1. Reply(404, NoId) \/ \E s \in Active : Reply(200, s)
    BY <1>2 DEF HandleActive
  <2>2. LinkTypeOK'
    BY <1>2, <2>1 DEF HandleActive, Reply, LinkTypeOK, Calls, ui, Active
  <2>3. AnswersAreTrue'
    BY <1>2, <2>1 DEF HandleActive, Reply, AnswersAreTrue, Code, Active, Sids
  <2> QED
    BY <1>2, <2>2, <2>3, ServerKeeps DEF HandleActive
<1>3. CASE HandleStop
  <2>1. CASE arg \in Active
    <3>1. CompleteAtServer(arg) /\ Reply(200, arg) /\ arg \in Sids
      BY <1>3, <2>1 DEF HandleStop, Active
    <3>2. LinkTypeOK'
      BY <1>3, <3>1, ServerMoves DEF HandleStop, Reply, LinkTypeOK, Calls, ui
    <3>3. AnswersAreTrue'
      BY <1>3, <3>1, ServerMoves DEF HandleStop, Reply, AnswersAreTrue, Code
    <3> QED
      BY <1>3, <3>1, <3>2, <3>3, ServerMoves, ServerKeeps DEF HandleStop
  <2>2. CASE arg \notin Active
    <3>1. Reply(409, NoId) /\ UNCHANGED srv
      BY <1>3, <2>2 DEF HandleStop
    <3>2. LinkTypeOK'
      BY <1>3, <3>1 DEF HandleStop, Reply, LinkTypeOK, Calls, ui
    <3>3. AnswersAreTrue'
      BY <1>3, <3>1 DEF HandleStop, Reply, AnswersAreTrue, Code
    <3> QED
      BY <1>3, <3>1, <3>2, <3>3, ServerKeeps DEF HandleStop
  <2> QED
    BY <2>1, <2>2
<1>4. CASE HandleTelemetry
  <2>1. (Reply(200, NoId) \/ Reply(409, NoId)) /\ storedIn' \in {storedIn, arg}
    BY <1>4 DEF HandleTelemetry
  <2>2. LinkTypeOK'
    BY <1>4, <2>1 DEF HandleTelemetry, Reply, LinkTypeOK, Calls, ui
  <2>3. AnswersAreTrue'
    BY <1>4, <2>1 DEF HandleTelemetry, Reply, AnswersAreTrue, Code
  <2> QED
    BY <1>4, <2>2, <2>3, ServerKeeps DEF HandleTelemetry
<1>5. CASE TimeOut
  <2>1. LinkTypeOK'
    BY <1>5 DEF TimeOut, LinkTypeOK, Calls, ui, NoAnswer
  <2>2. AnswersAreTrue'
    BY <1>5 DEF TimeOut, AnswersAreTrue, Code, NoAnswer, LinkTypeOK, Calls
  <2> QED
    BY <1>5, <2>1, <2>2, ServerKeeps DEF TimeOut
<1>6. CASE StrayArrives \/ Operator
  <2>1. \/ UNCHANGED srv
        \/ \E s \in Sids : StartAtServer(s) \/ CompleteAtServer(s)
    BY <1>6 DEF StrayArrives, Operator, CompleteAtServer, Active
  <2>2. /\ srv' \in [Sids -> {"absent", "active", "completed"}]
        /\ \A t \in Sids : /\ srv[t] # "absent" => srv'[t] # "absent"
                           /\ srv[t] = "completed" => srv'[t] = "completed"
    BY <2>1, ServerMoves DEF LinkTypeOK
  <2>3. LinkTypeOK'
    BY <1>6, <2>2 DEF StrayArrives, Operator, LinkTypeOK, ui
  <2> QED
    BY <1>6, <2>2, <2>3, ServerKeeps DEF StrayArrives, Operator
<1> QED
  BY <1>1, <1>2, <1>3, <1>4, <1>5, <1>6 DEF Handle

\* The task applies the answer to a recovery.
LEMMA RecoveryKeeps ==
  ASSUME Flags', LinkInv, RecoverOk \/ RecoverPublish \/ RecoverNone \/ RecoverIdle \/ RecoverRetry
  PROVE  LinkInv'
<1> USE LinkAssumption
    DEF LinkInv, ui, server, frame, Answered, Return, Continue, SetState, NoAnswer, Code,
        RecoverOk, RecoverPublish, RecoverNone, RecoverIdle, RecoverRetry
<1>1. LinkTypeOK'
  BY DEF LinkTypeOK, Calls, States
<1>2. Flow'
  BY DEF Flow, AnswersAreTrue, Open
<1>3. AnswersAreTrue'
  BY DEF AnswersAreTrue
<1>4. DisplayIsTrue'
  BY DEF DisplayIsTrue, OpenHasServerId, StoppedIsCompleted, Replaced, AnswersAreTrue, Open, Flow
<1>5. RequestIsServed'
  BY DEF RequestIsServed, Replaced, Flow, Open
<1> QED
  BY <1>1, <1>2, <1>3, <1>4, <1>5

\* The task applies the answer to a start and to the query after its conflict.
LEMMA StartKeeps ==
  ASSUME Flags', LinkInv,
         \/ StartPublish \/ StartFinish \/ StartConflict \/ StartFail
         \/ ConflictFail \/ ConflictRetry
  PROVE  LinkInv'
<1> USE LinkAssumption
    DEF LinkInv, ui, server, frame, Answered, Return, Continue, SetState, NoAnswer, Code,
        StartPublish, StartFinish, StartConflict, StartFail, ConflictFail, ConflictRetry
<1>1. LinkTypeOK'
  BY DEF LinkTypeOK, Calls, States
<1>2. Flow'
  BY DEF Flow, AnswersAreTrue, Open
<1>3. AnswersAreTrue'
  BY DEF AnswersAreTrue
<1>4. DisplayIsTrue'
  BY DEF DisplayIsTrue, OpenHasServerId, StoppedIsCompleted, Replaced, AnswersAreTrue, Open, Flow
<1>5. RequestIsServed'
  BY DEF RequestIsServed, Replaced, Flow, Open
<1> QED
  BY <1>1, <1>2, <1>3, <1>4, <1>5

\* The task applies the answer to a stop or an upload, or the device restarts.
LEMMA StopKeeps ==
  ASSUME Flags', LinkInv, StopDone \/ TelemetryDone \/ Reboot
  PROVE  LinkInv'
<1> USE LinkAssumption
    DEF LinkInv, ui, server, frame, Answered, Return, SetState, NoAnswer, Code,
        StopDone, TelemetryDone, Reboot, Boot
<1>1. LinkTypeOK'
  BY DEF LinkTypeOK, Calls, States
<1>2. Flow'
  BY DEF Flow, Open
<1>3. AnswersAreTrue'
  BY DEF AnswersAreTrue
<1>4. DisplayIsTrue'
  BY DEF DisplayIsTrue, OpenHasServerId, StoppedIsCompleted, Replaced, AnswersAreTrue, Open, Flow
<1>5. RequestIsServed'
  BY DEF RequestIsServed, Replaced, Flow
<1> QED
  BY <1>1, <1>2, <1>3, <1>4, <1>5

\* Every step keeps the inductive invariant.
LEMMA NextInv == LinkInv /\ [LinkNext]_linkVars => LinkInv'
<1> SUFFICES ASSUME LinkInv, [LinkNext]_linkVars PROVE LinkInv'
  OBVIOUS
<1>1. CASE UNCHANGED linkVars
  BY <1>1 DEF linkVars, LinkInv, LinkTypeOK, Flags, Flow, AnswersAreTrue, DisplayIsTrue, OpenHasServerId,
              StoppedIsCompleted, Replaced, RequestIsServed, Open, Code
<1>2. CASE LinkNext
  BY <1>2, FlagsKeep, PressKeeps, BetweenCallsKeeps, SendKeeps, HandleKeeps, RecoveryKeeps, StartKeeps,
     StopKeeps DEF LinkNext, After, LinkInv, LinkTypeOK
<1> QED
  BY <1>1, <1>2

\* The inductive invariant of the link.
LEMMA LinkInvariance == LinkSpec => []LinkInv
<1>1. LinkInit => LinkInv
  BY InitInv
<1>2. LinkInv /\ [LinkNext]_linkVars => LinkInv'
  BY NextInv
<1> QED
  BY <1>1, <1>2, PTL DEF LinkSpec

\* Type correctness of the link.
THEOREM LinkTypeCorrect == LinkSpec => []LinkTypeOK
<1>1. LinkInv => LinkTypeOK
  BY DEF LinkInv
<1> QED
  BY <1>1, LinkInvariance, PTL

\* However answers are lost, delayed or overtaken by an operator, and whenever a
\* button is pressed, an open session has the id of a session the server started
\* and STOPPED means it completed it; a stopped or failed session without an id is
\* about to be replaced.
THEOREM DisplayTrue == LinkSpec => []DisplayIsTrue
<1>1. LinkInv => DisplayIsTrue
  BY DEF LinkInv
<1> QED
  BY <1>1, LinkInvariance, PTL

\* No press of START or STOP is forgotten: while the display says so, the request
\* stands or the task is at work on it.
THEOREM PressesAreServed == LinkSpec => []RequestIsServed
<1>1. LinkInv => RequestIsServed
  BY DEF LinkInv
<1> QED
  BY <1>1, LinkInvariance, PTL

-----------------------------------------------------------------------------
(* The server of the link *)

\* The sessions of the one device the link is about, as SessionService has them.
Esp32 == 0
DeviceService == INSTANCE SessionService WITH
  Devices <- {Esp32}, Sessions <- Sids, Seqs <- {}, None <- NoId,
  owner <- [s \in Sids |-> IF srv[s] = "absent" THEN NoId ELSE Esp32],
  status <- srv,
  data <- [s \in Sids |-> {}]

SessionStates == srv \in [Sids -> {"absent", "active", "completed"}]

\* A step starts a session, completes one or leaves the server's sessions alone.
LEMMA ServerSteps ==
  ASSUME [LinkNext]_linkVars
  PROVE  \/ UNCHANGED srv
         \/ \E s \in Sids : StartAtServer(s) \/ CompleteAtServer(s)
<1> USE DEF server
<1>1. CASE UNCHANGED linkVars
  BY <1>1 DEF linkVars
<1>2. CASE Handle \/ StrayArrives \/ Operator
  BY <1>2 DEF Handle, HandleStart, HandleActive, HandleStop, HandleTelemetry, StrayArrives,
              Operator, CompleteAtServer, Active
<1>3. CASE PressStart \/ PressStop \/ Reconnect \/ Disconnect \/ RecoveryDue \/ NewFrame
  BY <1>3 DEF PressStart, PressStop, Reconnect, Disconnect, RecoveryDue, NewFrame
<1>4. CASE Loop \/ TimeOut \/ Reboot
  BY <1>4 DEF Loop, Send, SendRecover, SendStop, SendStart, SendTelemetry, TimeOut, Reboot
<1>5. CASE After
  BY <1>5 DEF After, RecoverOk, RecoverPublish, RecoverNone, RecoverIdle, RecoverRetry,
              StartPublish, StartFinish, StartConflict, StartFail, ConflictFail, ConflictRetry,
              StopDone, TelemetryDone
<1> QED
  BY <1>1, <1>2, <1>3, <1>4, <1>5 DEF LinkNext

\* The sessions of the server move as the service lets them move.
LEMMA ServerStepRefines ==
  ASSUME SessionStates, [LinkNext]_linkVars
  PROVE  SessionStates' /\ [DeviceService!SessionNext]_(DeviceService!svars)
<1> DEFINE owned(f) == [s \in Sids |-> IF f[s] = "absent" THEN NoId ELSE Esp32]
<1> USE LinkAssumption DEF SessionStates
<1>1. CASE UNCHANGED srv
  BY <1>1 DEF DeviceService!svars
<1>2. ASSUME NEW s \in Sids, StartAtServer(s)
      PROVE  SessionStates' /\ DeviceService!SessionNext
  <2>1. srv' = [srv EXCEPT ![s] = "active"] /\ srv[s] = "absent" /\ Active = {}
    BY <1>2 DEF StartAtServer
  <2>2. owned(srv') = [owned(srv) EXCEPT ![s] = Esp32]
    BY <2>1
  <2>3. DeviceService!Open(Esp32) = {}
    BY <2>1 DEF DeviceService!Open, Active
  <2>4. DeviceService!StartSession(s, Esp32)
    BY <2>1, <2>2, <2>3 DEF DeviceService!StartSession
  <2> QED
    BY <2>1, <2>4 DEF DeviceService!SessionNext
<1>3. ASSUME NEW s \in Sids, CompleteAtServer(s)
      PROVE  SessionStates' /\ DeviceService!SessionNext
  <2>1. srv' = [srv EXCEPT ![s] = "completed"] /\ srv[s] = "active"
    BY <1>3 DEF CompleteAtServer, Active
  <2>2. owned(srv') = owned(srv)
    BY <2>1
  <2>3. s \in DeviceService!Open(Esp32)
    BY <2>1 DEF DeviceService!Open
  <2>4. DeviceService!CompleteSession(s, Esp32)
    BY <2>1, <2>2, <2>3 DEF DeviceService!CompleteSession
  <2> QED
    BY <2>1, <2>4 DEF DeviceService!SessionNext
<1> QED
  BY <1>1, <1>2, <1>3, ServerSteps

\* The link asks no more of its server than the service promises: every move of
\* the server's sessions is an operation of SessionService.
THEOREM ServerIsTheService == LinkSpec => DeviceService!SessionSpec
<1>1. LinkInit => SessionStates /\ DeviceService!SessionInit
  BY DEF LinkInit, SessionStates, DeviceService!SessionInit
<1>2. SessionStates /\ [LinkNext]_linkVars => SessionStates'
  BY ServerStepRefines
<1>3. SessionStates /\ [LinkNext]_linkVars => [DeviceService!SessionNext]_(DeviceService!svars)
  BY ServerStepRefines
<1> QED
  BY <1>1, <1>2, <1>3, PTL DEF LinkSpec, DeviceService!SessionSpec
=============================================================================
