-------------------------- MODULE OfficialPipeline --------------------------
(***************************************************************************)
(* From official bundles below the protected root to the external test of  *)
(* an ultrasonic sensor: the rescan and its immutable registrations        *)
(* (official_dataset.py, experiment_store.py), the training on the         *)
(* registered data, its activation, the calibration of a device's profile, *)
(* the sessions that freeze it and the tests of those sessions (main.py,   *)
(* simulation_store.py).                                                   *)
(*                                                                         *)
(* Rescans run in threads and lock nothing; an operator may put other      *)
(* files below the root at any time, also between the two reads of a table *)
(* that is loaded: once for its hash and once for its rows.  What the      *)
(* artifact lock covers is one step here, or the steps from TrainBegin to  *)
(* TrainEnd; OfficialModel has the steps, and the crashes, in between.     *)
(* There is one device.                                                    *)
(***************************************************************************)
EXTENDS OfficialData

CONSTANTS
  Threads, Runs, Sessions,
  Folders,       \* bundle directories in the order of a rescan, dataset/version
  DatasetOf,     \* DatasetOf[f]: the dataset id of folder f
  Bundles,       \* contents an operator may put into a folder
  SitePicks,     \* sets of sites a training may select
  RisePool,      \* sequences of valid ultrasonic rises a session may collect
  ManualPool,    \* gains and reference levels of an exploratory profile
  MaxEvaluated,  \* SENSOR_EXTERNAL_TEST_MAX_SAMPLES
  MaxStamps,     \* bound: registration records ever made
  MaxChanges     \* bound: changes of the files below the root

ASSUME PipelineAssumption ==
  /\ Folders \in Seq(Range(Folders))
  /\ \A b \in Bundles :
       /\ {b.gap, b.horizon} \subseteq Int
       /\ \A s \in Splits : b.splits[s][1] \in Int /\ b.splits[s][2] \in Int
       /\ IsFiniteSet(b.rows) /\ \A r \in b.rows : r.at \in Int
  /\ RisePool \subseteq Seq(Int)
  /\ None \notin Sessions

VARIABLES
  disk,      \* disk[f]: the bundles whose manifest and whose table are in f, or None
  changes,   \* changes of disk so far
  registry,  \* registry[f]: registration record of folder f, or None
  tmp,       \* tmp[f]: the temporary file of that record, or None
  stamps,    \* records made so far (registered_at)
  row,       \* row[d]: official_dataset_versions row of dataset d, or None
  job,       \* job[t]: the rescan or the training of thread t, or None
  run,       \* run[r]: status of the run, with its artifact when it succeeded
  active,    \* official_model_activation.run_id
  profile,   \* sensor_test_profiles row of the device, or None
  session,   \* session[s]: state and valid rises of a collection session
  snapshot,  \* snapshot[s]: the profile frozen at the start of s, or None
  tests      \* sensor_test_runs

files == <<disk, changes, registry, tmp, stamps>>
device == <<profile, session, snapshot, tests>>
vars == <<files, row, job, run, active, device>>

Datasets == {DatasetOf[f] : f \in Range(Folders)}
Failed == [status |-> "failed"]
Nothing == [state |-> "absent", rises |-> <<>>]

Init ==
  /\ disk \in [Range(Folders) -> {[manifest |-> b, table |-> b] : b \in Bundles} \cup {None}]
  /\ changes = 0 /\ stamps = 0
  /\ registry = [f \in Range(Folders) |-> None]
  /\ tmp = [f \in Range(Folders) |-> None]
  /\ row = [d \in Datasets |-> None]
  /\ job = [t \in Threads |-> None]
  /\ run = [r \in Runs |-> [status |-> "absent"]]
  /\ active = None /\ profile = None
  /\ session = [s \in Sessions |-> Nothing]
  /\ snapshot = [s \in Sessions |-> None]
  /\ tests = {}

At(t, step) == job[t] # None /\ job[t].step = step
Goto(t, what) == job' = [job EXCEPT ![t] = what]
Idle(t) == Goto(t, None)

\* A training holds SIMULATION_ARTIFACT_LOCK.
Training(t) == At(t, "load") \/ At(t, "fit")
Unlocked == \A t \in Threads : ~Training(t)
Succeeded(r) == r # None /\ run[r].status = "succeeded"
InState(s, state) == session[s].state = state
Collecting == \E s \in Sessions : InState(s, "active")

-----------------------------------------------------------------------------
(* validate_official_dataset(), in its two reads of the table, and what            *)
(* load_registered_official_dataset() adds                                         *)

\* What the rows of a table are with a manifest that was read before.
Contents(manifest, table) ==
  [origin |-> manifest.origin, sites |-> manifest.sites, span |-> manifest.span,
   splits |-> manifest.splits, gap |-> manifest.gap, horizon |-> manifest.horizon,
   rows |-> table.rows]

\* The table and the archives have the hashes the manifest says.
Intact(f) == disk[f] # None /\ disk[f].table = disk[f].manifest

\* The manifest is read and valid, and the table is hashed.
Hashed(f) == Intact(f) /\ ManifestValid(disk[f].manifest)

\* Then the rows of the table that is there now are read and validated, and the
\* bytes of the manifest that is there now are hashed.
RowsRead(f, manifest) ==
  /\ disk[f] # None /\ disk[f].table # None
  /\ BundleValid(Contents(manifest, disk[f].table))
Hashes(f, manifest) == [manifest |-> manifest, file |-> disk[f].manifest]

\* Mutant of Registered: the hashes are not compared with the record.
RegisteredUncompared(f, manifest, record) == RowsRead(f, manifest)

\* The hashes are those of the registration; the rows are compared with nothing.
Registered(f, manifest, record) ==
  RowsRead(f, manifest) /\ record.hashes = Hashes(f, manifest)

-----------------------------------------------------------------------------
(* Files below the protected root *)

\* An operator replaces or removes a bundle, or its manifest or its table alone;
\* None is a table, or an archive, that no manifest knows.
Change(f) ==
  /\ changes < MaxChanges /\ changes' = changes + 1
  /\ \E d \in [manifest : Bundles, table : Bundles \cup {None}] \cup {None} :
       d # disk[f] /\ disk' = [disk EXCEPT ![f] = d]
  /\ UNCHANGED <<registry, tmp, stamps, row, job, run, active, device>>

-----------------------------------------------------------------------------
(* POST /official-datasets/rescan *)

\* discover_official_dataset_bundles().
Discover(t) ==
  /\ job[t] = None
  /\ Goto(t, [step |-> "look", left |-> {i \in DOMAIN Folders : disk[Folders[i]] # None},
              found |-> <<>>])
  /\ UNCHANGED <<files, row, run, active, device>>

\* The bundle whose turn it is.
Turn(t) == Folders[Lowest(job[t].left)]

\* The rescan of that bundle goes on with what is known of it.
Registering(t, step, known) ==
  Goto(t, [step |-> step, left |-> job[t].left, found |-> job[t].found, known |-> known])

\* A bundle that fails ends the rescan, also for those that were found before it.
Found(t, f, record) ==
  Goto(t, [step |-> "look", left |-> job[t].left \ {Lowest(job[t].left)},
           found |-> Append(job[t].found, [folder |-> f, record |-> record])])

\* register_official_dataset(): the bundle is validated,
Look(t) ==
  /\ At(t, "look") /\ job[t].left # {}
  /\ LET f == Turn(t)
     IN  IF Hashed(f) THEN Registering(t, "read", disk[f].manifest) ELSE Idle(t)
  /\ UNCHANGED <<files, row, run, active, device>>
ReadRows(t) ==
  /\ At(t, "read")
  /\ LET f == Turn(t)
     IN  IF RowsRead(f, job[t].known)
         THEN Registering(t, "lookup", Hashes(f, job[t].known))
         ELSE Idle(t)
  /\ UNCHANGED <<files, row, run, active, device>>

\* and registered if its registration is not there.
Lookup(t) ==
  /\ At(t, "lookup") /\ registry[Turn(t)] = None
  /\ stamps < MaxStamps /\ stamps' = stamps + 1
  /\ Registering(t, "write", [hashes |-> job[t].known, stamp |-> stamps + 1])
  /\ UNCHANGED <<disk, changes, registry, tmp, row, run, active, device>>

\* The record goes to a temporary file, whose name is the same for every thread,
WriteRecord(t) ==
  /\ At(t, "write")
  /\ tmp' = [tmp EXCEPT ![Turn(t)] = job[t].known]
  /\ Goto(t, [job[t] EXCEPT !.step = "replace"])
  /\ UNCHANGED <<disk, changes, registry, stamps, row, run, active, device>>

\* which takes the place of the registration; it may be gone already.
ReplaceRecord(t) ==
  /\ At(t, "replace")
  /\ LET f == Turn(t)
     IN  IF tmp[f] = None
         THEN Idle(t) /\ UNCHANGED <<registry, tmp>>
         ELSE /\ registry' = [registry EXCEPT ![f] = tmp[f]]
              /\ tmp' = [tmp EXCEPT ![f] = None]
              /\ Registering(t, "reload", None)
  /\ UNCHANGED <<disk, changes, stamps, row, run, active, device>>

\* A registration that was there, or was just made, is loaded with its bundle,
Load(t) ==
  LET f == Turn(t)
  IN  /\ At(t, "reload") \/ (At(t, "lookup") /\ registry[f] # None)
      /\ IF registry[f] # None /\ Hashed(f)
         THEN Registering(t, "verify", [seen |-> job[t].known, record |-> registry[f],
                                        manifest |-> disk[f].manifest])
         ELSE Idle(t)
      /\ UNCHANGED <<files, row, run, active, device>>

\* and must be of the content that was validated.
Verify(t) ==
  /\ At(t, "verify")
  /\ LET f == Turn(t)
         known == job[t].known
     IN  IF /\ Registered(f, known.manifest, known.record)
            /\ known.seen \in {None, known.record.hashes}
         THEN Found(t, f, known.record)
         ELSE Idle(t)
  /\ UNCHANGED <<files, row, run, active, device>>

\* upsert_official_dataset(), one transaction per bundle: a dataset id keeps its
\* version and its hashes.
Upsert(t) ==
  /\ At(t, "look") /\ job[t].left = {}
  /\ IF job[t].found = <<>>
     THEN Idle(t) /\ UNCHANGED row
     ELSE LET d == DatasetOf[Head(job[t].found).folder]
          IN  /\ row' = [row EXCEPT ![d] = IF @ = None THEN Head(job[t].found) ELSE @]
              /\ Goto(t, [job[t] EXCEPT !.found = Tail(@)])
  /\ UNCHANGED <<files, run, active, device>>

-----------------------------------------------------------------------------
(* Training and activation *)

\* Under the lock the dataset is loaded from the registration file that its row
\* names: hashed,
TrainBegin(t, r, d, sites) ==
  /\ job[t] = None /\ Unlocked /\ run[r].status = "absent"
  /\ row[d] # None
  /\ LET f == row[d].folder
     IN  /\ registry[f] # None /\ Hashed(f)
         /\ Goto(t, [step |-> "load", r |-> r, dataset |-> d, sites |-> sites, folder |-> f,
                     record |-> registry[f], manifest |-> disk[f].manifest, since |-> changes])
  /\ UNCHANGED <<files, row, run, active, device>>

\* then read and compared with the registration.  What was read is assessed, and
\* what fails leaves no run.
TrainLoad(t) ==
  /\ At(t, "load")
  /\ LET j == job[t]
         data == Contents(j.manifest, disk[j.folder].table)
     IN  IF /\ Registered(j.folder, j.manifest, j.record)
            /\ j.sites \subseteq data.sites /\ Ready(data, j.sites)
         THEN Goto(t, [step |-> "fit", r |-> j.r, dataset |-> j.dataset, sites |-> j.sites,
                       record |-> j.record, data |-> data, undisturbed |-> changes = j.since])
         ELSE Idle(t)
  /\ UNCHANGED <<files, row, run, active, device>>

\* The artifact is written when every site has a mapping reference; a fit may
\* fail for other reasons.
TrainEnd(t) ==
  /\ At(t, "fit")
  /\ LET j == job[t]
         artifact == [status |-> "succeeded", dataset |-> j.dataset, record |-> j.record,
                      data |-> j.data, undisturbed |-> j.undisturbed,
                      sites |-> j.sites, activatable |-> Activatable(j.data, j.sites)]
     IN  \/ run' = [run EXCEPT ![j.r] = Failed]
         \/ Fits(j.data, j.sites) /\ run' = [run EXCEPT ![j.r] = artifact]
  /\ Idle(t)
  /\ UNCHANGED <<files, row, active, device>>

\* A process dies with its thread.
Crash(t) ==
  /\ job[t] # None
  /\ run' = IF At(t, "fit") THEN [run EXCEPT ![job[t].r] = Failed] ELSE run
  /\ Idle(t)
  /\ UNCHANGED <<files, row, active, device>>

\* What the artifact of a run was made from.
BundleOf(r) == run[r].data

\* load_official_model(require_activatable=True): artifacts never change.
Loads(r) == Succeeded(r) /\ run[r].activatable

\* Not while a session that froze a profile is active.
Activate(r) ==
  /\ Unlocked /\ Loads(r)
  /\ \A s \in Sessions : InState(s, "active") => snapshot[s] = None
  /\ active' = r
  /\ UNCHANGED <<files, row, job, run, device>>

-----------------------------------------------------------------------------
(* The sensor profile *)

\* The active model has a context for the site.
HasContext(site) == Loads(active) /\ site \in run[active].sites

\* build_sensor_proxy_profile() from the valid samples of a completed session.
SaveFormal(site, s) ==
  /\ Unlocked /\ HasContext(site) /\ ~Collecting
  /\ InState(s, "completed") /\ Len(session[s].rises) >= MinCalibration
  /\ LET rises == Quantiles(session[s].rises)
         official == MappingReference(BundleOf(active), site)
     IN  /\ rises[1] < rises[2]
         /\ profile' = [run |-> active, site |-> site, calibration |-> s,
                        official |-> official, rises |-> rises,
                        map |-> FormalMapping(official, rises)]
  /\ UNCHANGED <<files, row, job, run, active, session, snapshot, tests>>

SaveExploratory(site, manual) ==
  /\ Unlocked /\ HasContext(site) /\ ~Collecting /\ manual[1] > 0
  /\ profile' = [run |-> active, site |-> site, calibration |-> None,
                 map |-> ManualMapping(manual[1], manual[2])]
  /\ UNCHANGED <<files, row, job, run, active, session, snapshot, tests>>

DeleteProfile ==
  /\ profile # None /\ ~Collecting
  /\ profile' = None
  /\ UNCHANGED <<files, row, job, run, active, session, snapshot, tests>>

-----------------------------------------------------------------------------
(* Sessions and external tests *)

\* start_simulation_session(); with the official model selected the profile is
\* frozen, which must be the active model's.
Start(s, official) ==
  /\ InState(s, "absent") /\ ~Collecting
  /\ official => active # None /\ profile # None /\ profile.run = active
  /\ \E rises \in RisePool :
       session' = [session EXCEPT ![s] = [state |-> "active", rises |-> rises]]
  /\ snapshot' = [snapshot EXCEPT ![s] = IF official THEN profile ELSE None]
  /\ UNCHANGED <<files, row, job, run, active, profile, tests>>

Stop(s) ==
  /\ InState(s, "active")
  /\ session' = [session EXCEPT ![s].state = "completed"]
  /\ UNCHANGED <<files, row, job, run, active, profile, snapshot, tests>>

\* Mutant of ReferencedBy: frozen profiles do not protect their calibration.
ReferencedByLive(s) ==
  \/ \E x \in tests : x.session = s
  \/ profile # None /\ profile.calibration = s

\* What keeps delete_simulation_session() from deleting a completed session.
ReferencedBy(s) ==
  \/ \E x \in tests : x.session = s
  \/ profile # None /\ profile.calibration = s
  \/ \E u \in Sessions : snapshot[u] # None /\ snapshot[u].calibration = s

\* The session goes with its samples and its frozen profile.
DeleteSession(s) ==
  /\ Unlocked /\ InState(s, "completed") /\ ~ReferencedBy(s)
  /\ session' = [session EXCEPT ![s] = Nothing]
  /\ snapshot' = [snapshot EXCEPT ![s] = None]
  /\ UNCHANGED <<files, row, job, run, active, profile, tests>>

\* load_sensor_proxy_profile(): a formal mapping follows from its quantiles, which
\* are those of the model.
ProfileLoads(p) ==
  /\ Loads(p.run) /\ p.site \in run[p.run].sites /\ p.map.num > 0
  /\ p.calibration # None =>
       /\ p.official = MappingReference(BundleOf(p.run), p.site)
       /\ p.rises[1] < p.rises[2] /\ p.map = FormalMapping(p.official, p.rises)

\* create_sensor_external_test_run(): the earliest valid samples of a completed
\* session, with the model and the profile frozen at its start.
Test(s) ==
  /\ Unlocked /\ InState(s, "completed") /\ session[s].rises # <<>>
  /\ snapshot[s] # None /\ snapshot[s].calibration # s /\ ProfileLoads(snapshot[s])
  /\ LET p == snapshot[s]
         q == session[s].rises
         evaluated == {q[i] : i \in {j \in DOMAIN q : j <= MaxEvaluated}}
         range == LevelRange(BundleOf(p.run), run[p.run].sites)
     IN  tests' = tests \cup
           {[session |-> s, run |-> p.run, evaluated |-> evaluated,
             ood |-> {x \in evaluated : OutOfDistribution(p.map, range, x)}]}
  /\ UNCHANGED <<files, row, job, run, active, profile, session, snapshot>>

-----------------------------------------------------------------------------

Rescan(t) ==
  \/ Discover(t) \/ Look(t) \/ ReadRows(t) \/ Lookup(t) \/ WriteRecord(t) \/ ReplaceRecord(t)
  \/ Load(t) \/ Verify(t) \/ Upsert(t)

Next ==
  \/ \E f \in Range(Folders) : Change(f)
  \/ \E t \in Threads :
       \/ Rescan(t) \/ TrainLoad(t) \/ TrainEnd(t) \/ Crash(t)
       \/ \E r \in Runs, d \in Datasets, sites \in SitePicks : TrainBegin(t, r, d, sites)
  \/ \E r \in Runs : Activate(r)
  \/ active # None /\ \E site \in run[active].sites :
       \/ \E s \in Sessions : SaveFormal(site, s)
       \/ \E manual \in ManualPool : SaveExploratory(site, manual)
  \/ DeleteProfile
  \/ \E s \in Sessions :
       \/ \E official \in BOOLEAN : Start(s, official)
       \/ Stop(s) \/ DeleteSession(s) \/ Test(s)

Spec == Init /\ [][Next]_vars
-----------------------------------------------------------------------------
(* Properties *)

\* The label of a row is about the hours after it, up to the horizon.
LabelHours(b, x) == x.at + 1 .. x.at + b.horizon

\* No hour that a label of the training, or of the validation, is about is one
\* that a label of a later split is about, or lies after an hour in which a
\* prediction of a later split is made; it may be that very hour.  No storm is in
\* two splits, whatever was registered and selected.  The model that is active
\* could be compared with the threshold at every site.
HoldoutsAreUnseen ==
  \A r \in Runs : Succeeded(r) =>
    LET b == BundleOf(r)
        sites == run[r].sites
        Apart(s, u) ==
          \A x \in RowsOf(b, s, sites), y \in RowsOf(b, u, sites) :
            /\ \A h \in LabelHours(b, x) : h <= y.at /\ h \notin LabelHours(b, y)
            /\ x.storm = y.storm => x.storm = None
    IN  /\ Apart("train", "validation") /\ Apart("train", "frozen_test")
        /\ Apart("validation", "frozen_test")
        /\ r = active =>
             \A site \in sites, s \in Holdouts : BothClasses(RowsOf(b, s, {site}))

\* Every model names exactly the registration that the database holds for its
\* dataset and was trained with the manifest registered there.  The rows are those
\* of the registered table too, unless an operator changed files between the hash
\* of the table and the read of its rows.
TrainedOnRegistered ==
  \A r \in Runs : Succeeded(r) =>
    LET registered == run[r].record.hashes.manifest
    IN  /\ row[run[r].dataset] # None /\ run[r].record = row[run[r].dataset].record
        /\ \E table \in Bundles :
             /\ run[r].data = Contents(registered, table)
             /\ run[r].undisturbed => table = registered

\* A rise between the calibration's quantiles is never reported as out of the
\* distribution of the water level, whatever model and profile came after.
CalibratedIsInDistribution ==
  \A x \in tests :
    LET c == snapshot[x.session].calibration
    IN  c # None => \A rise \in x.ood : ~Within(Quantiles(session[c].rises), 20 * rise)

\* What a profile, a frozen profile or a test was made from stays: its completed
\* calibration session, which is another one than the tested, and the
\* activatable model of its run.
ProvenanceIsKept ==
  LET Sound(p) ==
        /\ Loads(p.run)
        /\ p.calibration # None => InState(p.calibration, "completed")
  IN  /\ profile # None => Sound(profile)
      /\ \A s \in Sessions : snapshot[s] # None =>
           Sound(snapshot[s]) /\ ~InState(s, "absent") /\ snapshot[s].calibration # s
      /\ \A x \in tests :
           /\ InState(x.session, "completed")
           /\ snapshot[x.session] # None /\ snapshot[x.session].run = x.run
=============================================================================
