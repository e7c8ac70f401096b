# CoastWatch: TLA+ specification, model checking and proofs

CoastWatch warns people on a shore. An ESP32 with an ultrasonic echo sensor and an
OpenMV camera decides locally whether to raise an alarm, uploads telemetry, and
collects labelled sessions from which a server trains water models. The server runs
as two processes, the device gateway and the main application, over one SQLite
database and one model directory; it scores risk from telemetry, weather and the
selected model. An offline pipeline trains, tests and monitors a coastal impact model.

This directory specifies the parts of the system in which steps of several actors,
failures and restarts meet, and the pure rules on which those parts stand. Every
definition is translated from the code; `PROJECT.json` maps each one to its lines.

Contents: [1 The system](#1-the-system) · [2 The modules](#2-the-modules) ·
[3 What is checked](#3-what-is-checked) · [4 What is proved](#4-what-is-proved) ·
[5 Where code and documentation disagree](#5-where-code-and-documentation-disagree) ·
[6 What is not modelled](#6-what-is-not-modelled) · [7 Plan](#7-plan) ·
[8 Running it](#8-running-it)

## 1 The system

Paths are relative to `src/`.

| component | state it keeps | operations | talks to |
|---|---|---|---|
| sequence allocator, `firmware/esp32/src/persistent_sequence.cpp` | a record in NVS; next value and end of the reserved block in memory | `begin`, `next`, `reserveBlock` | sensing loop, flash |
| sensing loop, `firmware/esp32/src/{main,sensor_logic,openmv_control}.cpp` | echo reference and age, last camera frame, time of the last telemetry frame | one pass: read clock, accept VIS lines, poll the echo, publish, send CTL | echo driver, camera over UART, network task through mutex-protected snapshots |
| echo driver, `firmware/esp32/src/ultrasonic_sensor.cpp` | capture shared with an interrupt, polling state, deadlines | `poll`, the ECHO interrupt | sensing loop |
| network task, `firmware/esp32/src/network_uplink.cpp` | the session as the device sees it, request flags, pending frame, Wi-Fi, selected location and model | one iteration: drain queue, recover, stop, start, upload, poll environment and risk | touch screen (flags under a spin lock), server (HTTP) |
| OpenMV camera, `firmware/openmv/` | last accepted control frame, detector filters, last result, status light | one pass: take CTL frames, photograph, set the light, send VIS | sensing loop |
| session store, `server/app/{simulation_store,database}.py` | sessions, samples, labels, scenarios, telemetry rows | start, stop, ingest, label, scenario, delete | both server processes; SQLite |
| official experiment, `server/app/{experiment_store,model_registry,simulation_artifacts}.py` | training runs, active model, sensor profiles, frozen snapshots, the artifact lock | train, activate, save or delete a profile, select, recover at start | both processes; file lock |
| official data and estimator, `server/app/{official_dataset,official_model,sensor_proxy_model}.py` | bundles below a protected root, their immutable registrations | rescan, assess, train, calibrate, test a sensor | operator's files, official experiment |
| custom training, `server/app/{simulation_model,simulation_service,training_quality}.py` | current model, archive, temporary files | train, publish, delete a session | session store, artifact lock |
| environment cache, `server/app/environment.py` | weather and places with the time of their fetch | get, search, resolve | weather provider |
| risk, `server/app/{risk_dispatch,risk_model,gateway}.py` | none of its own | one request: some ten reads | all stores |
| administrator login, dashboard | a window of failed logins; a page | | browser |
| offline pipeline, `ml/coastwatch_impact/{workflow,cli}.py`, `data/`, `evaluation/` | datasets, runs, calibrations, thresholds, tests, bundles on disk; a lock file | one command per stage; replay | operator |
| synthetic run, `ml/coastwatch_impact/synthetic_e2e.py` | one directory with a manifest and a progress file | run, replot | operator, watcher |
| shadow service and monitoring, `ml/coastwatch_impact/{serve,monitoring}/` | an append-only log, reports with checksums | predict, report | operator, reviewers' catalogue |
| deployment, STM32 predecessor | files | | none at run time |

**How the parts interact.** The device's two cores share state through short critical
sections; the network task makes its HTTP calls outside them. Device and server
agree on a session only through calls that can be lost in either direction. On the
server, request threads of two processes share SQLite. Python's `sqlite3` opens a
transaction at the first INSERT, UPDATE or DELETE, so the SELECTs before it are
transactions of their own, and whatever they established can be gone when the write
happens. What must be atomic across processes uses a unique index, a foreign key,
`BEGIN IMMEDIATE` or the artifact lock file. Offline, the parts are commands over
one directory tree: what one leaves behind, also when it is killed, the next one finds.

**What is hard, and what makes each part correct.**

* *Sequence allocator.* Power can go between any two flash operations, and a flash
  call can lie about what it did. A number must never be issued twice; a damaged
  record must stop the allocator and not restart it.
* *Echo driver.* The sensor may answer late, for longer than the timeout, or not at
  all, and the interrupt may finish an echo while the poll gives it up. A distance must
  be that of the ping it is taken for.
* *Sensing loop.* One clock reading per pass, stamps made before and after it, a
  32-bit clock that wraps. Nothing stale may be reported as healthy, and the camera
  may be told that all is well only on fresh evidence.
* *Camera.* It repeats old results in new frames and keeps an old command on its
  light; a restarted ESP32 numbers its commands from zero again.
* *Session store.* Checks and writes of different requests interleave. One active
  session per device, no rows without their session, a completed session never
  changes, and nothing that a model was made from is deleted.
* *Session between device and server.* Lost answers, calls that arrive after the
  device gave up, restarts, presses between critical sections. What the display says
  must be true of the server, and no transient state may last for ever.
* *Official experiment and data.* Processes die while they hold the lock or train;
  files change under a rescan. Trainings exclude each other, holdouts stay unseen,
  a model names the data it was made from, a test keeps the model it began with.
* *Custom training.* Files are replaced one after the other while the other process
  reads them without a lock. A published model is whole, archived, and traceable.
* *Environment and risk.* A request makes its reads one by one while uploads and
  operators go on; a provider call under a lock takes seconds. Nothing stale may pass
  for live, and nothing quiet may be said from inputs of two moments.
* *Offline pipeline.* Hours at the edges of splits, labels and episodes; commands that
  overlap, fail or are killed. No leak from test to training, no unknown hour counted
  as calm, no release without its test, no report on rows that its log does not hold.

The list of hazards in `PROJECT.json` gives the line at which each one bites and the
properties that watch it.

## 2 The modules

| module | models | refines, uses |
|---|---|---|
| `SequenceIssuer` | the allocator's promise: every number is above all earlier ones | |
| `PersistentSequence` | the allocator with flash failures and resets | refines `SequenceIssuer` |
| `OpenMvCamera` | passes of the camera, its control state, filters and light; the ESP32 only as a sender | |
| `UltrasonicDriver` | `poll()` against the ECHO interrupt and a slow sensor | |
| `SensorRuntime` | passes of the sensing loop over a wrapping clock | |
| `SessionService` | the session store's promise: atomic start, append, complete, delete | |
| `SimulationStore` | the store with the checks and the write of a request apart | refines `SessionService` |
| `CollectionLink` | touch screen, network task, lossy calls, server and operator | |
| `OfficialModel` | training runs, lock, activation, profiles, processes that die | |
| `OfficialData` | no state: bundles, splits, assessment, quantiles, the mapping of a rise | |
| `OfficialPipeline` | rescan, training, activation, calibration, tests | uses `OfficialData` |
| `TelemetryWindow` | no state: contiguous rows and whole windows, for training and live | |
| `WaterTraining` | custom training, artifact files, archive, deletion | uses `TelemetryWindow` |
| `EnvironmentCache` | the weather cache and its lock, searches and presets | |
| `RiskService` | one risk request read by read | uses `EnvironmentCache`, `TelemetryWindow` |
| `ImpactData` | no state: labels, splits, sampling, folds, episodes, matching | |
| `ImpactPipeline` | dataset, fits, predictions and threshold over one catalogue | uses `ImpactData` |
| `ShadowMonitoring` | the shadow service's log and the reports made from it | uses `ImpactData` |
| `ImpactWorkflow` | the offline artifacts and the commands that make them; raw downloads | |
| `SyntheticRun` | one directory of synthetic runs and replots | |
| `MC*` | the instance a run checks: constants, symmetry, focus | |
| `*Proofs` | the theorems about the module they name; `DevicePartsProofs` has those of the device's four modules, `SimulationStoreProofs` also those of `CollectionLink`, `ImpactWorkflowProofs` of `SyntheticRun`, `ImpactPipelineProofs` of `ShadowMonitoring` | |

Where one run checks several parts, or several settings of a part, its `MC` module
chooses one of them at the start (`focus`, `alone`) and the others stand still: the
states add up and do not multiply. The parts put together this way do not share
state; where they do, one module uses the other.

Definitions whose comment begins "Mutant of X" are not part of a specification. Each
is a plausible bug in X, written before X with its parameters; putting it in X's
place must break the property named for it in `PROJECT.json`. They show that the
property depends on the code.

### PersistentSequence
`nvs` and `nvsUntil` are the stored record (its kind and `reserved_until_exclusive`);
`state`, `nextValue` and `reservedUntil` are the members of the object. A call that
reaches `reserveBlock` is in `pc = "write"` before `putBytes` and in `"verify"` before
the read-back, which is where `Crash` can interrupt it and where each NVS call can
fail. A failed write may have replaced the record. `Damage` makes the record fail its
checksum. `log` is a history variable: every number returned, over all boots.

### SimulationStore
One variable per column or table that the properties need. A request is a check
action, which leaves a record in `req[w]`, and a commit action that sees the current
database and applies exactly the conditions the SQL has (unique index, primary key,
foreign key, `WHERE state = 'active'`). `insert_telemetry` writes first and
`delete_simulation_session` takes the write lock first: one action each. `Abort` stands
for a rollback, a busy database and a dead process. `Train` stands for the training
artifacts, test runs and profiles that name a session as their source.

### CollectionLink
Variables of the device are the members of `NetworkUplink` and the locals of its task;
`pc` says in which HTTP call or between which two critical sections the task is, and
`wire` whether the call was seen by the server. `TimeOut` can come before or after the
server acted; a start or a stop may stay behind as `stray` and arrive later. The server
is a list of sessions that behaves as `SessionService` promises for one device. The
task's order (recover, stop, start, upload) is in the guards of `Send*`. A press has
only the guards of `requestSimulationStart` and `requestSimulationStop` and may fall
between any two steps of the task, also between the two critical sections in which the
answer to a recovery is applied. What the display says is judged with that in mind: a
state without an id is allowed only while a start is queued or under way, or a recovery
is about to publish (`Replaced`).

### OfficialModel
Threads have a home process; `Crash` ends the requests of a process and releases its
lock, as the operating system does; `Boot` is `lifespan()`, which waits for the lock and
fails the rows still running. Training, activation and saving a profile hold the lock
from their check to their write; selecting a model, deleting a profile and starting a
session do not. A failed training leaves the lock before its row is failed.
`UncaughtErrors` says whether a training may end in an exception that its route does not
catch; see 5.

### SensorRuntime
The code keeps stamps and compares differences modulo 2^32. The module keeps the true
age of each stamp and reduces it modulo `ClockSpace` where the code subtracts, so that
what the code believes and what is true can be told apart. `lag` is the time since the
pass read the clock. Distances and filters are abstracted to the thresholds the alarm
compares with; the risk result to what the control decision reads; an event of the
echo driver to any of its outcomes. `copy` is the
snapshot of the risk result that the pass took while the network task may publish
another.

### UltrasonicDriver
An edge of the ECHO line and its handler are one step, since the interrupt preempts
the poll on the core they share; the steps of `poll()` are cut where an edge in between
makes a difference: after the clock is read, after the capture is copied, between the
last quiet reading and the attachment, between the look at ECHO and the trigger.
`capture.unread` is the distance of the two sequence counters. The sensor answers
within `RiseDelay`, holds the line as long as it likes, may ignore a trigger, and may
at boot still be answering a ping of an earlier boot. `truth` is a history variable.

### OpenMvCamera
One action per pass of `run()`: it takes the frames of the receive buffer, photographs
when that is due, updates the detector's filter, the light and the VIS frame. Ages are
true ages. Of the ESP32 there is the number, the command and the moment of a control
frame; any frame may arrive damaged, which also stands for the rest of one that was
cut off. Wraps of the camera's clock (2^30 ms), blinking and VIS numbers are left out.

*The two ends together.* `GreenIsBacked` of the loop says that a green command rests
on fresh evidence when it is sent; `CommandsAreCurrent` says that the light shows green
at most the timeout and two passes of the camera after the ESP32 authorized it. The
VIS frame that counted as fresh evidence tells a picture younger than `Baseline +
MaxPass` (`PictureIsRecent`). The distance that counted is of the latest ping and of the
pass that stamps it (`EchoIsOfThePing`). Adding the four bounds gives the age of the
oldest evidence behind a green light.

### OfficialData and OfficialPipeline
A bundle is a record of its sites, span, splits, gap, horizon and rows; a row says
whether the water is extreme some hours later. The rescan is taken apart at its reads
and writes (the registration row, the registry file), because it holds no lock; what
the artifact lock covers is one step, or the steps from `TrainBegin` to `TrainEnd`. The
code reads a table twice, for its hash and for its rows, and so do rescan (`Look` and
`ReadRows`, `Load` and `Verify`) and training (`TrainBegin` and `TrainLoad`); the operator's
`Change` may come in between.
`OfficialModel` has the crashes in between. A calibration keeps the quantiles of the
rises it saw; a test says which rises were out of distribution.

### TelemetryWindow and WaterTraining
Training reads session by session, each in its own transaction, with labels saved in
between. The artifact's id stands for its hash. Publishing is four steps (staged file,
copy, archive, current), each of which can fail or be the last of a process; a dead
process leaves its temporaries as `litter`. The fit is what it was trained and tested
on. Windows are read from recordings whose clock may have been set back.

### EnvironmentCache and RiskService
A thread holds the cache lock across the provider call; a value is known by the time
its fetch began. A risk request makes its reads in the order of `get_risk`, each a
step of its own, while the device uploads and operators change place, model,
scenario and profile. Without a saved place the weather is that of the location the
deployment configures (`configured`, chosen with the initial state), while the baseline
is told the saved place only. Scores are left out; what is kept is the model that answers,
the rows, environment and context it answers from, and what it says of their quality.

### ImpactData, ImpactPipeline and ShadowMonitoring
`ImpactData` translates the pure functions of `data/` and `evaluation/`, with hours for
times and one zone per site. `ImpactPipeline` runs the stages over every catalogue of a
pool, and the properties compare what they produce with what the catalogue says. In
`ShadowMonitoring` the service appends, reviewers replace the catalogue, and report
jobs read the log, hash it, read the catalogue, hash that after the evaluation, and write
their two files, each in a step of its own; windows are counted in hours, not days. A job
whose log or catalogue is refused (`Mapped`: a zone with two sites, an event without one)
ends as a killed one does. Sorting and iterating are written as functions (`InOrder`, and
recursive functions in place of folds), so that they can be proved about.

### ImpactWorkflow and SyntheticRun
A file is known by what it was made from, which stands for the hashes the code stores
and compares. Every command is a sequence of steps that can fail or be the last one;
commands overlap. An operator removes artifacts only between commands. In
`SyntheticRun` one file stands for the files of a stage, and the inventory is read and
written in one step. `alone`, `single` and `cut` are history variables: whether two
commands were ever active together, and whether a replot was stopped half way.

## 3 What is checked

All runs are exhaustive for their instance. "States" are distinct states.

| run | instance | states | question |
|---|---|---|---|
| `DeviceParts` | allocator: blocks of 2, a space of 6; camera: both detectors, one restart; echo driver: timeout 2, interval 4, answers up to 3 late; loop: clock of 5, limits of 1 and 2 | 1,763,659 | do the parts around the sensing loop keep what it relies on; is what it reports, and what green rests on, truly fresh? |
| `SimulationStore` | 2 devices, 2 sessions, 2 seqs, 2 rows; 2 threads, or one | 676,169 | does what schema and transactions enforce hold under every interleaving, and what only checks enforce under serial requests? |
| `CollectionLink` | 2 sessions | 27,437 | is the display true, does the device get out of transient states? |
| `LostStopAnswer` | 1 session | | finding 5.1 |
| `FailedStopLosesId` | 1 session | | finding 5.2 |
| `OfficialModel` | 2 processes, 2 threads or one, 2 devices, 2 runs | 234,630 | lock, recovery, provenance under crashes; do tests keep model and profile, do runs end? |
| `OfficialPipeline` | 13 bundles, 3 folders, 2 threads, 2 runs, 2 sessions | 263,163 | are holdouts unseen, is a model what its registration says, is a calibration consistent? |
| `WaterTraining` | 4 recordings, 2 processes, 2 trainings | 238,987 | are models traceable, whole and honestly evaluated? |
| `RiskService` | 2 threads, 2 places, one saved or configured; or one request, 3 rows | 245,830 | is what a request says true of one moment, and is every request answered? |
| `ImpactPipeline` | catalogues from a pool of 9 events, 20 hours, 2 sites; 5 predictions, 2 report jobs | 909,835 | do labels, splits, fits, counts and reports agree with the catalogue? |
| `ImpactWorkflow` | 2 processes, 2 settings, 2 removals; 3 synthetic commands, 2 at once | 801,631 | what do failing, killed and overlapping commands leave behind? |
| `FinalTestOnce` | one process, one synthetic command | | finding 5.3 |

**Properties.**

* `DeviceParts`: `IInv` of the allocator (numbers grow over all boots, a block is
  durable before it is used); `DamageFailsClosed` (a step from a damaged record never
  reopens the allocator); `RefinesIssuer`; `CommandsAreCurrent` (the light is green at
  most `Timeout + 2 * MaxPass` after the ESP32 said so, and a restarted ESP32 is refused
  at most `Timeout \div Interval + 1` times); `PictureIsRecent`; `EchoIsOfThePing` (a
  distance is the whole echo of the latest ping, ended since the previous poll, and no
  ping is sent while an answer is outstanding); of the loop `WaterIsFresh` and
  `GreenIsBacked`, about true ages and not about what the wrapped difference says.
* `SimulationStore`: `IInv` (one active session per device, no orphans, samples and
  telemetry rows name each other even after an id is reused, the baseline is the first
  valid echo, sources are kept), `CompletedFrozen`, `RefinesService`; alone
  (`AloneIsSound`, `AloneScenarioFrozen`): a session has its scenario, labels do not
  conflict and have samples, the scenario of an active session does not change.
* `CollectionLink`: `DisplayIsTrue`; the liveness properties `TransientEnds` and
  `ResumesAfterReboot`.
* `OfficialModel`: `IInv` (lock, single flight, live runs spared by recovery,
  provenance); alone `AloneTestIsFrozen` and the liveness property `AloneRunEnds`.
* `OfficialPipeline`: `HoldoutsAreUnseen`, `AloneTrainedOnRegistered`,
  `CalibratedIsInDistribution`, `ProvenanceIsKept`.
* `WaterTraining`: `ModelIsTraceable` (no file loses its sources, the current model is
  archived, nothing published is torn), `HonestEvaluation`, `WindowsAreWhole`.
* `RiskService`: `LiveIsFresh`, `WindowIsDecided`, `FrozenContext`,
  `QuietIsOfOneMoment`, and the liveness property `EveryRequestAnswered`.
* `ImpactPipeline`: `NoSplitLeak`, `NegativesAreEvidence`, `FitsAreBlind`,
  `EventsAreCounted`, `ReportsAreTrue` (a report lies by its checksum unless two jobs met
  between the two files or one was killed there, the log it names holds what it counted,
  its windows leave out nothing between their ends, and the catalogue it names is the one
  it evaluated or a later one).
* `ImpactWorkflow`: `ReleaseIsTested`, `AloneTestIsFinal`, `FilesAreWhole`,
  `SyntheticRunIsWhole` (a directory that verifies holds what its marker's run wrote,
  and nothing fitted on the test split; "complete" means it verifies).

"Alone" restricts a property to behaviours in which requests or commands do not
overlap. It is there where the code does not enforce the property against overlap, and
section 5 says what happens then.

**Bounds, and why they are enough.**

* *Allocator.* Three blocks have a first, a middle and a last one, and the clamp at the
  end of the space.
* *Camera.* `SeqSpace = 6` wraps the control numbers; the timeout of 2 and one restart let
  an old number be refused until the timeout; filters of at most two pictures have all
  their transitions. `WireSpace = 1` is a frame waiting while another is sent.
* *Echo driver.* The sensor may be later (3) than the timeout (2) and must be earlier
  than the interval (4), which is the assumption the code rests on: an HC-SR04 raises
  ECHO half a millisecond after its trigger, and pings are 100 ms apart. Echoes may be
  in range, too short, too long, and longer than the timeout.
* *Sensing loop.* The clock of five ticks, with limits of one and two, is the least in
  which an age can be fresh, stale but not reset, reset, and wrapped to fresh again.
  `LongSilence` names the sources that may be silent for longer than the clock: the echo
  alone. A risk result falls short of safe in one respect at most (`OneDoubt`): each
  reason to refuse green is there, by itself. A camera silent for 49.7 days is a real
  exposure: `vision_seen` is never cleared (`sensor_logic.cpp:255`).
* *Stores.* Two request threads are the least that separate a check from its write;
  operations touch one session, except for the unique index, which needs two.
  `MaxRows = 2` gives a valid and an invalid echo in either order. One request at a time
  has two devices, so that a device's rules are seen not to leak.
* *Link.* Two sessions: the one the device believes in and one that replaced it.
* *Official.* Two runs: one to train while another is active; two devices: one in a test
  while another's profile changes. The bundles differ from a valid one in one respect
  each; `MinTrain`, `MinSites`, `MinCalibration` of 2 and `MinActivation` of 4 are met and
  missed. The focuses are one rescan (with trainings, over two bundles that an operator
  exchanges), two rescans, the data, and the device;
  `MaxStamps = 3` and `MaxChanges = 2` bound the operator, `MaxEvaluated = 2` the tests.
* *Custom training.* Recordings of two to five rows and windows of two; one recording
  has an invalid echo, one was made while the clock was set back, one has no scenario.
  Two trainings publish over one another. `MaxRelabels = 1` is the label between two reads.
* *Risk.* Four focuses: weather, places, window, session. `Ttl = 2`, `GeoTtl = 3` and
  `MaxClock = 4` let an entry be live, stale and refetched during one wait for the lock;
  `MaxRows = 3` is a window of two and a row after it; `MaxChanges = 2` is there and back.
* *Offline data.* The pool puts events on, before and after both split boundaries and
  their buffers, with exact and doubtful times, in each grade of confidence; 20 hours
  hold three splits. Monitoring: five predictions, a window of 2 and steps of 2 and 4
  give adjacent windows and windows with gaps; one fault, two jobs on one destination;
  the log grows and the catalogue changes only while a job may still read them.
* *Offline commands.* Two processes are the least that overlap; `MaxRemovals = 2` lets an
  operator make room for a second run and a second test. Three synthetic commands are
  a run and two replots, or two runs and one; two of them at once.

Symmetry is used only in runs without liveness properties, over constants that no
action and no property names.

**Deadlock** is checked in `DeviceParts`: a device can always reset, pass or poll, and
time goes on. It is not checked in the other runs, whose bounds on rows, sessions, runs,
commands and time end the behaviour, not the code.

**Fairness.** `CollectionLink`: the task runs for ever and its calls have timeouts, so
`Reconnect`, `RecoveryDue`, `TimeOut` and the steps after an answer are weakly fair.
`SendRecover`, `SendStop` and `SendStart` are strongly fair because every iteration of
the loop looks at every request, while the connection under it comes and goes.
`HandleActive` and the publication of its answer are strongly fair: a server asked
again and again answers some day while the device stays up. Nothing is assumed of
the user, of the operator or of starts and stops succeeding.
`OfficialModel`: a thread that has begun ends its request (weak), and a process that
died is started again by its service and polls for the lock until it gets it
(strong, since others take the lock in between).
`RiskService`: a thread goes on with its request (weak); a provider call ends, since it
has a timeout, and a thread that waits for the cache lock gets it some day (strong,
since other threads take it in between).

## 4 What is proved

TLAPS checks the theorems below for every value of the constants that satisfies the
modules' assumptions. They ask no more than this of the code:

| assumption | what it asks, and why the code satisfies it |
|---|---|
| `SizesAssumption` | block and space are positive and one divides the other: 2^12 and 2^32 |
| `DriverAssumption` | `configurationValid()` refuses a timeout that is not below the ping interval; an HC-SR04 raises ECHO within the interval |
| `CameraAssumption`, `WindowAssumption`, `OfficialDataAssumption` | positive sizes and counts, integers for levels |
| `RuntimeAssumption` | the reset time, and the greatest age of a risk result, plus one gap of the loop fit in the clock: seconds in 49.7 days |
| `WaterAssumption`, `PipelineAssumption` | recordings and bundles are finite tables whose times are integers |
| `ImpactAssumption` | `GlobalSplitConfig` and the configuration refuse boundaries out of order and empty windows; only confidences A and B train the primary head; times are integers |
| `CatalogsAssumption`, `MonitoringAssumption` | `EventCatalogRecord` refuses a confirmed event without an onset; windows and steps are positive |
| `WorkflowAssumption` | the artifacts' paths differ from those of staging directories, selections and replays |
| `StoreAssumption`, `LinkAssumption`, `OfficialAssumption`, `CacheAssumption`, `RiskAssumption`, `NoneAssumption` | naturals are naturals, a thread has one process, a null value is no datum |

Some theorems state a hypothesis of their own, which says where the claim stops:
`MaxPass <= Interval` (the camera's pass is no longer than the 500 ms between two
control frames; without it the light is still bounded, `GreenLampIsBacked`, but frames
arrive in batches and the count of refused ones is not), `NoWrap` (camera and risk route
are not silent for 49.7 days, 3), and `AloneSpec` or the `MC` specification for what
the code does not enforce against overlap (section 3, "Alone").

| module | about | theorems |
|---|---|---|
| `DevicePartsProofs` | allocator | `Invariance`, `TypeCorrect`, `NoReissue`, `IssuedBelowBoundary`, `SkipsOneBlock`, `ExhaustionIsReal`, `DamageStaysClosed`, `ImplementsIssuer` |
| | echo driver | `DriverInvariance`, `DistancesAreTrue` |
| | camera | `CameraInvariance`, `GreenLampIsBacked`, `CommandsStayCurrent`, `PicturesAreRecent` |
| | sensing loop | `LoopInvariance`, `LoopTypeCorrect`, `ReferenceIsRecent`, `WaterReportsAreFresh`, `GreenLightIsBacked` |
| `SimulationStoreProofs` | session store | `Invariance`, `TypeCorrect`, `OneActive`, `NothingOrphaned`, `RowsStayLinked`, `FirstValidBaseline`, `SourcesStay`, `CompletedStaysFrozen`, `StepRefines`, `ImplementsService`, `AloneStaysSound`, `AloneKeepsScenario`, `AloneInMC` |
| | device and server | `LinkInvariance`, `LinkTypeCorrect`, `DisplayTrue`, `PressesAreServed`, `ServerIsTheService` |
| `OfficialModelProofs` | official runs | `Invariance`, `TypeCorrect`, `LockExcludes`, `LiveRunsAreSpared`, `OneTraining`, `ProvenanceHolds`, `OutcomesStay`, `AloneFreezes`, `AloneFreezesInMC` |
| `OfficialPipelineProofs` | official data | `PipelineInvariance`, `ProvenanceStays`, `HoldoutsStayUnseen`, `CalibratedStaysInDistribution`, `AloneTrainsOnRegistered` |
| `WaterTrainingProofs` | custom training | `WaterInvariance`, `WaterTypeCorrect`, `ModelStaysTraceable`, `EvaluationsAreHonest`, `WindowsStayWhole` |
| `RiskServiceProofs` | environment and risk | `RiskInvariance`, `WeatherIsFresh`, `AnswersKeepTheirContext`, `QuietAnswersAgree`, `WindowsAreDecided` |
| `ImpactWorkflowProofs` | offline commands | `WorkflowInvariance`, `ReleasesAreTested`, `FilesStayWhole`, `CompletedTestsAreFinal` |
| | synthetic runs | `SyntheticInvariance`, `SyntheticRunsAreWhole` |
| `ImpactPipelineProofs` | offline data | `ImpactInvariance`, `SplitsDoNotLeak`, `FitsStayBlind`, `NegativesStayEvidence`, `EventsStayCounted` |
| | shadow reports | `MonitorInvariance`, `ReportsStayTrue` |

Every module has an inductive invariant. Lemmas show that it holds initially and that
every action keeps it, one step per action; a theorem draws the temporal conclusion,
and the properties follow from it. What the invariants add to the properties:

* **Allocator**, `TypeOK /\ NeverReissued /\ Boundary`. That numbers grow is
  not inductive alone: it has to be known where the next number lies. `Boundary` says,
  for each point of a call, how the numbers issued, the range in memory and the
  durable boundary are ordered. In particular everything issued lies below
  `nvsUntil` while a record is being replaced, and a reservation for `next` starts
  exactly where the old range ends. `ImplementsIssuer` uses it to show that each issue
  is above the whole history.
* **Echo driver**. `Stage` says what each point of a poll has established, `Follows`
  that the interrupt is in the middle of the latest ping's echo or of none, and
  `Unconsumed` that nothing comes between a finished echo and its consumption. The
  step that needs an argument is the next trigger: `Waits` says that the time the sensor
  may still take and the time the driver still waits together make a ping interval, so
  that when the wait is over no answer is outstanding.
* **Camera**. The age of a command is that of its arrival and at most one pass
  (`Recent`), and the lamp is set once a pass (`Backed`): the two passes of the bound.
  `Fits` says that the frames refused since the last accepted one, the ones that wait
  and the time since the last was sent fit, `Interval` apart, in the time since that
  acceptance. A pass takes all waiting frames at once; what it makes of them is shown
  by induction over the buffer, with sets in place of predicates.
* **Sensing loop**, `LoopTypeOK /\ ReferenceAge`. The reference is looked at only when a
  frame is due, so its age is bounded by the reset time and the time since the last
  frame, which makes the wrapped difference true at the moment it is compared. For the
  green light, `Unwrapped` says the same of camera and risk results where they are not
  silent for longer than the clock, and `FrameHolds` that what the frame of a pass said
  still holds when its control frame is sent.
* **CollectionLink**. `Flow` says that one request waits at a time, that there is an id
  wherever a stop needs one and that it is of a session the server began, and that a
  stop under way is for the session shown, unless a START has cleared it;
  `AnswersAreTrue` that every id the task holds, an answer on its way and a call left
  behind name are of sessions the server began. `PressesAreServed` is the safety half of
  "no press is forgotten". `ServerIsTheService` shows, step by step, that what happens
  to the server's sessions is what `SessionService` allows for one device.
* **SimulationStore**: the conjunction of the safety properties with "row ids do not
  exceed the last one given out". They need each other: `LinkedRows` relies on
  `NoOrphans` when a session's id is reused, `BaselineIsFirstValid` on fresh row ids,
  and `SourcesKept` on samples not disappearing from a completed session.
  `StepRefines` maps `data[s]` to the seqs of the samples; every commit is an atomic
  step of `SessionService` and every check a stutter. For one request at a time
  `AloneInv` adds that what the check found `StillHolds` at the commit.
* **OfficialModel**: the checked invariants with `CarriesSucceeded`, which says that a
  request on its way to its write carries a run that succeeded. Without it a delayed
  activation could not be shown to write a fit run; and `FailsItsOwn`, that a thread which
  fails its row after it left the lock fails nobody else's. `LockIsExclusive` is an
  equivalence: the thread that holds the lock is exactly the one whose request needs
  it, which is what lets `Boot`, once it has the lock, conclude that no trainer lives.
* **OfficialPipeline**. `FitsAlone` says that one training loads or fits at a time and
  that what is being fitted was assessed, `Models` that every model passed its
  assessment, `Profiles` and `Tested` that what a profile, a frozen profile and a test
  name stays. With one rescan at a time, `OneRecord` makes what the rescan found, the
  database holds and a training loads one record; `JobKeeps` carries that through the
  two reads of a load, with rows that are the registered ones if nothing was changed
  since the first (`DataOf`). The calibration theorem is about order statistics: sorting
  is by rank, in a strict order every rank is taken, so the quantiles bound what lies
  between.
* **WaterTraining**. `Locked` ties each job under way to the lock. `Jobs` says what a
  training holds at each of its steps, above all that its sources are there and which
  of its temporary files are whole; `Stored` that the current model is archived and that
  the archive, and what killed trainings left behind, still have their sources. Windows
  are shown whole by induction over the rows.
* **RiskService**. `CacheInv`: a stamp is no later than the fetch. `Kept` ties rows to
  sessions that froze something. `Requested` says of each request under way how fresh its
  weather is, what its answer keeps whatever is changed (`Outcome`), and what its reads
  so far have in common while nothing was changed under them (`Moment`).
* **ImpactWorkflow**. `OnDisk` says what every artifact was made from, `Carries` what a
  command at each of its steps still knows of what it read, and `Undisturbed` what it
  finds as well as long as no other command is active.
* **SyntheticRun**. The marker is created exclusively: a run past it owns the files
  it writes (`Filled`), nothing is listed before its owner has finished (`Listed`), and
  with one command at a time there is one run and one replot at most (`AloneInDir`).
* **ImpactPipeline**, `DataInv /\ FitInv /\ LevelInv`. An admitted dataset is the
  one computed from the catalogue, a fit learnt training rows and is judged on validation
  rows, and validation rows were predicted. It is small because the work is in the
  functions of `ImpactData`, which the lemmas are about.
  *Splits.* A purge only takes rows out (`PurgeGroups` by induction over the groups), so a
  row's split is the one its time gives it, and the boundaries, in order, keep the target
  windows and the strict histories apart; the audit excludes shared events and storms.
  *Fits.* All of a training row ends at `TrainEnd` or before, all that a fit is judged on
  begins after it, and no scaler is fitted later than the latest training row.
  *Labels.* The row's onset is the earliest candidate, so an exact onset of another event
  in a known hour would be an earlier candidate, or one that ends the known hours.
  *Episodes.* Merging keeps a sequence of intervals in order, with ends among the alert
  hours and every hour covered, and leaves the gaps above the one it merges at; the second
  merge, over the cooldown, leaves none of the first kind either.
  *Matching* is greedy: events by onset, each takes the earliest free episode. An exchange
  argument shows it best. Among the matchings that agree with the greedy choices up to an
  event there is one that detects the most; it is changed to agree at the next event too
  and detects no fewer, because what it gives up can be taken by the later event, whose
  lookahead reaches as far. The equality of the cardinalities follows.
* **ShadowMonitoring**, `LogInv /\ JobsInv /\ OutInv /\ PairInv`. What a job read begins
  the log for ever (the log only grows), and what it made is true of what it read, which
  needs `Complete` for every log, catalogue and step. A catalogue is hashed after it was
  read, so the one named is no earlier than the one evaluated; unless jobs met there, at
  most one is between its report and its checksum, and the report on disk is its own.
  The ends of the windows are a step apart and the last one is the end of the log, so
  that windows at least as long as a step meet. Missing hours are counted site by site:
  the sum over the sites is the size of a union of disjoint sets, one for each site.
* **The live window** (`WindowsAreDecided`). `Picked` steps from the newest row to older
  ones and ends at the first gap. By induction it holds the rows of the log one after
  the other, so rows that arrive between two reads neither enter the window nor break it.

*Sequences and recursion.* What the code sorts is written as `InOrder`, which places each
element by its rank (how many come before it); in a strict total order every rank is
taken exactly once, and that is proved without induction over data. What the code
iterates is a recursive function over `0..n`: its existence and its equation are proved in
the module (`RecursionExists`), and statements about it by induction up to `n`
(`InductionUpTo`), both from the least element of a set of numbers.

**Only model-checked.** The liveness properties `TransientEnds`, `ResumesAfterReboot`,
`AloneRunEnds` and `EveryRequestAnswered`, which rest on fairness and ENABLED, and the
three violations of section 5. Every other property of every run is a theorem, or the
conjunction of theorems, for all values of the constants.

**Out of the prover's reach.** Liveness under fairness and ENABLED; the library's
induction theorems with an operator as a parameter, in whose place induction is stated
for sets of numbers (`WellFoundedInduction`, or the least element of a set); and recursive
operators. No module declares one.

## 5 Where code and documentation disagree

Three runs find a violation of what the repository says; `PROJECT.json` quotes the lines.

1. **A session that never ends on the device** (`LostStopAnswer`). If the answer to a
   stop is lost, or an operator stops the session at the console, the device keeps its
   session open through every reconnect, because recovery is requested only when no
   session is open (`network_uplink.cpp:1873`). Frames and stops get 409 until a restart.
2. **A failed stop without its session** (`FailedStopLosesId`). Recovery clears the
   request flags in one critical section and publishes the session in the next
   (`network_uplink.cpp:2016-2029`). A START pressed in between outlives it; after a
   STOP and a second START in the wrong moments and two failed calls the display says
   STOP FAILED with an empty id, and frames go out without a session until the queued
   start is sent. `DisplayIsTrue` and `TransientEnds` show that it does not last.
3. **A second final test** (`FinalTestOnce`). Any exception removes the lock of the final
   test, also one raised after the test was committed (`workflow.py:1785`), and a second
   test into another directory is accepted.

**Met while modelling.** The following holds of the models with overlap, or was read off
the code; no run reports it, and the properties named "Alone" are restricted because
of it.

*Device.* `begin()` asks `isKey()` whether there is a sequence record, and `isKey()` is
false on any error of the NVS as well (`persistent_sequence.cpp:83`): an error in that
one call starts the numbering anew over a good record. `PersistentSequence` takes that
branch only when the record is absent, so `NeverReissued` (of `IInv`) is shown for an
NVS that answers this question truly. A camera frame is stamped with a clock reading
later than the pass's own; if a millisecond passes in between, its age wraps and a frame
with a healthy camera reports FAULT (`main.cpp:292`; `FreshFrameCounts` of
`SensorRuntime` fails). The header of the echo driver promises an uninterrupted quiet
window (`ultrasonic_sensor.h:86`); the window is sampled by polls, and a pulse between
two of them goes unseen. A stuck ECHO line gives no event at all: it shows only when the
last distance is no longer fresh.

*Store.* A start checks the device's scenario and copies it later with INSERT .. SELECT
(`simulation_store.py:471`): deleted in between, it leaves a session that collects and
can never be labelled. The same pattern: a scenario changed during a session that
started after the check (`:305`), overlapping intervals labelled differently at once
(`:1141`), an activation, or a profile saved or deleted, during a test that started
after the check (`experiment_store.py:383`, `:438`, `:489`).

*Official.* Interrupted runs are recovered when a process starts and not before each
training, so an exception the route does not catch blocks training until a restart
(`experiment_store.py:234` against `:240`). Two rescans that both miss the other's
registration leave the database with one record and the registry file with another:
every later rescan conflicts, and training names the file (`official_dataset.py:296`;
`_load_dataset_record`, `main.py:261`, compares no hash with the row). A table is hashed
(`official_dataset.py:222`) and its rows are read again (`:230`) and compared with
nothing: a file replaced in between is registered, or trained on, under the hash of the
one before. (The manifest is read and later hashed as well, `:370` and `:248`, but that
hash is compared with the registration.) `AloneTrainedOnRegistered` therefore claims the
rows only of a load during which no file was changed. One bad bundle fails the whole
rescan.

*Environment and risk.* A location changed between the environment's read and the
location's mixes the weather of one place with the position of another, undegraded; a
model can be switched between the two reads of the selection. A search stamps presets
with a fresh time also when its data came from a stale cache entry. The baseline never
marks old telemetry stale. The comment on the window (`risk_dispatch.py:59`) does not
match five rows at two seconds against an age of ten.

*Offline.* A group of events is buffered in order of first appearance, and an event
skipped because it lies in two splits is not looked at again after a later purge
(`split.py:114`). Research bands can be disordered at the extremes of the balanced
threshold (`workflow.py:1432`). A confirmed event without an end hides the later rows of
its zone. An N row over the exact onset of a confirmed event of the same zone is not
refused as a contradiction: if the row's own onset is a wide interval, that hour is a
known negative (`labels.py:251`), which `NegativesAreEvidence` therefore allows where an
N row covers the hour and the row has no hit. Two predicted sites in one zone duplicate
their events, which is refused late. `config.quality` limits never reach the exported
feature schema. A torn raw file is refused for ever after a crash; so is a run whose
final test was killed while its lock said "in_progress". Two synthetic runs can both
pass the emptiness check (`synthetic_e2e.py:368`): the exclusive marker stops the
second, but the first then verifies while it holds the second's configuration, and the
loser's "failed" stands in the progress file while the winner runs. A replot that was
interrupted makes its run refused for ever, though it is said to "Safely redraw"; the
progress file is written in place and says "running" after a kill. A report and its
checksum are replaced one after the other (`reports.py:101-102`), though the docstring
(`:80`) says "Atomically write a report and SHA-256 sidecar" and
`MONITORING_RUNBOOK.md:3` "atomically": a job killed in between leaves its report beside
no checksum, or beside that of the report before. Two jobs with one destination leave
the report of one beside the checksum of the other when both replace the report before
either replaces the checksum, and the loser only raises (`:106`). These two are what
`apart` excepts in `ReportsAreTrue`. "The supplied event catalogue is revalidated and
hashed on every run" (`MONITORING_RUNBOOK.md:47`), but it is read and validated at
`reports.py:556` and hashed at `:650`, after the evaluation: replaced in between, the
report names by its hash a catalogue that it did not evaluate, and `ReportsAreTrue`
claims only that the one named is never the older one. The log is hashed after it is
read as well, so a log appended to meanwhile is named with rows that were not counted
(the counted ones are always a prefix). Steps longer than the window leave gaps; alerts
near the end of the log count as false before their lookahead has passed; a repeated
client request id makes the whole log refused.

*Dashboard and login* (`dashboard.py`, `auth.py`, read but not modelled). A selection made
while the overview loads is silently reverted; a late readiness answer belongs to
another selection, or enables the train button during a training (the server checks
again); a late error of an old timeline request empties the timeline; answers slower
than the poll are dropped; an older overview may replace a newer list until the next
poll; selection inputs survive a change of session; a second tab keeps an old CSRF
token. Login attempts are counted and recorded in separate calls (`auth.py:366`), so
attempts in flight together each see the count before the others.

## 6 What is not modelled

* Formats, wording, drawing, HTML, JSON parsing, checksums: pure functions with host
  tests.
* Numeric work: model fitting, risk scores, calibration, metrics, drift, medians and
  filters. Where a decision rests on them, its outcomes are inputs of the model.
* Queries that change nothing, and the schema migration of the database.
* The queue of eight frames (`network_uplink.cpp:647`), the upload interval and its
  backoff: they decide when a frame is sent, which `CollectionLink` leaves open.
* Wi-Fi setup (`network_uplink.cpp:1837`), location and model selection on the device,
  pages, touch calibration. For the rest of the device Wi-Fi is a connection that comes
  and goes; the selections are the server's state, and `RiskService` has them.
* The receive ring of the UART (`main.cpp:302`): frames lost to it are frames not
  received, which every model of a receiver allows.
* Sign-in and the dashboard: a signed cookie without a session table, a list of failed
  attempts, and a browser script that keeps no state of record.
* Source adapters of the offline pipeline, which turn provider files into catalogues;
  torn lines of the shadow service's log.
* `ops/` (machine installation) and the STM32 firmware, which the single board replaced.

The server in `CollectionLink` is written out for one device and is not an instance
of `SimulationStore`. The two meet in `SessionService`, which the store implements by
`ImplementsService` and this server by `ServerIsTheService`.
`SensorRuntime` takes events of the echo driver and camera frames as free inputs, so
what it shows holds whatever those do; the driver's and the camera's own properties say
what the inputs mean.

## 7 Plan

Done, in this order: `PersistentSequence`, `SimulationStore`, `CollectionLink`,
`OfficialModel`, `SensorRuntime` with their abstract specifications and proofs;
`WaterTraining`, `ImpactPipeline`, `ImpactWorkflow`, `RiskService`, `OfficialPipeline`,
`OpenMvCamera`, `SyntheticRun`, `ShadowMonitoring`, `UltrasonicDriver`; and proofs of
the safety properties of all of these.

Next, most important first:

| subject | to be stated |
|---|---|
| liveness of `CollectionLink` | the safety halves of the leads-to steps (what a step keeps until the next one is taken), as `PressesAreServed` already is |
| `SimulationStore` under `CollectionLink` | the link's server as an instance of the store for one device, in place of meeting in `SessionService` |
| the frame queue of the network task | eight frames, the interval and the backoff of uploads: no accepted frame is uploaded twice under two numbers |
| device selections | location and model chosen on the device against the server's state |

## 8 Running it

    tlc -workers 2 -config SimulationStore.cfg MCSimulationStore.tla
    tlapm SimulationStoreProofs.tla

`PROJECT.json` lists the module and the configuration of every run, the mutants and
the map from definitions to source lines.
