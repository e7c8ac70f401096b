------------------------ MODULE ImpactWorkflowProofs ------------------------
(* Proofs about the offline commands, for any number of processes that        *)
(* overlap, fail and are killed, and of settings and directories; and, at the *)
(* end, about one directory of a synthetic run and any number of commands.    *)
EXTENDS MCImpactWorkflow, TLAPS

-----------------------------------------------------------------------------
(* The offline commands: the inductive invariant *)

Claims == {"claim", "evaluate", "complete"}

\* The final test of these three, as far as commands did not overlap.
WasTested(run, cal, thr) ==
  \E t \in tested : t.run = run /\ (alone => t.cal = cal /\ t.thr = thr)

RunOk(r) == r.synthetic = r.data.synthetic

BundleOk(b) ==
  /\ WasTested(b.run, b.cal, b.thr)
  /\ b.run.primary /\ b.thr.cal = b.cal
  /\ b.synthetic = b.run.data.synthetic

\* What is on disk: a run takes over its dataset's marker, a bundle is of a tested
\* run, and a lock lies in a run.
OnDisk ==
  /\ store["run"] # None => RunOk(store["run"])
  /\ store["bundle"] # None => BundleOk(store["bundle"])
  /\ lock # None /\ lock.status = "complete" =>
       store["run"] # None /\ WasTested(store["run"], lock.cal, lock.thr)
  /\ stored => store["raw"] = Whole

\* What a command under way carries, whatever else runs: in particular a final test
\* has the run that is there, which nobody can replace meanwhile.
Carries(w) ==
  /\ w.at = "rename" =>
       /\ w.path \in Staged
       /\ w.path = "run" => RunOk(w.what)
       /\ w.path = "bundle" => BundleOk(w.what)
  /\ w.at \in {"open", "close"} => w.path \in Selections
  /\ w.at \in Claims =>
       /\ w = [at |-> w.at, path |-> w.path, what |-> w.what]
       /\ w.path \in Finals
       /\ store["run"] # None /\ w.what.run = store["run"]
  /\ w.at = "complete" => w.what \in tested
  /\ w.at \in Replayed =>
       /\ w = [at |-> w.at, what |-> w.what]
       /\ w.what.status = "normal" => w.what.input.forecast
  /\ w.at \in {"create", "copy"} => w = [at |-> w.at]
  /\ w.at = "stored" => store["raw"] = Whole

\* What it finds as well while it is alone.
FindsAlone(w) ==
  /\ w.at \in Claims => w.what.cal = store["calibration"] /\ w.what.thr = store["thresholds"]
  /\ w.at = "claim" => lock = None
  /\ w.at \in {"evaluate", "complete"} => lock = [status |-> "in_progress"]
  /\ w.at = "output" => store["output"] = None /\ store["manifest"] = None
  /\ w.at = "manifest" => store["output"] = w.what /\ store["manifest"] = None

Undisturbed ==
  alone =>
    /\ \A p, q \in Procs : p # q => proc[p] = Idle \/ proc[q] = Idle
    /\ \A p \in Procs : FindsAlone(proc[p])
    /\ AloneReplayIsPaired

Shape ==
  /\ DOMAIN store = Paths /\ DOMAIN proc = Procs
  /\ alone \in BOOLEAN /\ stored \in BOOLEAN

WorkflowInv ==
  /\ Shape
  /\ OnDisk
  /\ \A p \in Procs : Carries(proc[p])
  /\ Undisturbed

-----------------------------------------------------------------------------
(* Steps in general *)

\* The paths of the artifacts are apart from each other and from the directories of
\* final tests.
LEMMA PathFacts ==
  /\ Paths = {"dataset", "run", "bundle", "calibration", "thresholds", "output", "manifest", "raw"}
               \cup Finals
  /\ \A x \in {"dataset", "run", "bundle", "calibration", "thresholds", "output", "manifest", "raw"} :
       x \in Paths /\ x \notin Finals
  BY WorkflowAssumption DEF Paths, Staged, Selections, Replayed

\* A bundle that was tested stays so: nothing leaves the history, and commands that
\* overlapped once have overlapped.
LEMMA TestedStays ==
  ASSUME tested \subseteq tested', alone' => alone, NEW run, NEW cal, NEW thr,
         WasTested(run, cal, thr)
  PROVE  \E t \in tested' : t.run = run /\ (alone' => t.cal = cal /\ t.thr = thr)
  BY DEF WasTested

\* What another command carries is not touched by a step that puts nothing in the
\* place of the run and does not harm a whole download.
LEMMA CarriesStays ==
  ASSUME NEW q \in Procs, Carries(proc[q]), proc'[q] = proc[q],
         tested \subseteq tested', alone' => alone,
         store["run"] # None => store'["run"] = store["run"],
         store["raw"] = Whole => store'["raw"] = Whole
  PROVE  Carries(proc[q])'
<1>1. BundleOk(proc[q].what) => BundleOk(proc[q].what)'
  BY TestedStays DEF BundleOk, WasTested
<1>2. RunOk(proc[q].what) => RunOk(proc[q].what)'
  BY DEF RunOk
<1>. QED  BY <1>1, <1>2 DEF Carries

\* A step of a command that is under way.
LEMMA StepKeeps ==
  ASSUME WorkflowInv, NEW p \in Procs, proc[p] # Idle,
         DOMAIN proc' = Procs, \A q \in Procs : q # p => proc'[q] = proc[q],
         DOMAIN store' = Paths, stored' \in BOOLEAN, alone' = alone, tested \subseteq tested',
         store["run"] # None => store'["run"] = store["run"],
         store["raw"] = Whole => store'["raw"] = Whole,
         OnDisk', Carries(proc[p])',
         alone => FindsAlone(proc[p])' /\ AloneReplayIsPaired'
  PROVE  WorkflowInv'
<1>1. Shape'
  BY DEF Shape, WorkflowInv, Paths, Staged, Selections, Replayed
<1>2. ASSUME NEW q \in Procs PROVE Carries(proc[q])'
  <2>1. CASE q = p
    BY <2>1
  <2>2. CASE q # p
    BY <2>2, CarriesStays DEF WorkflowInv
  <2>. QED  BY <2>1, <2>2
<1>3. Undisturbed'
  <2>. SUFFICES ASSUME alone PROVE /\ \A r, q \in Procs : r # q => proc'[r] = Idle \/ proc'[q] = Idle
                                   /\ \A q \in Procs : FindsAlone(proc[q])'
                                   /\ AloneReplayIsPaired'
    BY DEF Undisturbed, Idle
  <2>1. \A q \in Procs : q # p => proc'[q] = Idle
    BY DEF WorkflowInv, Undisturbed
  <2>2. \A r, q \in Procs : r # q => proc'[r] = Idle \/ proc'[q] = Idle
    BY <2>1
  <2>3. ASSUME NEW q \in Procs PROVE FindsAlone(proc[q])'
    <3>1. CASE q = p
      BY <3>1
    <3>2. CASE q # p
      BY <2>1, <3>2 DEF FindsAlone, Idle, Claims
    <3>. QED  BY <3>1, <3>2
  <2>. QED  BY <2>2, <2>3
<1>. QED  BY <1>1, <1>2, <1>3 DEF WorkflowInv

\* A process that does nothing carries nothing.
LEMMA IdleCarries ==
  ASSUME NEW p \in Procs, proc'[p] = Idle
  PROVE  Carries(proc[p])' /\ FindsAlone(proc[p])'
  BY DEF Carries, FindsAlone, Idle, Claims, Replayed

\* A command begins.
LEMMA BeginKeeps ==
  ASSUME WorkflowInv, NEW p \in Procs, NEW w, Begin(p, w),
         Carries(proc[p])', alone' => FindsAlone(proc[p])'
  PROVE  WorkflowInv'
<1>1. /\ DOMAIN proc' = Procs /\ \A q \in Procs : q # p => proc'[q] = proc[q]
      /\ store' = store /\ lock' = lock /\ tested' = tested /\ stored' = stored
      /\ alone' = (alone /\ \A q \in Procs : proc[q] = Idle)
  BY DEF Begin, WorkflowInv, Shape
<1>2. Shape'
  BY <1>1 DEF WorkflowInv, Shape, Paths, Staged, Selections, Replayed
<1>3. OnDisk'
  <2>1. ASSUME NEW run, NEW cal, NEW thr, WasTested(run, cal, thr)
        PROVE  \E t \in tested' : t.run = run /\ (alone' => t.cal = cal /\ t.thr = thr)
    BY <1>1, <2>1, TestedStays
  <2>2. store["bundle"] # None => BundleOk(store["bundle"])'
    BY <1>1, <2>1 DEF WorkflowInv, OnDisk, BundleOk, WasTested
  <2>. QED  BY <1>1, <2>1, <2>2 DEF WorkflowInv, OnDisk, RunOk, WasTested
<1>4. ASSUME NEW q \in Procs PROVE Carries(proc[q])'
  <2>1. CASE q # p
    BY <1>1, <2>1, CarriesStays DEF WorkflowInv
  <2>. QED  BY <2>1
<1>5. Undisturbed'
  <2>. SUFFICES ASSUME alone' PROVE /\ \A r, q \in Procs : r # q => proc'[r] = Idle \/ proc'[q] = Idle
                                    /\ \A q \in Procs : FindsAlone(proc[q])'
                                    /\ AloneReplayIsPaired'
    BY DEF Undisturbed, Idle
  <2>1. alone /\ \A q \in Procs : q # p => proc'[q] = Idle
    BY <1>1
  <2>2. ASSUME NEW q \in Procs PROVE FindsAlone(proc[q])'
    <3>1. CASE q # p
      BY <2>1, <3>1, IdleCarries
    <3>. QED  BY <3>1
  <2>3. AloneReplayIsPaired'
    BY <1>1, <2>1 DEF WorkflowInv, Undisturbed, AloneReplayIsPaired
  <2>. QED  BY <2>1, <2>2, <2>3
<1>. QED  BY <1>2, <1>3, <1>4, <1>5 DEF WorkflowInv

-----------------------------------------------------------------------------
(* Commands begin *)

\* What a command that begins does next.
LEMMA BeginFacts ==
  ASSUME WorkflowInv, NEW p \in Procs, NEW w, Begin(p, w)
  PROVE  /\ proc'[p] = w /\ store' = store /\ lock' = lock /\ tested' = tested
         /\ alone' = (alone /\ \A q \in Procs : proc[q] = Idle)
  BY DEF Begin, WorkflowInv, Shape

LEMMA BuildKeeps == ASSUME WorkflowInv, NEW p \in Procs, BuildDataset(p) PROVE WorkflowInv'
<1>1. PICK w : Begin(p, w) /\ w.at = "rename" /\ w.path = "dataset"
  BY DEF BuildDataset, Stage
<1>2. Carries(proc[p])' /\ FindsAlone(proc[p])'
  BY <1>1, BeginFacts DEF Carries, FindsAlone, Staged, Claims, Replayed
<1>. QED  BY <1>1, <1>2, BeginKeeps

LEMMA TrainKeeps ==
  ASSUME WorkflowInv, NEW p \in Procs, NEW primary, TrainRun(p, primary)
  PROVE  WorkflowInv'
<1>1. PICK w : /\ Begin(p, w) /\ w.at = "rename" /\ w.path = "run"
               /\ w.what.synthetic = w.what.data.synthetic
  <2>1. PICK v \in Variants :
          Begin(p, [at |-> "rename", path |-> "run",
                    what |-> [data |-> store["dataset"], v |-> v, primary |-> primary,
                              synthetic |-> store["dataset"].synthetic]])
    BY DEF TrainRun, Stage
  <2>. QED  BY <2>1
<1>2. Carries(proc[p])' /\ FindsAlone(proc[p])'
  BY <1>1, BeginFacts DEF Carries, FindsAlone, RunOk, Staged, Claims, Replayed
<1>. QED  BY <1>1, <1>2, BeginKeeps

LEMMA SelectKeeps ==
  ASSUME WorkflowInv, NEW p \in Procs, Calibrate(p) \/ SelectThresholds(p)
  PROVE  WorkflowInv'
<1>1. PICK w : Begin(p, w) /\ w.at = "open" /\ w.path \in Selections
  <2>1. PICK v \in Variants, x \in Selections : Begin(p, [at |-> "open", path |-> x, v |-> v])
    BY DEF Calibrate, SelectThresholds, Selections
  <2>. QED  BY <2>1
<1>2. Carries(proc[p])' /\ FindsAlone(proc[p])'
  BY <1>1, BeginFacts DEF Carries, FindsAlone, Claims, Replayed
<1>. QED  BY <1>1, <1>2, BeginKeeps

\* A final test starts with the selections that are there and without a lock.
LEMMA FinalTestKeeps == ASSUME WorkflowInv, NEW p \in Procs, FinalTest(p) PROVE WorkflowInv'
<1>. DEFINE what == [run |-> store["run"], cal |-> store["calibration"], thr |-> store["thresholds"]]
<1>1. PICK d \in Finals : Begin(p, [at |-> "claim", path |-> d, what |-> what])
  BY DEF FinalTest
<1>2. store["run"] # None /\ lock = None
  BY DEF FinalTest, Verified, Unlocked
<1>3. /\ proc'[p] = [at |-> "claim", path |-> d, what |-> what]
      /\ store' = store /\ lock' = lock
  BY <1>1, BeginFacts
<1>4. Carries(proc[p])' /\ FindsAlone(proc[p])'
  BY <1>2, <1>3 DEF Carries, FindsAlone, Claims, Replayed
<1>. QED  BY <1>1, <1>4, BeginKeeps

\* A bundle is staged only of what the completed lock stands for.
LEMMA ExportKeeps == ASSUME WorkflowInv, NEW p \in Procs, ExportBundle(p) PROVE WorkflowInv'
<1>1. Begin(p, [at |-> "rename", path |-> "bundle", what |-> Bundle])
  BY DEF ExportBundle, Stage
<1>2. BundleOk(Bundle)
  <2>1. /\ Bundle.run = store["run"] /\ Bundle.cal = store["calibration"]
        /\ Bundle.thr = store["thresholds"] /\ Bundle.synthetic = store["run"].synthetic
    BY DEF Bundle
  <2>2. /\ store["run"] # None /\ store["run"].primary
        /\ store["thresholds"].cal = store["calibration"]
        /\ lock # None /\ lock.status = "complete"
        /\ lock.cal = store["calibration"] /\ lock.thr = store["thresholds"]
    BY DEF ExportBundle, Verified, ThresholdsLoad, LockMatches
  <2>3. RunOk(store["run"]) /\ WasTested(store["run"], lock.cal, lock.thr)
    BY <2>2 DEF WorkflowInv, OnDisk
  <2>. QED  BY <2>1, <2>2, <2>3 DEF BundleOk, RunOk
<1>3. /\ proc'[p] = [at |-> "rename", path |-> "bundle", what |-> Bundle]
      /\ store' = store /\ tested' = tested /\ (alone' => alone)
  BY <1>1, BeginFacts
<1>4. BundleOk(proc[p].what)'
  <2>. DEFINE b == Bundle
  <2>1. BundleOk(b) /\ proc'[p].what = b
    BY <1>2, <1>3
  <2>. HIDE DEF b
  <2>2. \E t \in tested' : t.run = b.run /\ (alone' => t.cal = b.cal /\ t.thr = b.thr)
    BY <1>3, <2>1, TestedStays DEF BundleOk
  <2>. QED  BY <2>1, <2>2 DEF BundleOk, WasTested
<1>5. Carries(proc[p])' /\ FindsAlone(proc[p])'
  BY <1>3, <1>4 DEF Carries, FindsAlone, Staged, Claims, Replayed
<1>. QED  BY <1>1, <1>5, BeginKeeps

LEMMA ReplayKeeps == ASSUME WorkflowInv, NEW p \in Procs, Replay(p) PROVE WorkflowInv'
<1>1. PICK q \in Requests, fallback \in BOOLEAN :
        /\ Route(q, fallback) # None
        /\ Begin(p, [at |-> "output", what |-> [input |-> q, status |-> Route(q, fallback)]])
  BY DEF Replay
<1>2. Route(q, fallback) = "normal" => q.forecast
  BY <1>1 DEF Route
<1>3. /\ proc'[p] = [at |-> "output", what |-> [input |-> q, status |-> Route(q, fallback)]]
      /\ store' = store
  BY <1>1, BeginFacts
<1>4. Carries(proc[p])'
  BY <1>2, <1>3 DEF Carries, Claims, Replayed
<1>5. FindsAlone(proc[p])'
  BY <1>3 DEF FindsAlone, Claims, Replay
<1>. QED  BY <1>1, <1>4, <1>5, BeginKeeps

LEMMA StoreRawKeeps == ASSUME WorkflowInv, NEW p \in Procs, StoreRaw(p) PROVE WorkflowInv'
<1>1. \/ Begin(p, [at |-> "create"])
      \/ store["raw"] = Whole /\ Begin(p, [at |-> "stored"])
  BY DEF StoreRaw
<1>2. /\ store' = store
      /\ \/ proc'[p] = [at |-> "create"]
         \/ store["raw"] = Whole /\ proc'[p] = [at |-> "stored"]
  BY <1>1, BeginFacts
<1>3. Carries(proc[p])' /\ FindsAlone(proc[p])'
  BY <1>2 DEF Carries, FindsAlone, Claims, Replayed
<1>. QED  BY <1>1, <1>3, BeginKeeps

-----------------------------------------------------------------------------
(* Commands go on, fail and are killed *)

\* The history and the bundle on disk, when neither bundle nor run is touched.
LEMMA OnDiskStays ==
  ASSUME WorkflowInv, alone' = alone, stored' = stored, tested \subseteq tested',
         store'["run"] = store["run"], store'["bundle"] = store["bundle"],
         store["raw"] = Whole => store'["raw"] = Whole,
         lock' = lock \/ lock'.status # "complete" \/ lock' = None
  PROVE  OnDisk'
<1>1. ASSUME NEW run, NEW cal, NEW thr, WasTested(run, cal, thr)
      PROVE  \E t \in tested' : t.run = run /\ (alone' => t.cal = cal /\ t.thr = thr)
  BY <1>1, TestedStays
<1>2. store["bundle"] # None => BundleOk(store["bundle"])'
  <2>. SUFFICES ASSUME store["bundle"] # None PROVE BundleOk(store["bundle"])'
    OBVIOUS
  <2>1. BundleOk(store["bundle"])
    BY DEF WorkflowInv, OnDisk
  <2>. QED  BY <1>1, <2>1 DEF BundleOk, WasTested
<1>. QED  BY <1>1, <1>2 DEF WorkflowInv, OnDisk, RunOk, WasTested

\* What a step finds when it ends a command or moves it on.
LEMMA MoveFacts ==
  ASSUME WorkflowInv, NEW p \in Procs, NEW w, proc' = [proc EXCEPT ![p] = w]
  PROVE  DOMAIN proc' = Procs /\ proc'[p] = w /\ \A q \in Procs : q # p => proc'[q] = proc[q]
  BY DEF WorkflowInv, Shape

LEMMA AtWork == ASSUME NEW p \in Procs, proc[p].at # "idle" PROVE proc[p] # Idle
  BY DEF Idle

\* The files of a replay are paired as before when neither is touched.
LEMMA PairedStays ==
  ASSUME WorkflowInv, alone' = alone, store'["output"] = store["output"],
         store'["manifest"] = store["manifest"]
  PROVE  alone => AloneReplayIsPaired'
  BY DEF WorkflowInv, Undisturbed, AloneReplayIsPaired

LEMMA OpenKeeps == ASSUME WorkflowInv, NEW p \in Procs, OpenSelection(p) PROVE WorkflowInv'
<1>1. PICK what : proc' = [proc EXCEPT ![p] = [at |-> "close", path |-> proc[p].path, what |-> what]]
  BY DEF OpenSelection
<1>2. proc[p].at = "open" /\ proc[p].path \in Selections /\ proc[p] # Idle
  <2>1. proc[p].at = "open" /\ Carries(proc[p])
    BY DEF OpenSelection, WorkflowInv
  <2>. QED  BY <2>1, AtWork DEF Carries
<1>3. /\ DOMAIN store' = Paths
      /\ \A x \in Paths : x \notin Selections => store'[x] = store[x]
  BY <1>2 DEF OpenSelection, WorkflowInv, Shape
<1>4. OnDisk' /\ (alone => AloneReplayIsPaired')
  BY <1>3, PathFacts, OnDiskStays, PairedStays DEF OpenSelection, Selections
<1>5. Carries(proc[p])' /\ FindsAlone(proc[p])'
  BY <1>1, <1>2, MoveFacts DEF Carries, FindsAlone, Claims, Replayed
<1>. QED  BY <1>1, <1>2, <1>3, <1>4, <1>5, MoveFacts, PathFacts, StepKeeps
          DEF OpenSelection, Selections, WorkflowInv, Shape

LEMMA CloseKeeps == ASSUME WorkflowInv, NEW p \in Procs, CloseSelection(p) PROVE WorkflowInv'
<1>1. proc' = [proc EXCEPT ![p] = Idle]
  BY DEF CloseSelection, Return
<1>2. proc[p].path \in Selections /\ proc[p] # Idle
  <2>1. proc[p].at = "close" /\ Carries(proc[p])
    BY DEF CloseSelection, WorkflowInv
  <2>. QED  BY <2>1, AtWork DEF Carries
<1>3. /\ DOMAIN store' = Paths
      /\ \A x \in Paths : x \notin Selections => store'[x] = store[x]
  BY <1>2 DEF CloseSelection, WorkflowInv, Shape
<1>4. OnDisk' /\ (alone => AloneReplayIsPaired')
  BY <1>3, PathFacts, OnDiskStays, PairedStays DEF CloseSelection, Selections
<1>. QED  BY <1>1, <1>2, <1>3, <1>4, MoveFacts, IdleCarries, PathFacts, StepKeeps
          DEF CloseSelection, Selections, WorkflowInv, Shape

\* A staged artifact goes to a place that is free, and what it carried is what lies
\* there then.
LEMMA RenameKeeps == ASSUME WorkflowInv, NEW p \in Procs, Rename(p) PROVE WorkflowInv'
<1>. DEFINE path == proc[p].path
            what == proc[p].what
<1>1. proc' = [proc EXCEPT ![p] = Idle]
  BY DEF Rename, Return
<1>2. proc[p].at = "rename" /\ Carries(proc[p])
  BY DEF Rename, WorkflowInv
<1>3. /\ proc[p] # Idle /\ path \in Staged /\ path \in Paths
      /\ path = "run" => RunOk(what)
      /\ path = "bundle" => BundleOk(what)
  BY <1>2, AtWork DEF Carries, Paths
<1>4. /\ DOMAIN store' = Paths
      /\ \A x \in Paths : \/ store'[x] = store[x]
                          \/ x = path /\ store[x] = None /\ store'[x] = what
  BY <1>3 DEF Rename, WorkflowInv, Shape
<1>5. lock' = lock /\ tested' = tested /\ alone' = alone /\ stored' = stored
  BY DEF Rename
<1>. HIDE DEF path, what
<1>6. store'["raw"] = store["raw"] /\ store'["output"] = store["output"]
      /\ store'["manifest"] = store["manifest"]
  BY <1>3, <1>4, PathFacts DEF Staged
<1>7. store["run"] # None => store'["run"] = store["run"]
  BY <1>4, PathFacts
<1>8. \A b : BundleOk(b) => /\ \E t \in tested' : t.run = b.run /\ (alone' => t.cal = b.cal /\ t.thr = b.thr)
                            /\ b.run.primary /\ b.thr.cal = b.cal
                            /\ b.synthetic = b.run.data.synthetic
  BY <1>5 DEF BundleOk, WasTested
<1>9. OnDisk'
  <2>1. store'["run"] # None => RunOk(store["run"])'
    BY <1>3, <1>4, PathFacts DEF WorkflowInv, OnDisk, RunOk
  <2>2. store'["bundle"] # None => BundleOk(store'["bundle"])
    BY <1>3, <1>4, PathFacts DEF WorkflowInv, OnDisk
  <2>3. store'["bundle"] # None => BundleOk(store["bundle"])'
    BY <1>8, <2>2 DEF BundleOk, WasTested
  <2>4. lock' # None /\ lock'.status = "complete" =>
          store'["run"] # None /\ WasTested(store["run"], lock.cal, lock.thr)'
    BY <1>5, <1>7 DEF WorkflowInv, OnDisk, WasTested
  <2>. QED  BY <1>5, <1>6, <2>1, <2>3, <2>4 DEF WorkflowInv, OnDisk
<1>. QED  BY <1>1, <1>3, <1>4, <1>5, <1>6, <1>7, <1>9, MoveFacts, IdleCarries, PairedStays, StepKeeps
          DEF WorkflowInv, Shape

LEMMA ClaimKeeps == ASSUME WorkflowInv, NEW p \in Procs, ClaimFinalTest(p) PROVE WorkflowInv'
<1>. DEFINE d == proc[p].path
            what == proc[p].what
<1>1. proc[p].at = "claim" /\ Carries(proc[p]) /\ proc[p] # Idle
  BY AtWork DEF ClaimFinalTest, WorkflowInv
<1>2. /\ proc[p] = [at |-> "claim", path |-> d, what |-> what]
      /\ d \in Finals /\ store["run"] # None /\ what.run = store["run"]
  BY <1>1 DEF Carries, Claims
<1>3. proc' = [proc EXCEPT ![p] = [proc[p] EXCEPT !.at = "evaluate"]]
  BY DEF ClaimFinalTest, Continue
<1>4. [proc[p] EXCEPT !.at = "evaluate"] = [at |-> "evaluate", path |-> d, what |-> what]
  BY <1>2
<1>5. proc'[p] = [at |-> "evaluate", path |-> d, what |-> what]
  BY <1>3, <1>4, MoveFacts
<1>6. OnDisk' /\ (alone => AloneReplayIsPaired')
  BY OnDiskStays, PairedStays DEF ClaimFinalTest
<1>7. alone => what.cal = store["calibration"] /\ what.thr = store["thresholds"]
  BY <1>1 DEF WorkflowInv, Undisturbed, FindsAlone, Claims
<1>. HIDE DEF d, what
<1>8. Carries(proc[p])' /\ (alone => FindsAlone(proc[p])')
  BY <1>2, <1>5, <1>7 DEF Carries, FindsAlone, Claims, Replayed, ClaimFinalTest
<1>. QED  BY <1>1, <1>3, <1>6, <1>8, MoveFacts, StepKeeps DEF ClaimFinalTest, WorkflowInv, Shape

\* A test is evaluated on the run and the selections it started with.
LEMMA CommitKeeps == ASSUME WorkflowInv, NEW p \in Procs, CommitFinalTest(p) PROVE WorkflowInv'
<1>. DEFINE d == proc[p].path
            what == proc[p].what
<1>1. proc[p].at = "evaluate" /\ Carries(proc[p]) /\ proc[p] # Idle
  BY AtWork DEF CommitFinalTest, WorkflowInv
<1>2. /\ proc[p] = [at |-> "evaluate", path |-> d, what |-> what]
      /\ d \in Finals /\ store["run"] # None /\ what.run = store["run"]
  BY <1>1 DEF Carries, Claims
<1>3. proc' = [proc EXCEPT ![p] = [proc[p] EXCEPT !.at = "complete"]]
  BY DEF CommitFinalTest, Continue
<1>4. [proc[p] EXCEPT !.at = "complete"] = [at |-> "complete", path |-> d, what |-> what]
  BY <1>2
<1>5. proc'[p] = [at |-> "complete", path |-> d, what |-> what]
  BY <1>3, <1>4, MoveFacts
<1>6. DOMAIN store' = Paths /\ \A x \in Paths : x \notin Finals => store'[x] = store[x]
  BY <1>2 DEF CommitFinalTest, WorkflowInv, Shape
<1>7. OnDisk' /\ (alone => AloneReplayIsPaired')
  BY <1>6, PathFacts, OnDiskStays, PairedStays DEF CommitFinalTest
<1>8. alone => /\ what.cal = store["calibration"] /\ what.thr = store["thresholds"]
               /\ lock = [status |-> "in_progress"]
  BY <1>1 DEF WorkflowInv, Undisturbed, FindsAlone, Claims
<1>9. what \in tested' /\ tested \subseteq tested' /\ lock' = lock
      /\ store'["run"] = store["run"] /\ store'["calibration"] = store["calibration"]
      /\ store'["thresholds"] = store["thresholds"] /\ store'["raw"] = store["raw"]
  BY <1>6, PathFacts DEF CommitFinalTest
<1>. HIDE DEF d, what
<1>10. Carries(proc[p])' /\ (alone => FindsAlone(proc[p])')
  BY <1>2, <1>5, <1>8, <1>9 DEF Carries, FindsAlone, Claims, Replayed
<1>. QED  BY <1>1, <1>3, <1>6, <1>7, <1>9, <1>10, MoveFacts, StepKeeps
          DEF CommitFinalTest, WorkflowInv, Shape

\* A lock is completed for a test of the run it lies in.
LEMMA CompleteKeeps == ASSUME WorkflowInv, NEW p \in Procs, CompleteLock(p) PROVE WorkflowInv'
<1>1. proc[p].at = "complete" /\ Carries(proc[p]) /\ proc[p] # Idle
  BY AtWork DEF CompleteLock, WorkflowInv
<1>2. store["run"] # None /\ proc[p].what.run = store["run"] /\ proc[p].what \in tested
  BY <1>1 DEF Carries, Claims
<1>3. alone => proc[p].what.cal = store["calibration"] /\ proc[p].what.thr = store["thresholds"]
  BY <1>1 DEF WorkflowInv, Undisturbed, FindsAlone, Claims
<1>4. /\ lock' = [status |-> "complete", cal |-> store["calibration"], thr |-> store["thresholds"]]
      /\ proc' = [proc EXCEPT ![p] = Idle]
      /\ store' = store /\ tested' = tested /\ alone' = alone /\ stored' = stored
  BY DEF CompleteLock, Return
<1>5. lock'.cal = store["calibration"] /\ lock'.thr = store["thresholds"]
  BY <1>4
<1>6. \E t \in tested : t.run = store["run"] /\ (alone => t.cal = lock'.cal /\ t.thr = lock'.thr)
  BY <1>2, <1>3, <1>5
<1>7. OnDisk'
  <2>1. store["bundle"] # None => BundleOk(store["bundle"])'
    BY <1>4 DEF WorkflowInv, OnDisk, BundleOk, WasTested
  <2>2. WasTested(store["run"], lock.cal, lock.thr)'
    BY <1>4, <1>6 DEF WasTested
  <2>. QED  BY <1>2, <1>4, <2>1, <2>2 DEF WorkflowInv, OnDisk, RunOk
<1>. QED  BY <1>1, <1>4, <1>7, MoveFacts, IdleCarries, PairedStays, StepKeeps DEF WorkflowInv, Shape

\* The output is replaced before its manifest, both with what was replayed.
LEMMA ReplaceKeeps == ASSUME WorkflowInv, NEW p \in Procs, ReplaceReplay(p) PROVE WorkflowInv'
<1>. DEFINE at == proc[p].at
            what == proc[p].what
<1>1. at \in Replayed /\ Carries(proc[p]) /\ proc[p] # Idle
  BY AtWork DEF ReplaceReplay, WorkflowInv, Replayed
<1>2. /\ proc[p] = [at |-> at, what |-> what]
      /\ what.status = "normal" => what.input.forecast
  BY <1>1 DEF Carries
<1>3. DOMAIN store' = Paths /\ at \in Paths
      /\ \A x \in Paths : store'[x] = IF x = at THEN what ELSE store[x]
  BY <1>1 DEF ReplaceReplay, ReplacePath, WorkflowInv, Shape, Paths
<1>4. /\ lock' = lock /\ tested' = tested /\ stored' = stored /\ alone' = alone
      /\ proc' = [proc EXCEPT ![p] = IF at = "output" THEN [proc[p] EXCEPT !.at = "manifest"] ELSE Idle]
  BY DEF ReplaceReplay, Continue, Return
<1>5. at = "output" => proc'[p] = [at |-> "manifest", what |-> what]
  <2>1. [proc[p] EXCEPT !.at = "manifest"] = [at |-> "manifest", what |-> what]
    BY <1>2
  <2>. QED  BY <1>4, <2>1, MoveFacts
<1>6. at # "output" => proc'[p] = Idle
  BY <1>4, MoveFacts
<1>7. alone => /\ at = "output" => store["manifest"] = None
               /\ at = "manifest" => store["output"] = what
  BY <1>1 DEF WorkflowInv, Undisturbed, FindsAlone
<1>. HIDE DEF at, what
<1>8. /\ store'["run"] = store["run"] /\ store'["bundle"] = store["bundle"]
      /\ store'["raw"] = store["raw"]
      /\ store'["output"] = IF at = "output" THEN what ELSE store["output"]
      /\ store'["manifest"] = IF at = "manifest" THEN what ELSE store["manifest"]
  BY <1>1, <1>3, PathFacts DEF Replayed
<1>9. OnDisk'
  BY <1>4, <1>8, OnDiskStays
<1>10. Carries(proc[p])' /\ (alone => FindsAlone(proc[p])')
  <2>1. CASE at = "output"
    BY <1>2, <1>5, <1>7, <1>8, <2>1 DEF Carries, FindsAlone, Claims, Replayed
  <2>. QED  BY <1>6, <2>1, IdleCarries
<1>11. alone => AloneReplayIsPaired'
  BY <1>1, <1>2, <1>7, <1>8 DEF AloneReplayIsPaired, Replayed
<1>12. DOMAIN proc' = Procs /\ \A q \in Procs : q # p => proc'[q] = proc[q]
  BY <1>4, MoveFacts
<1>. QED  BY <1>1, <1>3, <1>4, <1>8, <1>9, <1>10, <1>11, <1>12, StepKeeps DEF WorkflowInv, Shape

\* A file that was not there is created, and then copied to; one that is whole is
\* never touched.
LEMMA RawKeeps ==
  ASSUME WorkflowInv, NEW p \in Procs, CreateRaw(p) \/ CopyRaw(p) \/ RawStored(p)
  PROVE  WorkflowInv'
<1>1. /\ proc[p].at \in {"create", "copy", "stored"}
      /\ Carries(proc[p]) /\ proc[p] # Idle
  BY AtWork DEF CreateRaw, CopyRaw, RawStored, WorkflowInv
<1>2. /\ lock' = lock /\ tested' = tested /\ alone' = alone
      /\ DOMAIN store' = Paths
      /\ \A x \in Paths : x # "raw" => store'[x] = store[x]
  BY DEF CreateRaw, CopyRaw, RawStored, WorkflowInv, Shape
<1>3. store["raw"] = Whole => store'["raw"] = Whole
  <2>1. store'["raw"] = store["raw"] \/ store["raw"] = None \/ store'["raw"] = Whole
    BY PathFacts DEF CreateRaw, CopyRaw, RawStored, WorkflowInv, Shape
  <2>. QED  BY <2>1, WorkflowAssumption
<1>4. stored' \in BOOLEAN /\ (stored' => stored \/ store["raw"] = Whole)
  <2>1. CASE RawStored(p)
    <3>1. stored' = TRUE /\ proc[p].at = "stored"
      BY <2>1 DEF RawStored
    <3>. QED  BY <1>1, <3>1 DEF Carries
  <2>2. CASE CreateRaw(p) \/ CopyRaw(p)
    BY <2>2 DEF CreateRaw, CopyRaw, WorkflowInv, Shape
  <2>. QED  BY <2>1, <2>2
<1>5. store'["run"] = store["run"] /\ store'["bundle"] = store["bundle"]
      /\ store'["output"] = store["output"] /\ store'["manifest"] = store["manifest"]
  BY <1>2, PathFacts
<1>6. OnDisk'
  BY <1>2, <1>3, <1>4, <1>5 DEF WorkflowInv, OnDisk, BundleOk, RunOk, WasTested
<1>7. \/ proc' = [proc EXCEPT ![p] = Idle]
      \/ /\ proc' = [proc EXCEPT ![p] = [proc[p] EXCEPT !.at = "copy"]]
         /\ proc[p].at = "create"
      \/ /\ proc' = [proc EXCEPT ![p] = [proc[p] EXCEPT !.at = "stored"]]
         /\ proc[p].at \in {"create", "copy"} /\ store'["raw"] = Whole
  BY PathFacts DEF CreateRaw, CopyRaw, RawStored, Continue, Return, Concurrent, WorkflowInv, Shape
<1>8. \/ proc'[p] = Idle
      \/ proc'[p] = [at |-> "copy"]
      \/ proc'[p] = [at |-> "stored"] /\ store'["raw"] = Whole
  <2>1. proc[p].at \in {"create", "copy"} => proc[p] = [at |-> proc[p].at]
    BY <1>1 DEF Carries
  <2>2. proc[p].at \in {"create", "copy"} =>
          /\ [proc[p] EXCEPT !.at = "copy"] = [at |-> "copy"]
          /\ [proc[p] EXCEPT !.at = "stored"] = [at |-> "stored"]
    BY <2>1
  <2>. QED  BY <1>7, <2>2, MoveFacts
<1>9. Carries(proc[p])' /\ FindsAlone(proc[p])'
  <2>1. CASE proc'[p] = Idle
    BY <2>1, IdleCarries
  <2>2. CASE proc'[p] # Idle
    BY <1>8, <2>2 DEF Carries, FindsAlone, Claims, Replayed
  <2>. QED  BY <2>1, <2>2
<1>10. DOMAIN proc' = Procs /\ \A q \in Procs : q # p => proc'[q] = proc[q]
  BY <1>7, MoveFacts
<1>11. alone => AloneReplayIsPaired'
  BY <1>2, <1>5, PairedStays
<1>. QED  BY <1>1, <1>2, <1>3, <1>4, <1>5, <1>6, <1>9, <1>10, <1>11, StepKeeps

\* An exception removes a lock and an output, a kill nothing.
LEMMA StopKeeps ==
  ASSUME WorkflowInv, NEW p \in Procs, Fail(p) \/ Crash(p)
  PROVE  WorkflowInv'
<1>1. /\ proc[p] # Idle /\ proc' = [proc EXCEPT ![p] = Idle]
      /\ tested' = tested /\ alone' = alone /\ stored' = stored
      /\ lock' \in {lock, None}
      /\ DOMAIN store' = Paths
      /\ \A x \in Paths : \/ store'[x] = store[x]
                          \/ x = "output" /\ proc[p].at = "manifest" /\ store'[x] = None
  BY DEF Fail, Crash, Return, WorkflowInv, Shape
<1>2. /\ store'["run"] = store["run"] /\ store'["bundle"] = store["bundle"]
      /\ store'["raw"] = store["raw"] /\ store'["manifest"] = store["manifest"]
      /\ store'["output"] = store["output"] \/ proc[p].at = "manifest"
  BY <1>1, PathFacts
<1>3. OnDisk'
  BY <1>1, <1>2, OnDiskStays
<1>4. alone => AloneReplayIsPaired'
  <2>1. CASE store'["output"] = store["output"]
    BY <1>1, <1>2, <2>1, PairedStays
  <2>2. CASE proc[p].at = "manifest"
    <3>1. alone => store["manifest"] = None
      BY <2>2 DEF WorkflowInv, Undisturbed, FindsAlone
    <3>. QED  BY <1>2, <3>1 DEF AloneReplayIsPaired
  <2>. QED  BY <1>2, <2>1, <2>2
<1>. QED  BY <1>1, <1>2, <1>3, <1>4, MoveFacts, IdleCarries, StepKeeps DEF WorkflowInv, Shape

\* The operator makes room while no command runs.
LEMMA RemoveKeeps == ASSUME WorkflowInv, NEW path \in Paths, Remove(path) PROVE WorkflowInv'
<1>1. /\ \A p \in Procs : proc[p] = Idle
      /\ proc' = proc /\ tested' = tested /\ alone' = alone
      /\ stored' = (stored /\ path # "raw")
      /\ lock' = IF path = "run" THEN None ELSE lock
      /\ DOMAIN store' = Paths
      /\ \A x \in Paths : store'[x] = IF x = path \/ (path = "output" /\ x = "manifest")
                                      THEN None ELSE store[x]
  BY DEF Remove
<1>2. /\ store'["run"] = IF path = "run" THEN None ELSE store["run"]
      /\ store'["bundle"] = IF path = "bundle" THEN None ELSE store["bundle"]
      /\ store'["raw"] = IF path = "raw" THEN None ELSE store["raw"]
      /\ store'["output"] = IF path = "output" THEN None ELSE store["output"]
      /\ store'["manifest"] = IF path \in {"output", "manifest"} THEN None ELSE store["manifest"]
  BY <1>1, PathFacts
<1>3. Shape'
  BY <1>1, PathFacts DEF WorkflowInv, Shape, Paths, Staged, Selections, Replayed
<1>4. OnDisk'
  BY <1>1, <1>2 DEF WorkflowInv, OnDisk, BundleOk, RunOk, WasTested
<1>5. ASSUME NEW p \in Procs PROVE Carries(proc[p])' /\ FindsAlone(proc[p])'
  BY <1>1, IdleCarries
<1>6. Undisturbed'
  <2>1. alone => AloneReplayIsPaired'
    BY <1>2 DEF WorkflowInv, Undisturbed, AloneReplayIsPaired
  <2>2. \A q, r \in Procs : q # r => proc'[q] = Idle \/ proc'[r] = Idle
    BY <1>1
  <2>. QED  BY <1>1, <1>5, <2>1, <2>2 DEF Undisturbed, Idle
<1>. QED  BY <1>3, <1>4, <1>5, <1>6 DEF WorkflowInv

-----------------------------------------------------------------------------
(* Theorems *)

LEMMA InitWorkflow == Init => WorkflowInv
<1>. SUFFICES ASSUME Init PROVE WorkflowInv
  OBVIOUS
<1>1. /\ DOMAIN store = Paths /\ DOMAIN proc = Procs
      /\ \A x \in Paths : store[x] = None
      /\ \A p \in Procs : proc[p] = Idle
      /\ lock = None /\ tested = {} /\ stored = FALSE /\ alone = TRUE
  BY DEF Init
<1>2. store["run"] = None /\ store["bundle"] = None /\ store["manifest"] = None
  BY <1>1, PathFacts
<1>3. Shape
  BY <1>1 DEF Shape
<1>4. OnDisk
  BY <1>1, <1>2 DEF OnDisk
<1>5. ASSUME NEW p \in Procs PROVE Carries(proc[p]) /\ FindsAlone(proc[p])
  BY <1>1 DEF Carries, FindsAlone, Idle, Claims, Replayed
<1>6. Undisturbed
  BY <1>1, <1>2, <1>5 DEF Undisturbed, AloneReplayIsPaired
<1>. QED  BY <1>3, <1>4, <1>5, <1>6 DEF WorkflowInv

LEMMA UnchangedWorkflow == ASSUME WorkflowInv, UNCHANGED vars PROVE WorkflowInv'
<1>1. /\ store' = store /\ lock' = lock /\ proc' = proc /\ tested' = tested
      /\ stored' = stored /\ alone' = alone
  BY DEF vars
<1>2. Shape' /\ OnDisk'
  BY <1>1 DEF WorkflowInv, Shape, OnDisk, BundleOk, RunOk, WasTested, Paths, Staged, Selections, Replayed
<1>3. \A p \in Procs : Carries(proc[p])'
  BY <1>1 DEF WorkflowInv, Carries, BundleOk, RunOk, WasTested
<1>4. Undisturbed'
  BY <1>1 DEF WorkflowInv, Undisturbed, FindsAlone, AloneReplayIsPaired, Idle
<1>. QED  BY <1>2, <1>3, <1>4 DEF WorkflowInv

LEMMA NextKeepsWorkflow == ASSUME WorkflowInv, [Next]_vars PROVE WorkflowInv'
<1>1. CASE UNCHANGED vars
  BY <1>1, UnchangedWorkflow
<1>2. ASSUME NEW p \in Procs,
             \/ BuildDataset(p) \/ TrainImpactnet(p) \/ TrainLogistic(p)
             \/ Calibrate(p) \/ SelectThresholds(p)
             \/ FinalTest(p) \/ ExportBundle(p) \/ Replay(p) \/ StoreRaw(p)
      PROVE  WorkflowInv'
  BY <1>2, BuildKeeps, TrainKeeps, SelectKeeps, FinalTestKeeps, ExportKeeps, ReplayKeeps,
     StoreRawKeeps DEF TrainImpactnet, TrainLogistic
<1>3. ASSUME NEW p \in Procs,
             \/ OpenSelection(p) \/ CloseSelection(p) \/ Rename(p)
             \/ ClaimFinalTest(p) \/ CommitFinalTest(p) \/ CompleteLock(p)
             \/ ReplaceReplay(p) \/ CreateRaw(p) \/ CopyRaw(p) \/ RawStored(p)
             \/ Fail(p) \/ Crash(p)
      PROVE  WorkflowInv'
  BY <1>3, OpenKeeps, CloseKeeps, RenameKeeps, ClaimKeeps, CommitKeeps, CompleteKeeps,
     ReplaceKeeps, RawKeeps, StopKeeps
<1>. QED  BY <1>1, <1>2, <1>3, RemoveKeeps DEF Next

\* What lies on disk, what each command carries to it, and what a command finds
\* while it is alone.
THEOREM WorkflowInvariance == Spec => []WorkflowInv
<1>1. WorkflowInv /\ [Next]_vars => WorkflowInv'
  BY NextKeepsWorkflow
<1>. QED  BY InitWorkflow, <1>1, PTL DEF Spec

\* An exported bundle holds a primary run that a frozen final test evaluated and
\* thresholds of its calibration, through overlaps, failures, kills and removals; if
\* commands never overlapped the test was of exactly these.
THEOREM ReleasesAreTested == Spec => []ReleaseIsTested
<1>1. WorkflowInv => ReleaseIsTested
  BY DEF WorkflowInv, OnDisk, BundleOk, WasTested, ReleaseIsTested
<1>. QED  BY WorkflowInvariance, <1>1, PTL

\* A manifest lies next to the output it was written for unless replays overlapped,
\* and a raw file whose store reported success stays whole.
THEOREM FilesStayWhole == Spec => []FilesAreWhole
<1>1. WorkflowInv => FilesAreWhole
  <2>. SUFFICES ASSUME WorkflowInv PROVE AloneReplayIsPaired /\ RawIsWhole
    BY DEF FilesAreWhole
  <2>1. RawIsWhole
    BY DEF WorkflowInv, OnDisk, RawIsWhole
  <2>2. CASE alone
    BY <2>1, <2>2 DEF WorkflowInv, Undisturbed
  <2>3. CASE ~alone
    BY <2>1, <2>3 DEF AloneReplayIsPaired
  <2>. QED  BY <2>2, <2>3
<1>. QED  BY WorkflowInvariance, <1>1, PTL

LEMMA FinalStays == ASSUME WorkflowInv, Next PROVE FinalStep
<1>. SUFFICES ASSUME alone', lock # None, lock.status = "complete", store'["run"] # None
              PROVE  lock' = lock /\ tested' = tested
  BY DEF FinalStep
<1>1. alone
  BY DEF Next, BuildDataset, TrainImpactnet, TrainLogistic, TrainRun, Calibrate, SelectThresholds,
         OpenSelection, CloseSelection, Rename, FinalTest, ClaimFinalTest, CommitFinalTest,
         CompleteLock, ExportBundle, Replay, ReplaceReplay, StoreRaw, CreateRaw, CopyRaw,
         RawStored, Fail, Crash, Remove, Stage, Begin
<1>2. \A p \in Procs : proc[p].at \notin Claims
  <2>1. \A p \in Procs : FindsAlone(proc[p])
    BY <1>1 DEF WorkflowInv, Undisturbed
  <2>2. lock # [status |-> "in_progress"]
    OBVIOUS
  <2>. QED  BY <2>1, <2>2 DEF FindsAlone, Claims
<1>3. ASSUME NEW p \in Procs,
             \/ BuildDataset(p) \/ TrainImpactnet(p) \/ TrainLogistic(p)
             \/ Calibrate(p) \/ SelectThresholds(p)
             \/ FinalTest(p) \/ ExportBundle(p) \/ Replay(p) \/ StoreRaw(p)
      PROVE  lock' = lock /\ tested' = tested
  BY <1>3 DEF BuildDataset, TrainImpactnet, TrainLogistic, TrainRun, Calibrate, SelectThresholds,
              FinalTest, ExportBundle, Replay, StoreRaw, Stage, Begin
<1>4. ASSUME NEW p \in Procs,
             \/ OpenSelection(p) \/ CloseSelection(p) \/ Rename(p)
             \/ ReplaceReplay(p) \/ CreateRaw(p) \/ CopyRaw(p) \/ RawStored(p) \/ Crash(p)
      PROVE  lock' = lock /\ tested' = tested
  BY <1>4 DEF OpenSelection, CloseSelection, Rename, ReplaceReplay, CreateRaw, CopyRaw, RawStored, Crash
<1>5. ASSUME NEW p \in Procs, ClaimFinalTest(p) \/ CommitFinalTest(p) \/ CompleteLock(p) PROVE FALSE
  BY <1>2, <1>5 DEF ClaimFinalTest, CommitFinalTest, CompleteLock, Claims
<1>6. ASSUME NEW p \in Procs, Fail(p) PROVE lock' = lock /\ tested' = tested
  BY <1>2, <1>6 DEF Fail, Claims
<1>7. ASSUME NEW path \in Paths, Remove(path) PROVE lock' = lock /\ tested' = tested
  <2>1. path # "run"
    BY <1>7 DEF Remove
  <2>. QED  BY <1>7, <2>1 DEF Remove
<1>. QED  BY <1>3, <1>4, <1>5, <1>6, <1>7 DEF Next

\* Without overlaps nothing takes the lock of a completed final test away but the
\* removal of its run, and the run is tested no further.
THEOREM CompletedTestsAreFinal == Spec => AloneTestIsFinal
<1>1. WorkflowInv /\ [Next]_vars => [FinalStep]_vars
  BY FinalStays
<1>. QED  BY WorkflowInvariance, <1>1, PTL DEF Spec, AloneTestIsFinal

-----------------------------------------------------------------------------
(* The directory of a synthetic run: the inductive invariant *)

\* A content is whole.
IsWhole(content) == content.whole

Fills(i) == Program[i].how \in {"write", "create"}

\* The steps of a command, and what it holds at each of them.
Working(w) ==
  /\ w = [at |-> w.at, kind |-> w.kind, step |-> w.step, by |-> w.by, knows |-> w.knows,
          plot |-> w.plot, put |-> w.put, update |-> w.update]
  /\ w.at \in {"first", "stage", "replace", "inventory", "sum", "finish"}
  /\ w.kind \in {"run", "replot"} /\ w.step \in 1..12 /\ w.put \in {0, 1}
  /\ w.kind = "replot" => w.step = 10 /\ w.at \notin {"first", "finish"}
  /\ w.at = "first" => w.step = 1
  /\ w.at \in {"first", "stage"} => w.put = 0
  /\ w.at = "replace" => w.step = 10 /\ IsWhole(w.plot)
  /\ w.kind = "replot" /\ w.at \in {"inventory", "sum"} => w.update
  /\ "test" \notin w.knows

DirShape ==
  /\ dir = [files |-> dir.files, temps |-> dir.temps, manifest |-> dir.manifest,
            sum |-> dir.sum, progress |-> dir.progress]
  /\ DOMAIN command = Commands
  /\ single \in BOOLEAN /\ cut \in BOOLEAN
  /\ \A c \in Commands :
       /\ command[c].at \in {"new", "ended"} \/ Working(command[c])
       /\ c \in dir.temps => command[c].at \in {"replace", "ended"}

\* A run that is still filling the directory.
Filling(w) == w.at \in {"first", "stage", "replace"} /\ w.kind = "run"

\* What a run wrote is there, and is its own once it created the marker.
Filled(c) ==
  Filling(command[c]) =>
    /\ \A i \in 1..12 : i < command[c].step /\ Fills(i) => Program[i].file \in DOMAIN dir.files
    /\ command[c].step > 4 =>
         \A i \in 4..12 : i < command[c].step /\ Fills(i) =>
           /\ IsWhole(dir.files[Program[i].file])
           /\ dir.files[Program[i].file].from = {c}
    /\ command[c].step > 11 => "test" \notin dir.files["bundle"].learned

\* The owner of the marker has gone through all its stages.
Finished ==
  /\ Written \subseteq DOMAIN dir.files
  /\ \A f \in Own : IsWhole(dir.files[f]) /\ dir.files[f].from = dir.files["marker"].from
  /\ "test" \notin dir.files["bundle"].learned
  /\ \A c \in Commands : Filling(command[c]) => command[c].step <= 4

\* Nothing is listed, and no manifest updated, before that.
Listed ==
  /\ dir.manifest # Absent => Finished
  /\ \A c \in Active : command[c].kind = "run" /\ ~Filling(command[c]) => Finished
  /\ \A c \in Active : command[c].kind = "replot" /\ command[c].update => Finished

OfOneRun(files) == \A f \in DOMAIN files : IsWhole(files[f]) /\ files[f].from = files["marker"].from

OneRenderer(files) ==
  /\ {MetricPlots, Timelines} \subseteq DOMAIN files
  /\ files[MetricPlots].by = files[Timelines].by

\* What a run finds as long as no two commands were active together.
RunAlone(c) ==
  command[c].kind = "run" =>
    /\ command[c].at = "first" => DOMAIN dir.files = {}
    /\ Filling(command[c]) =>
         /\ dir.manifest = Absent
         /\ \A f \in DOMAIN dir.files : IsWhole(dir.files[f]) /\ dir.files[f].from = {c}
         /\ command[c].step > 10 => OneRenderer(dir.files)
    /\ command[c].at = "replace" =>
         /\ command[c].plot.from = {c}
         /\ command[c].put = 1 => /\ MetricPlots \in DOMAIN dir.files
                                  /\ dir.files[MetricPlots].by = command[c].plot.by
    /\ command[c].at = "inventory" => OfOneRun(dir.files) /\ OneRenderer(dir.files)
    /\ command[c].at = "finish" => dir.sum = dir.manifest

\* What a replot that will update the manifest finds then.
ReplotAlone(c) ==
  command[c].kind = "replot" /\ command[c].update =>
    /\ command[c].at \in {"replace", "inventory"} => OfOneRun(dir.files)
    /\ command[c].at = "replace" =>
         /\ command[c].plot.from = dir.files["marker"].from
         /\ command[c].put = 1 => /\ MetricPlots \in DOMAIN dir.files
                                  /\ dir.files[MetricPlots].by = command[c].plot.by
    /\ command[c].at = "inventory" => OneRenderer(dir.files)

\* The directory without the temporary one of c.
Without(c) == [dir EXCEPT !.temps = @ \ {c}]

\* "complete" is said of a directory that verifies, but while a replot is at work.
Complete ==
  ~cut /\ dir.progress = "complete" =>
    /\ Active = {} => Verifies(dir)
    /\ \A c \in Active :
         /\ command[c].kind = "replot"
         /\ command[c].at = "stage" => Verifies(dir)
         /\ command[c].at = "replace" =>
              command[c].update /\ (command[c].put = 0 => Verifies(Without(c)))

AloneInDir ==
  single =>
    /\ \A b, c \in Active : b = c
    /\ \A c \in Active : /\ RunAlone(c) /\ ReplotAlone(c)
                         /\ command[c].at \in {"sum", "finish"} => dir.manifest = InventoryOf(dir)
    /\ dir.manifest.is = "whole" => OfOneRun(dir.manifest.files) /\ OneRenderer(dir.manifest.files)
    /\ Complete

SyntheticInv ==
  /\ DirShape
  /\ \A c \in Commands : Filled(c)
  /\ Listed
  /\ AloneInDir

-----------------------------------------------------------------------------
(* The program of a run *)

OwnFiles == {"marker", "index", "preprocessing", "history", "validation", "test", "bundle", "smoke"}

\* The stages by number.
LEMMA ProgramTable ==
  /\ Len(Program) = 12 /\ DOMAIN Program = 1..12
  /\ Program[1].file = "config" /\ Program[2].file = "tables" /\ Program[3].file = "tables"
  /\ Program[4].file = "marker" /\ Program[5].file = "index" /\ Program[6].file = "preprocessing"
  /\ Program[7].file = "history" /\ Program[8].file = "validation" /\ Program[9].file = "test"
  /\ Program[10].file = "plots" /\ Program[11].file = "bundle" /\ Program[12].file = "smoke"
  /\ Program[1].how = "write" /\ Program[2].how = "look" /\ Program[3].how = "write"
  /\ Program[4].how = "create" /\ Program[5].how = "write" /\ Program[6].how = "write"
  /\ Program[7].how = "write" /\ Program[8].how = "write" /\ Program[9].how = "write"
  /\ Program[10].how = "plots" /\ Program[11].how = "create" /\ Program[12].how = "write"
  /\ \A i \in 1..12 : "test" \notin Program[i].fits
  /\ Program[11].shows = {}
<1>1. /\ Len(Program) = 12 /\ DOMAIN Program = 1..12
      /\ Program[1] = ResolvedConfig /\ Program[2] = LookForData /\ Program[3] = WriteTables
      /\ Program[4] = CreateMarker /\ Program[5] = BuildIndex /\ Program[6] = FitPreprocessing
      /\ Program[7] = TrainTcn /\ Program[8] = CalibrateTcn /\ Program[9] = FrozenTest
      /\ Program[10] = DrawPlots /\ Program[11] = ExportModel /\ Program[12] = ShadowSmoke
  BY DEF Program
<1>2. /\ ResolvedConfig.file = "config" /\ ResolvedConfig.how = "write" /\ ResolvedConfig.fits = {}
      /\ LookForData.file = "tables" /\ LookForData.how = "look" /\ LookForData.fits = {}
      /\ WriteTables.file = "tables" /\ WriteTables.how = "write" /\ WriteTables.fits = {}
      /\ CreateMarker.file = "marker" /\ CreateMarker.how = "create" /\ CreateMarker.fits = {}
      /\ BuildIndex.file = "index" /\ BuildIndex.how = "write" /\ BuildIndex.fits = {}
  BY DEF ResolvedConfig, LookForData, WriteTables, CreateMarker, BuildIndex, Step
<1>3. /\ FitPreprocessing.file = "preprocessing" /\ FitPreprocessing.how = "write"
      /\ TrainTcn.file = "history" /\ TrainTcn.how = "write"
      /\ CalibrateTcn.file = "validation" /\ CalibrateTcn.how = "write"
      /\ "test" \notin FitPreprocessing.fits /\ "test" \notin TrainTcn.fits
      /\ "test" \notin CalibrateTcn.fits
  BY DEF FitPreprocessing, TrainTcn, CalibrateTcn, Step, PreprocessedOn, SampledFrom, TrainedOn,
         CalibratedOn
<1>4. /\ FrozenTest.file = "test" /\ FrozenTest.how = "write" /\ FrozenTest.fits = {}
      /\ DrawPlots.file = "plots" /\ DrawPlots.how = "plots" /\ DrawPlots.fits = {}
      /\ ExportModel.file = "bundle" /\ ExportModel.how = "create" /\ ExportModel.fits = {}
      /\ ExportModel.shows = {}
      /\ ShadowSmoke.file = "smoke" /\ ShadowSmoke.how = "write" /\ ShadowSmoke.fits = {}
  BY DEF FrozenTest, DrawPlots, ExportModel, ShadowSmoke, Step
<1>5. /\ "test" \notin Program[1].fits /\ "test" \notin Program[2].fits /\ "test" \notin Program[3].fits
      /\ "test" \notin Program[4].fits /\ "test" \notin Program[5].fits /\ "test" \notin Program[6].fits
      /\ "test" \notin Program[7].fits /\ "test" \notin Program[8].fits /\ "test" \notin Program[9].fits
      /\ "test" \notin Program[10].fits /\ "test" \notin Program[11].fits /\ "test" \notin Program[12].fits
  BY <1>1, <1>2, <1>3, <1>4
<1>6. \A i \in 1..12 : i \in {1, 2, 3, 4, 5, 6, 7, 8, 9, 10, 11, 12}
  OBVIOUS
<1>7. \A i \in 1..12 : "test" \notin Program[i].fits
  BY <1>5, <1>6, Zenon
<1>. QED  BY <1>1, <1>2, <1>3, <1>4, <1>7

\* One by one.
LEMMA Twelve == \A i \in 1..12 : i \in {1, 2, 3, 4, 5, 6, 7, 8, 9, 10, 11, 12}
  OBVIOUS

\* Own files are written once each, from the marker on; before it only the
\* configuration and the data.
LEMMA ProgramFacts ==
  /\ \A i \in 1..12 : Fills(i) =>
       /\ i # 2 /\ i # 10
       /\ i < 4 => Program[i].file \in {"config", "tables"}
       /\ i >= 4 => Program[i].file \in OwnFiles
       /\ Program[i].how = "create" => i \in {4, 11}
  /\ \A i, j \in 4..12 : Fills(i) /\ Fills(j) /\ Program[i].file = Program[j].file => i = j
  /\ \A f \in OwnFiles : \E i \in 4..12 : Fills(i) /\ Program[i].file = f
  /\ \A i \in 1..12 : Program[i].how = "plots" <=> i = 10
  /\ \A i \in 1..12 : Program[i].how = "look" <=> i = 2
<1>. USE ProgramTable
<1>1. /\ Fills(1) /\ ~Fills(2) /\ Fills(3) /\ Fills(4) /\ Fills(5) /\ Fills(6) /\ Fills(7)
      /\ Fills(8) /\ Fills(9) /\ ~Fills(10) /\ Fills(11) /\ Fills(12)
  BY DEF Fills
<1>2. ASSUME NEW i \in 1..12, Fills(i)
      PROVE  /\ i # 2 /\ i # 10
             /\ i < 4 => Program[i].file \in {"config", "tables"}
             /\ i >= 4 => Program[i].file \in OwnFiles
             /\ Program[i].how = "create" => i \in {4, 11}
  BY <1>1, <1>2, Twelve DEF OwnFiles
<1>3. ASSUME NEW i \in 4..12, NEW j \in 4..12, Fills(i), Fills(j), Program[i].file = Program[j].file
      PROVE  i = j
  <2>1. i \in {4, 5, 6, 7, 8, 9, 11, 12} /\ j \in {4, 5, 6, 7, 8, 9, 11, 12}
    BY <1>1, <1>3
  <2>. QED  BY <1>3, <2>1
<1>4. ASSUME NEW f \in OwnFiles PROVE \E i \in 4..12 : Fills(i) /\ Program[i].file = f
  BY <1>1 DEF OwnFiles
<1>5. ASSUME NEW i \in 1..12 PROVE /\ Program[i].how = "plots" <=> i = 10
                                   /\ Program[i].how = "look" <=> i = 2
  BY Twelve
<1>. QED  BY <1>2, <1>3, <1>4, <1>5

\* What a run writes, and its own part of it.
LEMMA WrittenFacts ==
  /\ Own = OwnFiles /\ Written = OwnFiles \cup {"config", "tables"}
  /\ PlotStep = 10
  /\ MetricPlots \notin Written /\ Timelines \notin Written /\ MetricPlots # Timelines
  /\ Sources \subseteq Written /\ "marker" \in Own /\ "bundle" \in Own
  /\ Len(Plots) = 2 /\ Plots[1] = MetricPlots /\ Plots[2] = Timelines
<1>1. Written = {Program[i].file : i \in {j \in 1..12 : Fills(j)}}
  BY ProgramTable DEF Written, Fills
<1>2. Fills(1) /\ Fills(3)
  BY ProgramTable DEF Fills
<1>3. Written = OwnFiles \cup {"config", "tables"}
  <2>1. \A f \in Written : f \in OwnFiles \cup {"config", "tables"}
    BY <1>1, ProgramFacts
  <2>2. \A f \in OwnFiles : f \in Written
    BY <1>1, ProgramFacts
  <2>3. "config" \in Written /\ "tables" \in Written
    BY <1>1, <1>2, ProgramTable
  <2>. QED  BY <2>1, <2>2, <2>3
<1>4. Own = OwnFiles
  BY <1>3 DEF Own, OwnFiles
<1>5. PlotStep = 10
  BY ProgramTable, ProgramFacts DEF PlotStep
<1>. QED  BY <1>3, <1>4, <1>5 DEF OwnFiles, MetricPlots, Timelines, Sources, Plots

-----------------------------------------------------------------------------
(* Steps in general *)

\* Only the entry of c changes.
Moves(c) ==
  DOMAIN command' = Commands /\ \A b \in Commands : b # c => command'[b] = command[b]

PastMarker(c) == Filling(command[c]) /\ command[c].step > 4

\* The marker is of the one run that is past it.
LEMMA MarkerIsOwn ==
  ASSUME NEW c \in Commands, Filled(c), PastMarker(c)
  PROVE  "marker" \in DOMAIN dir.files /\ dir.files["marker"].from = {c}
<1>1. Fills(4) /\ Program[4].file = "marker"
  BY ProgramTable DEF Fills
<1>. QED  BY <1>1 DEF Filled, PastMarker

\* What c must leave alone: everything of its own that a run has written once the
\* marker is there, unless c is that run.
Careful(c) ==
  /\ DOMAIN dir.files \subseteq DOMAIN dir'.files
  /\ ~PastMarker(c) => \A f \in Own : f \in DOMAIN dir.files => dir'.files[f] = dir.files[f]
  /\ Filling(command'[c]) =>
       /\ Filling(command[c]) /\ command'[c].step \in 1..12
       /\ command'[c].step > 4 => PastMarker(c) \/ "marker" \notin DOMAIN dir.files

LEMMA FillingWorks ==
  ASSUME DirShape, NEW b \in Commands, Filling(command[b])
  PROVE  Working(command[b])
  BY DEF DirShape, Filling

LEMMA OthersStayFilled ==
  ASSUME DirShape, NEW b \in Commands, NEW c \in Commands, b # c, Moves(c), Careful(c), Filled(b), Filled(c)
  PROVE  Filled(b)'
<1>. SUFFICES ASSUME Filling(command[b]) PROVE Filled(b)'
  BY DEF Filled, Moves
<1>1. command'[b] = command[b]
  BY DEF Moves
<1>2. \A i \in 1..12 : i < command[b].step /\ Fills(i) => Program[i].file \in DOMAIN dir'.files
  BY DEF Filled, Careful
<1>3. CASE command[b].step > 4
  <2>1. ~PastMarker(c)
    <3>1. dir.files["marker"].from = {b}
      BY <1>3, MarkerIsOwn DEF PastMarker
    <3>. QED  BY <3>1, MarkerIsOwn
  <2>2. \A f \in Own : f \in DOMAIN dir.files => dir'.files[f] = dir.files[f]
    BY <2>1 DEF Careful
  <2>3. \A i \in 4..12 : i < command[b].step /\ Fills(i) =>
          /\ dir'.files[Program[i].file] = dir.files[Program[i].file]
          /\ i \in 1..12
    <3>1. \A i \in 4..12 : i \in 1..12 /\ (i >= 4)
      OBVIOUS
    <3>2. \A i \in 4..12 : Fills(i) => Program[i].file \in Own
      BY <3>1, ProgramFacts, WrittenFacts
    <3>3. \A i \in 1..12 : i < command[b].step /\ Fills(i) => Program[i].file \in DOMAIN dir.files
      BY DEF Filled
    <3>. QED  BY <2>2, <3>1, <3>2, <3>3
  <2>4. command[b].step > 11 => dir'.files["bundle"] = dir.files["bundle"]
    <3>1. Fills(11) /\ Program[11].file = "bundle"
      BY ProgramTable DEF Fills
    <3>2. command[b].step > 11 => "bundle" \in DOMAIN dir.files
      BY <3>1 DEF Filled
    <3>. QED  BY <2>2, <3>2, WrittenFacts
  <2>. QED  BY <1>1, <1>2, <1>3, <2>3, <2>4 DEF Filled
<1>4. CASE ~(command[b].step > 4)
  <2>1. command[b].step > 11 => command[b].step > 4
    <3>1. command[b].step \in 1..12
      BY FillingWorks DEF Working
    <3>. QED  BY <3>1
  <2>. QED  BY <1>1, <1>2, <1>4, <2>1 DEF Filled
<1>. QED  BY <1>3, <1>4

\* A directory that is finished stays so.
LEMMA FinishedStays ==
  ASSUME DirShape, NEW c \in Commands, Moves(c), Careful(c), Finished
  PROVE  Finished'
<1>1. ~PastMarker(c)
  <2>1. Filling(command[c]) => command[c].step <= 4 /\ command[c].step \in 1..12
    BY FillingWorks DEF Finished, Working
  <2>. QED  BY <2>1 DEF PastMarker
<1>2. \A f \in Own : f \in DOMAIN dir.files /\ dir'.files[f] = dir.files[f]
  BY <1>1, WrittenFacts DEF Finished, Careful
<1>3. Written \subseteq DOMAIN dir'.files
  BY DEF Finished, Careful
<1>4. "marker" \in Own /\ "bundle" \in Own /\ "marker" \in DOMAIN dir.files
  BY <1>2, WrittenFacts
<1>5. ASSUME NEW b \in Commands, Filling(command'[b]) PROVE command'[b].step <= 4 \/ b # c
  BY <1>1, <1>4, <1>5 DEF Careful
<1>6. \A b \in Commands : Filling(command'[b]) /\ b # c => command'[b].step <= 4
  BY DEF Moves, Finished
<1>7. (\A f \in Own : IsWhole(dir.files[f]) /\ dir.files[f].from = dir.files["marker"].from)'
  <2>1. \A f \in Own : IsWhole(dir.files[f]) /\ dir.files[f].from = dir.files["marker"].from
    BY DEF Finished
  <2>2. ASSUME NEW f \in Own
        PROVE  IsWhole(dir'.files[f]) /\ dir'.files[f].from = dir'.files["marker"].from
    BY <1>2, <1>4, <2>1
  <2>. QED  BY <2>2 DEF Own, Written, IsWhole
<1>8. "test" \notin dir'.files["bundle"].learned
  BY <1>2, <1>4 DEF Finished
<1>. QED  BY <1>3, <1>5, <1>6, <1>7, <1>8 DEF Finished

\* What a step of c owes to the properties of a single command.
AloneHere(c) ==
  /\ c \in Active =>
       /\ RunAlone(c) /\ ReplotAlone(c)
       /\ command[c].at \in {"sum", "finish"} => dir.manifest = InventoryOf(dir)
  /\ dir.manifest.is = "whole" => OfOneRun(dir.manifest.files) /\ OneRenderer(dir.manifest.files)
  /\ Complete

\* The types after a step of c.
Shaped(c) ==
  /\ dir = [files |-> dir.files, temps |-> dir.temps, manifest |-> dir.manifest,
            sum |-> dir.sum, progress |-> dir.progress]
  /\ command[c].at \in {"new", "ended"} \/ Working(command[c])
  /\ c \in dir.temps => command[c].at \in {"replace", "ended"}
  /\ cut \in BOOLEAN

\* A step of a command that is active.
LEMMA CommandKeeps ==
  ASSUME SyntheticInv, NEW c \in Active, Moves(c), Careful(c), Shaped(c)', Filled(c)',
         single' = single, dir'.temps \subseteq dir.temps \cup {c},
         dir'.manifest # Absent => Finished,
         command'[c].at \notin {"new", "ended"} =>
           /\ command'[c].kind = "run" /\ ~Filling(command'[c]) => Finished'
           /\ command'[c].kind = "replot" /\ command'[c].update => Finished,
         single => AloneHere(c)'
  PROVE  SyntheticInv'
<1>. DEFINE active(w) == w.at \notin {"new", "ended"}
<1>1. DirShape /\ c \in Commands /\ command[c].at \notin {"new", "ended"}
  BY DEF SyntheticInv, Active
<1>2. Finished => Finished'
  BY <1>1, FinishedStays
<1>3. DirShape'
  <2>1. \A b \in Commands : b # c =>
          /\ command'[b].at \in {"new", "ended"} \/ Working(command'[b])
          /\ b \in dir'.temps => command'[b].at \in {"replace", "ended"}
    BY DEF DirShape, SyntheticInv, Moves
  <2>2. Commands' = Commands
    BY DEF Commands
  <2>3. /\ command'[c].at \in {"new", "ended"} \/ Working(command'[c])
        /\ c \in dir'.temps => command'[c].at \in {"replace", "ended"}
    BY DEF Shaped, Working, IsWhole
  <2>4. \A b \in Commands : command'[b].at \in {"new", "ended"} \/ Working(command'[b])
    BY <2>1, <2>3
  <2>5. \A b \in Commands : b \in dir'.temps => command'[b].at \in {"replace", "ended"}
    BY <2>1, <2>3
  <2>6. single' \in BOOLEAN /\ cut' \in BOOLEAN /\ DOMAIN command' = Commands
    BY DEF Shaped, Moves, DirShape, SyntheticInv
  <2>7. dir' = [files |-> dir'.files, temps |-> dir'.temps, manifest |-> dir'.manifest,
                sum |-> dir'.sum, progress |-> dir'.progress]
    BY DEF Shaped
  <2>. QED  BY <2>2, <2>4, <2>5, <2>6, <2>7 DEF DirShape, Working, IsWhole
<1>4. ASSUME NEW b \in Commands PROVE Filled(b)'
  <2>1. CASE b = c
    BY <2>1
  <2>2. CASE b # c
    BY <1>1, <2>2, OthersStayFilled DEF SyntheticInv
  <2>. QED  BY <2>1, <2>2
<1>5. Active' = {b \in Commands : active(command'[b])}
  BY DEF Active, Commands
<1>6. \A b \in Commands : b # c /\ active(command'[b]) => b \in Active /\ command'[b] = command[b]
  BY DEF Active, Moves
<1>7. Listed'
  <2>1. \A b \in Active' : command'[b].kind = "run" /\ ~Filling(command'[b]) => Finished'
    <3>. SUFFICES ASSUME NEW b \in Active', command'[b].kind = "run", ~Filling(command'[b])
                  PROVE  Finished'
      OBVIOUS
    <3>1. CASE b = c
      BY <1>5, <3>1
    <3>2. CASE b # c
      BY <1>2, <1>5, <1>6, <3>2 DEF SyntheticInv, Listed
    <3>. QED  BY <3>1, <3>2
  <2>2. \A b \in Active' : command'[b].kind = "replot" /\ command'[b].update => Finished'
    <3>. SUFFICES ASSUME NEW b \in Active', command'[b].kind = "replot", command'[b].update
                  PROVE  Finished'
      OBVIOUS
    <3>1. CASE b = c
      BY <1>2, <1>5, <3>1
    <3>2. CASE b # c
      BY <1>2, <1>5, <1>6, <3>2 DEF SyntheticInv, Listed
    <3>. QED  BY <3>1, <3>2
  <2>. QED  BY <1>2, <2>1, <2>2 DEF Listed, Filling, Absent
<1>8. AloneInDir'
  <2>. SUFFICES ASSUME single PROVE (/\ \A b, d \in Active : b = d
                                     /\ \A d \in Active : d = c
                                     /\ AloneHere(c))'
    BY DEF AloneInDir, AloneHere
  <2>1. \A b \in Active : b = c
    BY DEF SyntheticInv, AloneInDir
  <2>2. \A d \in Active' : d = c
    BY <1>5, <1>6, <2>1
  <2>. QED  BY <2>2
<1>. QED  BY <1>3, <1>4, <1>7, <1>8 DEF SyntheticInv, Commands

\* What Enter and End make of an entry.
LEMMA EnterFacts ==
  ASSUME DirShape, NEW c \in Commands, Working(command[c]), NEW x, Enter(c, x)
  PROVE  /\ Moves(c)
         /\ command'[c] = [at |-> x, kind |-> command[c].kind, step |-> command[c].step,
                           by |-> command[c].by, knows |-> command[c].knows,
                           plot |-> command[c].plot, put |-> command[c].put,
                           update |-> command[c].update]
<1>1. command' = [command EXCEPT ![c] = [command[c] EXCEPT !.at = x]] /\ DOMAIN command = Commands
  BY DEF Enter, DirShape
<1>2. Moves(c) /\ command'[c] = [command[c] EXCEPT !.at = x]
  BY <1>1 DEF Moves
<1>. DEFINE w == command[c]
<1>3. w = [at |-> w.at, kind |-> w.kind, step |-> w.step, by |-> w.by, knows |-> w.knows,
           plot |-> w.plot, put |-> w.put, update |-> w.update]
  BY DEF Working
<1>. HIDE DEF w
<1>4. [w EXCEPT !.at = x] = [at |-> x, kind |-> w.kind, step |-> w.step, by |-> w.by, knows |-> w.knows,
                             plot |-> w.plot, put |-> w.put, update |-> w.update]
  BY <1>3
<1>. QED  BY <1>2, <1>4 DEF w

LEMMA EndFacts ==
  ASSUME DirShape, NEW c \in Commands, End(c)
  PROVE  Moves(c) /\ command'[c] = [at |-> "ended"]
  BY DEF End, DirShape, Moves

\* A command that has ended owes nothing of its own.
LEMMA EndedFacts ==
  ASSUME NEW c \in Commands, command'[c] = [at |-> "ended"]
  PROVE  /\ command'[c].at = "ended" /\ ~Filling(command'[c])
         /\ Filled(c)' /\ c \notin Active'
<1>1. command'[c].at = "ended"
  OBVIOUS
<1>2. ~Filling(command'[c])
  BY <1>1 DEF Filling
<1>3. ~Filling(command[c])'
  BY <1>2 DEF Filling
<1>. QED  BY <1>1, <1>2, <1>3 DEF Filled, Active

LEMMA ActiveWorks ==
  ASSUME SyntheticInv, NEW c \in Active
  PROVE  /\ DirShape /\ c \in Commands /\ Working(command[c]) /\ Filled(c)
         /\ single => /\ RunAlone(c) /\ ReplotAlone(c)
                      /\ command[c].at \in {"sum", "finish"} => dir.manifest = InventoryOf(dir)
                      /\ dir.manifest.is = "whole" =>
                           OfOneRun(dir.manifest.files) /\ OneRenderer(dir.manifest.files)
  BY DEF SyntheticInv, Active, DirShape, AloneInDir

LEMMA FirstKeeps == ASSUME SyntheticInv, NEW c \in Commands, FirstProgress(c) PROVE SyntheticInv'
<1>1. c \in Active /\ command[c].at = "first"
  BY DEF FirstProgress, Active
<1>2. DirShape /\ Working(command[c]) /\ (single => RunAlone(c))
  BY <1>1, ActiveWorks
<1>3. dir' = [files |-> dir.files, temps |-> dir.temps, manifest |-> dir.manifest,
              sum |-> dir.sum, progress |-> "running"]
  BY <1>2 DEF FirstProgress, DirShape
<1>4. /\ dir'.files = dir.files /\ dir'.temps = dir.temps /\ dir'.manifest = dir.manifest
      /\ dir'.sum = dir.sum /\ dir'.progress = "running"
  BY <1>3
<1>5. single' = single /\ cut' = cut /\ Enter(c, "stage")
  BY DEF FirstProgress
<1>. DEFINE w == command[c]
<1>6. /\ w.at = "first" /\ w.kind = "run" /\ w.step = 1 /\ w.put = 0 /\ Filling(w)
      /\ "test" \notin w.knows
  BY <1>1, <1>2 DEF Working, Filling
<1>7. Moves(c) /\ command'[c] = [at |-> "stage", kind |-> w.kind, step |-> w.step, by |-> w.by,
                                 knows |-> w.knows, plot |-> w.plot, put |-> w.put, update |-> w.update]
  BY <1>1, <1>2, <1>5, EnterFacts
<1>. HIDE DEF w
<1>9. /\ command'[c].at = "stage" /\ command'[c].kind = "run" /\ command'[c].step = 1
      /\ command'[c].put = 0 /\ "test" \notin command'[c].knows
  BY <1>6, <1>7
<1>10. Working(command'[c])
  BY <1>7, <1>9 DEF Working
<1>11. Shaped(c)'
  BY <1>1, <1>2, <1>3, <1>4, <1>5, <1>10 DEF Shaped, DirShape, Working, IsWhole
<1>12. Filled(c)'
  BY <1>9 DEF Filled
<1>13. Careful(c)
  BY <1>4, <1>6, <1>9 DEF Careful, w
<1>14. single => AloneHere(c)'
  <2>. SUFFICES ASSUME single PROVE AloneHere(c)'
    OBVIOUS
  <2>1. DOMAIN dir'.files = {} /\ dir'.manifest = Absent
    BY <1>1, <1>2, <1>4, <1>6 DEF RunAlone, w
  <2>2. RunAlone(c)' /\ ReplotAlone(c)'
    BY <1>9, <2>1 DEF RunAlone, ReplotAlone, Absent
  <2>3. dir'.manifest.is # "whole"
    BY <2>1 DEF Absent
  <2>4. Complete'
    BY <1>4 DEF Complete
  <2>. QED  BY <1>9, <2>2, <2>3, <2>4 DEF AloneHere
<1>15. dir'.manifest # Absent => Finished
  BY <1>4 DEF SyntheticInv, Listed
<1>. QED  BY <1>1, <1>4, <1>5, <1>7, <1>9, <1>11, <1>12, <1>13, <1>14, <1>15, CommandKeeps DEF Filling

-----------------------------------------------------------------------------
(* A stage is done *)

\* A command as a record, without what is known of its fields.
IsCommand(w) ==
  w = [at |-> w.at, kind |-> w.kind, step |-> w.step, by |-> w.by, knows |-> w.knows,
       plot |-> w.plot, put |-> w.put, update |-> w.update]

LEMMA AdvanceFacts ==
  ASSUME NEW w, IsCommand(w), w.step \in 1..12
  PROVE  /\ IsCommand(Advance(w))
         /\ w.step = 12 => Advance(w).at = "inventory" /\ Advance(w).step = 12
         /\ w.step # 12 => Advance(w).at = "stage" /\ Advance(w).step = w.step + 1
         /\ Advance(w).kind = w.kind /\ Advance(w).by = w.by /\ Advance(w).knows = w.knows
         /\ Advance(w).plot = w.plot /\ Advance(w).put = w.put /\ Advance(w).update = w.update
<1>1. CASE w.step = 12
  <2>1. Advance(w) = [w EXCEPT !.at = "inventory"]
    BY <1>1, ProgramTable DEF Advance
  <2>2. [w EXCEPT !.at = "inventory"] =
        [at |-> "inventory", kind |-> w.kind, step |-> w.step, by |-> w.by, knows |-> w.knows,
         plot |-> w.plot, put |-> w.put, update |-> w.update]
    BY DEF IsCommand
  <2>. QED  BY <1>1, <2>1, <2>2 DEF IsCommand
<1>2. CASE w.step # 12
  <2>. DEFINE next == w.step + 1
  <2>1. Advance(w) = [w EXCEPT !.step = next, !.at = "stage"]
    BY <1>2, ProgramTable DEF Advance
  <2>. HIDE DEF next
  <2>2. [w EXCEPT !.step = next, !.at = "stage"] =
        [at |-> "stage", kind |-> w.kind, step |-> next, by |-> w.by, knows |-> w.knows,
         plot |-> w.plot, put |-> w.put, update |-> w.update]
    <3>. DEFINE v == [at |-> w.at, kind |-> w.kind, step |-> next, by |-> w.by, knows |-> w.knows,
                      plot |-> w.plot, put |-> w.put, update |-> w.update]
    <3>1. [w EXCEPT !.step = next] = v
      BY DEF IsCommand
    <3>2. [w EXCEPT !.step = next, !.at = "stage"] = [[w EXCEPT !.step = next] EXCEPT !.at = "stage"]
      OBVIOUS
    <3>3. [v EXCEPT !.at = "stage"] =
          [at |-> "stage", kind |-> w.kind, step |-> next, by |-> w.by, knows |-> w.knows,
           plot |-> w.plot, put |-> w.put, update |-> w.update]
      OBVIOUS
    <3>. QED  BY <3>1, <3>2, <3>3
  <2>. QED  BY <1>2, <2>1, <2>2 DEF IsCommand, next
<1>. QED  BY <1>1, <1>2

\* The entry of c is replaced.
LEMMA ReplacedFacts ==
  ASSUME DirShape, NEW c \in Commands, NEW v, command' = [command EXCEPT ![c] = v]
  PROVE  Moves(c) /\ command'[c] = v
  BY DEF DirShape, Moves

LEMMA LookKeeps == ASSUME SyntheticInv, NEW c \in Commands, Look(c) PROVE SyntheticInv'
<1>. DEFINE w == command[c]
<1>1. /\ c \in Active /\ w.at = "stage" /\ w.step \in 1..12
      /\ Program[w.step].how = "look"
  <2>1. c \in Active /\ w.at = "stage" /\ Program[w.step].how = "look"
    BY DEF Look, AtStep, Active
  <2>. QED  BY <2>1, ActiveWorks DEF Working
<1>2. DirShape /\ Working(w) /\ Filled(c) /\ (single => RunAlone(c))
  BY <1>1, ActiveWorks
<1>3. w.step = 2
  BY <1>1, ProgramFacts
<1>4. /\ w.kind = "run" /\ Filling(w) /\ w.put = 0 /\ "test" \notin w.knows
      /\ IsCommand(w)
  BY <1>1, <1>2, <1>3 DEF Working, Filling, IsCommand
<1>5. dir' = [files |-> dir.files, temps |-> dir.temps, manifest |-> dir.manifest,
              sum |-> dir.sum, progress |-> "running"]
  BY <1>2 DEF Look, DirShape
<1>6. /\ dir'.files = dir.files /\ dir'.temps = dir.temps /\ dir'.manifest = dir.manifest
      /\ dir'.sum = dir.sum /\ dir'.progress = "running"
  BY <1>5
<1>7. single' = single /\ cut' = cut /\ command' = [command EXCEPT ![c] = Advance(w)]
  BY DEF Look
<1>8. Moves(c) /\ command'[c] = Advance(w)
  BY <1>2, <1>7, ReplacedFacts
<1>9. /\ command'[c].at = "stage" /\ command'[c].kind = "run" /\ command'[c].step = 3
      /\ command'[c].put = 0 /\ "test" \notin command'[c].knows /\ IsCommand(command'[c])
  <2>. HIDE DEF w
  <2>. QED  BY <1>1, <1>3, <1>4, <1>8, AdvanceFacts
<1>10. Working(command'[c])
  BY <1>9 DEF Working, IsCommand
<1>11. Shaped(c)'
  BY <1>1, <1>2, <1>5, <1>6, <1>7, <1>10 DEF Shaped, DirShape, Working, IsWhole
<1>12. Filled(c)'
  <2>1. \A i \in 1..12 : i < 3 /\ Fills(i) => i < 2
    BY ProgramFacts
  <2>. QED  BY <1>3, <1>4, <1>6, <1>9, <1>2, <2>1 DEF Filled
<1>13. Careful(c)
  BY <1>4, <1>6, <1>9 DEF Careful
<1>14. single => AloneHere(c)'
  <2>. SUFFICES ASSUME single PROVE AloneHere(c)'
    OBVIOUS
  <2>1. /\ dir'.manifest = Absent
        /\ \A f \in DOMAIN dir'.files : IsWhole(dir'.files[f]) /\ dir'.files[f].from = {c}
    BY <1>2, <1>4, <1>6 DEF RunAlone
  <2>2. RunAlone(c)' /\ ReplotAlone(c)'
    BY <1>9, <2>1 DEF RunAlone, ReplotAlone, Absent, IsWhole
  <2>3. dir'.manifest.is # "whole"
    BY <2>1 DEF Absent
  <2>4. Complete'
    BY <1>6 DEF Complete
  <2>. QED  BY <1>9, <2>2, <2>3, <2>4 DEF AloneHere
<1>15. dir'.manifest # Absent => Finished
  BY <1>6 DEF SyntheticInv, Listed
<1>. QED  BY <1>1, <1>6, <1>7, <1>8, <1>9, <1>11, <1>12, <1>13, <1>14, <1>15, CommandKeeps DEF Filling

\* A run that writes: at which stage, and what the command knows then.
LEMMA WriteFacts ==
  ASSUME SyntheticInv, NEW c \in Commands, Write(c)
  PROVE  /\ c \in Active /\ Filling(command[c]) /\ command[c].at = "stage"
         /\ command[c].step \in 1..12 /\ Fills(command[c].step)
         /\ command[c].step \in {4, 11} =>
              Program[command[c].step].how # "write" /\ Program[command[c].step].file \notin DOMAIN dir.files
         /\ "test" \notin Knows(c)
         /\ command[c].step = 11 => "test" \notin Result(c).learned
         /\ IsWhole(Result(c)) /\ Result(c).from = {c}
<1>. DEFINE w == command[c]
<1>1. /\ c \in Active /\ w.at = "stage" /\ Fills(w.step)
      /\ Program[w.step].how = "create" => Program[w.step].file \notin DOMAIN dir.files
  BY DEF Write, MayWrite, AtStep, Active, Fills
<1>2. Working(w)
  BY <1>1, ActiveWorks
<1>3. w.step \in 1..12 /\ w.step # 10 /\ w.kind = "run" /\ "test" \notin w.knows
  BY <1>1, <1>2, ProgramFacts DEF Working
<1>4. "test" \notin Knows(c)
  BY <1>3, ProgramTable DEF Knows
<1>5. /\ Result(c).learned = Knows(c) \cup Program[w.step].shows
      /\ IsWhole(Result(c)) /\ Result(c).from = {c}
  BY DEF Result, Content, IsWhole
<1>6. w.step \in {4, 11} => Program[w.step].how = "create"
  BY ProgramTable
<1>7. w.step = 11 => "test" \notin Result(c).learned
  BY <1>4, <1>5, ProgramTable
<1>. QED  BY <1>1, <1>3, <1>4, <1>5, <1>6, <1>7 DEF Filling

LEMMA WriteKeeps == ASSUME SyntheticInv, NEW c \in Commands, Write(c) PROVE SyntheticInv'
<1>. DEFINE w == command[c]
            f == Program[w.step].file
<1>1. /\ c \in Active /\ Filling(w) /\ w.at = "stage" /\ w.step \in 1..12 /\ Fills(w.step)
      /\ w.step \in {4, 11} => Program[w.step].how # "write" /\ f \notin DOMAIN dir.files
      /\ "test" \notin Knows(c)
      /\ w.step = 11 => "test" \notin Result(c).learned
      /\ IsWhole(Result(c)) /\ Result(c).from = {c}
  BY WriteFacts
<1>2. DirShape /\ Working(w) /\ Filled(c) /\ (single => RunAlone(c))
  BY <1>1, ActiveWorks
<1>3. dir' = [files |-> With(dir.files, f, Result(c)), temps |-> dir.temps, manifest |-> dir.manifest,
              sum |-> dir.sum, progress |-> "running"]
  BY <1>2 DEF Write, DirShape
<1>4. /\ dir'.files = With(dir.files, f, Result(c)) /\ dir'.temps = dir.temps
      /\ dir'.manifest = dir.manifest /\ dir'.sum = dir.sum /\ dir'.progress = "running"
  BY <1>3
<1>5. /\ DOMAIN dir'.files = DOMAIN dir.files \cup {f} /\ dir'.files[f] = Result(c)
      /\ \A g \in DOMAIN dir.files : g # f => dir'.files[g] = dir.files[g]
  <2>. HIDE DEF f
  <2>. QED  BY <1>4 DEF With
<1>6. w.kind = "run" /\ w.put = 0 /\ IsCommand(w)
  BY <1>1, <1>2 DEF Working, Filling, IsCommand
<1>. DEFINE v == [w EXCEPT !.knows = Knows(c)]
<1>7. single' = single /\ cut' = cut /\ command' = [command EXCEPT ![c] = Advance(v)]
  BY DEF Write
<1>8. Moves(c) /\ command'[c] = Advance(v)
  BY <1>2, <1>7, ReplacedFacts
<1>9. /\ IsCommand(v) /\ v.at = w.at /\ v.kind = w.kind /\ v.step = w.step /\ v.put = w.put
      /\ v.knows = Knows(c)
  <2>1. v = [at |-> w.at, kind |-> w.kind, step |-> w.step, by |-> w.by, knows |-> Knows(c),
             plot |-> w.plot, put |-> w.put, update |-> w.update]
    <3>. HIDE DEF w
    <3>. QED  BY <1>6 DEF IsCommand
  <2>. HIDE DEF v
  <2>. QED  BY <2>1 DEF IsCommand
<1>10. /\ IsCommand(command'[c]) /\ command'[c].kind = "run" /\ command'[c].put = 0
       /\ command'[c].knows = Knows(c)
       /\ w.step = 12 => command'[c].at = "inventory" /\ command'[c].step = 12
       /\ w.step # 12 => command'[c].at = "stage" /\ command'[c].step = w.step + 1
  <2>. HIDE DEF v
  <2>. QED  BY <1>1, <1>6, <1>8, <1>9, AdvanceFacts
<1>. HIDE DEF v
<1>11. command'[c].step \in 1..12 /\ (Filling(command'[c]) => w.step \in 1..11 /\ command'[c].step = w.step + 1)
  BY <1>1, <1>10 DEF Filling
<1>12. Working(command'[c])
  BY <1>1, <1>10, <1>11 DEF Working, IsCommand
<1>13. Shaped(c)'
  BY <1>1, <1>2, <1>3, <1>4, <1>7, <1>12 DEF Shaped, DirShape, Working, IsWhole, Filling
<1>. HIDE DEF f
<1>14. \A i \in 4..12 : i < w.step /\ Fills(i) =>
         /\ Program[i].file \in DOMAIN dir.files /\ Program[i].file # f
         /\ dir'.files[Program[i].file] = dir.files[Program[i].file]
  <2>1. \A i \in 4..12 : i < w.step /\ Fills(i) => Program[i].file # f
    BY <1>1, ProgramFacts DEF f
  <2>2. \A i \in 4..12 : i < w.step /\ Fills(i) => Program[i].file \in DOMAIN dir.files
    BY <1>1, <1>2 DEF Filled
  <2>. QED  BY <1>5, <2>1, <2>2
<1>15. /\ \A i \in 1..12 : i < w.step + 1 /\ Fills(i) => Program[i].file \in DOMAIN dir'.files
       /\ \A i \in 4..12 : i < w.step + 1 /\ Fills(i) =>
            /\ IsWhole(dir'.files[Program[i].file])
            /\ dir'.files[Program[i].file].from = {c}
       /\ w.step > 10 => "test" \notin dir'.files["bundle"].learned
  <2>1. \A i \in 1..12 : i < w.step + 1 => i < w.step \/ i = w.step
    BY <1>1
  <2>2. \A i \in 1..12 : i < w.step + 1 /\ Fills(i) => Program[i].file \in DOMAIN dir'.files
    BY <1>1, <1>2, <1>5, <2>1 DEF Filled, f
  <2>3. ASSUME NEW i \in 4..12, i < w.step + 1, Fills(i)
        PROVE  IsWhole(dir'.files[Program[i].file]) /\ dir'.files[Program[i].file].from = {c}
    <3>1. CASE i = w.step
      BY <1>1, <1>5, <3>1 DEF f
    <3>2. CASE i < w.step
      <4>1. w.step > 4
        BY <1>1, <3>2
      <4>2. IsWhole(dir.files[Program[i].file]) /\ dir.files[Program[i].file].from = {c}
        BY <1>1, <1>2, <2>3, <3>2, <4>1 DEF Filled
      <4>. QED  BY <1>14, <2>3, <3>2, <4>2
    <3>. QED  BY <2>1, <2>3, <3>1, <3>2
  <2>4. w.step = 11 => "test" \notin dir'.files["bundle"].learned
    <3>. SUFFICES ASSUME w.step = 11 PROVE "test" \notin dir'.files["bundle"].learned
      OBVIOUS
    <3>1. f = "bundle"
      BY ProgramTable DEF f
    <3>. QED  BY <1>1, <1>5, <3>1
  <2>5. w.step > 11 => "test" \notin dir'.files["bundle"].learned
    <3>. SUFFICES ASSUME w.step > 11 PROVE "test" \notin dir'.files["bundle"].learned
      OBVIOUS
    <3>1. Fills(11) /\ Program[11].file = "bundle" /\ 11 \in 4..12
      BY ProgramTable DEF Fills
    <3>2. dir'.files["bundle"] = dir.files["bundle"]
      BY <1>14, <3>1
    <3>3. "test" \notin dir.files["bundle"].learned
      BY <1>1, <1>2 DEF Filled
    <3>. QED  BY <3>2, <3>3
  <2>6. w.step > 10 => w.step = 11 \/ w.step > 11
    BY <1>1
  <2>. QED  BY <2>2, <2>3, <2>4, <2>5, <2>6
<1>16. Filled(c)'
  <2>. SUFFICES ASSUME Filling(command'[c]) PROVE Filled(c)'
    BY DEF Filled, Filling
  <2>1. w.step \in 1..11 /\ command'[c].step = w.step + 1
    BY <1>11
  <2>2. command'[c].step > 11 => w.step > 10
    BY <2>1
  <2>. QED  BY <1>15, <2>1, <2>2 DEF Filled, IsWhole
<1>17. Careful(c)
  <2>1. ASSUME ~PastMarker(c), NEW g \in Own, g \in DOMAIN dir.files PROVE dir'.files[g] = dir.files[g]
    <3>1. w.step \in 1..4
      BY <1>1, <2>1 DEF PastMarker
    <3>2. w.step = 4 => f \notin DOMAIN dir.files
      BY <1>1
    <3>3. w.step < 4 => f \notin Own
      BY <1>1, ProgramFacts, WrittenFacts DEF f, OwnFiles
    <3>. QED  BY <1>5, <2>1, <3>1, <3>2, <3>3
  <2>2. ASSUME Filling(command'[c]), command'[c].step > 4, ~PastMarker(c)
        PROVE  "marker" \notin DOMAIN dir.files
    <3>1. w.step = 4
      BY <1>1, <1>11, <2>2 DEF PastMarker
    <3>. QED  BY <1>1, <3>1, ProgramTable DEF f
  <2>. QED  BY <1>1, <1>5, <1>11, <2>1, <2>2 DEF Careful
<1>18. ~Filling(command'[c]) => Finished'
  <2>. SUFFICES ASSUME ~Filling(command'[c]) PROVE Finished'
    OBVIOUS
  <2>1. w.step = 12
    BY <1>10 DEF Filling
  <2>2. \A g \in Own : /\ g \in DOMAIN dir'.files /\ IsWhole(dir'.files[g])
                       /\ dir'.files[g].from = {c}
    <3>1. ASSUME NEW g \in Own
          PROVE  /\ g \in DOMAIN dir'.files /\ IsWhole(dir'.files[g])
                 /\ dir'.files[g].from = {c}
      <4>1. PICK i \in 4..12 : Fills(i) /\ Program[i].file = g
        BY ProgramFacts, WrittenFacts
      <4>2. i \in 1..12 /\ i < w.step + 1
        BY <2>1, <4>1
      <4>. QED  BY <1>15, <4>1, <4>2
    <3>. QED  BY <3>1
  <2>3. "config" \in DOMAIN dir'.files /\ "tables" \in DOMAIN dir'.files
    <3>1. Fills(1) /\ Fills(3) /\ Program[1].file = "config" /\ Program[3].file = "tables"
      BY ProgramTable DEF Fills
    <3>. QED  BY <1>15, <2>1, <3>1
  <2>4. Written \subseteq DOMAIN dir'.files
    BY <2>2, <2>3, WrittenFacts
  <2>5. ASSUME NEW b \in Commands, Filling(command'[b]) PROVE command'[b].step <= 4
    <3>1. b # c
      BY <2>5
    <3>2. command'[b] = command[b] /\ Filled(b)
      BY <1>8, <3>1 DEF Moves, SyntheticInv
    <3>3. command[b].step \in 1..12
      BY <1>2, <2>5, <3>2, FillingWorks DEF Working
    <3>4. PastMarker(c)
      BY <1>1, <2>1 DEF PastMarker
    <3>5. PastMarker(b) => FALSE
      BY <1>2, <3>1, <3>2, <3>4, MarkerIsOwn
    <3>. QED  BY <2>5, <3>2, <3>3, <3>5 DEF PastMarker
  <2>6. "marker" \in Own /\ "bundle" \in Own
    BY WrittenFacts
  <2>7. "test" \notin dir'.files["bundle"].learned
    BY <1>15, <2>1
  <2>8. Commands' = Commands /\ Own' = Own /\ Written' = Written
    BY DEF Commands, Own, Written
  <2>. QED  BY <2>2, <2>4, <2>5, <2>6, <2>7, <2>8 DEF Finished, Filling, IsWhole
<1>19. single => AloneHere(c)'
  <2>. SUFFICES ASSUME single PROVE AloneHere(c)'
    OBVIOUS
  <2>1. /\ dir'.manifest = Absent
        /\ \A g \in DOMAIN dir'.files : IsWhole(dir'.files[g]) /\ dir'.files[g].from = {c}
    BY <1>1, <1>2, <1>4, <1>5, <1>6 DEF RunAlone
  <2>2. w.step >= 10 => OneRenderer(dir'.files)
    <3>1. w.step # 10 /\ f \in Written
      BY <1>1, ProgramFacts, WrittenFacts DEF f
    <3>2. f # MetricPlots /\ f # Timelines
      BY <3>1, WrittenFacts
    <3>3. w.step > 10 => OneRenderer(dir.files)
      BY <1>1, <1>2, <1>6 DEF RunAlone
    <3>. QED  BY <1>1, <1>5, <3>1, <3>2, <3>3 DEF OneRenderer
  <2>3. RunAlone(c)'
    <3>1. command'[c].step > 10 => OneRenderer(dir'.files)
      BY <1>1, <1>10, <2>2
    <3>2. command'[c].at = "inventory" => OfOneRun(dir'.files) /\ OneRenderer(dir'.files)
      <4>. SUFFICES ASSUME command'[c].at = "inventory" PROVE OfOneRun(dir'.files) /\ OneRenderer(dir'.files)
        OBVIOUS
      <4>1. ~Filling(command'[c])
        BY DEF Filling
      <4>2. "marker" \in DOMAIN dir'.files
        BY <1>18, <4>1, WrittenFacts DEF Finished, Own, Written
      <4>3. w.step = 12
        BY <1>10
      <4>4. OfOneRun(dir'.files)
        BY <2>1, <4>2 DEF OfOneRun
      <4>. QED  BY <2>2, <4>3, <4>4
    <3>3. command'[c].at \in {"stage", "inventory"}
      BY <1>10
    <3>4. Filling(command'[c]) =>
            /\ dir'.manifest = Absent
            /\ \A g \in DOMAIN dir'.files : IsWhole(dir'.files[g]) /\ dir'.files[g].from = {c}
            /\ command'[c].step > 10 => OneRenderer(dir'.files)
      BY <2>1, <3>1
    <3>. QED  BY <3>2, <3>3, <3>4
           DEF RunAlone, Absent, IsWhole, Filling, OfOneRun, OneRenderer, MetricPlots, Timelines
  <2>4. ReplotAlone(c)'
    BY <1>10 DEF ReplotAlone
  <2>5. dir'.manifest.is # "whole"
    BY <2>1 DEF Absent
  <2>6. Complete'
    BY <1>4 DEF Complete
  <2>. QED  BY <1>10, <2>3, <2>4, <2>5, <2>6 DEF AloneHere
<1>20. dir'.manifest # Absent => Finished
  BY <1>4 DEF SyntheticInv, Listed
<1>. QED  BY <1>1, <1>4, <1>7, <1>8, <1>10, <1>13, <1>16, <1>17, <1>18, <1>19, <1>20, CommandKeeps

\* A command that starts writes nothing: a run at its first stage, a replot at the plots.
LEMMA StartKeeps ==
  ASSUME SyntheticInv, NEW c \in Commands, NEW kind, NEW at, NEW step, NEW by,
         StartCommand(c, kind, at, step, by),
         \/ kind = "run" /\ at = "first" /\ step = 1 /\ IsEmpty(dir)
         \/ kind = "replot" /\ at = "stage" /\ step = 10
  PROVE  SyntheticInv'
<1>1. /\ command[c].at = "new" /\ dir' = dir /\ cut' = cut
      /\ single' = (single /\ Active = {})
      /\ DirShape /\ Filled(c)
  BY DEF StartCommand, SyntheticInv
<1>. DEFINE plot == Content({}, {}, {})
            v == [at |-> at, kind |-> kind, step |-> step, by |-> by, knows |-> {},
                  plot |-> plot, put |-> 0, update |-> FALSE]
<1>2. Moves(c) /\ command'[c] = v
  BY <1>1, ReplacedFacts DEF StartCommand
<1>. HIDE DEF plot
<1>3. /\ v.at = at /\ v.kind = kind /\ v.step = step /\ v.by = by /\ v.knows = {}
      /\ v.plot = plot /\ v.put = 0 /\ v.update = FALSE
  OBVIOUS
<1>4. /\ v = [at |-> v.at, kind |-> v.kind, step |-> v.step, by |-> v.by, knows |-> v.knows,
              plot |-> v.plot, put |-> v.put, update |-> v.update]
      /\ v.at \in {"first", "stage"} /\ v.kind \in {"run", "replot"} /\ v.step \in {1, 10}
      /\ v.kind = "run" => v.at = "first" /\ v.step = 1
      /\ v.kind = "replot" => v.at = "stage" /\ v.step = 10
      /\ v.put = 0 /\ v.knows = {} /\ v.update = FALSE
      /\ v.kind = "run" => IsEmpty(dir)
  BY <1>3
<1>. HIDE DEF v
<1>5. Working(v)
  BY <1>4 DEF Working
<1>6. c \notin dir.temps
  BY <1>1 DEF DirShape
<1>7. Filled(c)'
  <2>1. \A i \in 1..12 : ~(i < 1)
    OBVIOUS
  <2>. QED  BY <1>2, <1>4, <2>1 DEF Filled, Filling
<1>8. ASSUME NEW b \in Commands PROVE Filled(b)'
  <2>1. CASE b = c
    BY <1>7, <2>1
  <2>2. CASE b # c
    BY <1>1, <1>2, <2>2 DEF SyntheticInv, Filled, Moves, IsWhole
  <2>. QED  BY <2>1, <2>2
<1>9. DirShape'
  <2>1. \A b \in Commands : b # c => /\ command'[b].at \in {"new", "ended"} \/ Working(command'[b])
                                     /\ b \in dir.temps => command'[b].at \in {"replace", "ended"}
    BY <1>1, <1>2 DEF DirShape, Moves
  <2>2. \A b \in Commands : /\ command'[b].at \in {"new", "ended"} \/ Working(command'[b])
                            /\ b \in dir.temps => command'[b].at \in {"replace", "ended"}
    BY <1>2, <1>5, <1>6, <2>1
  <2>3. DOMAIN command' = Commands /\ Commands' = Commands
    BY <1>2 DEF Moves, Commands
  <2>4. single' \in BOOLEAN /\ cut' \in BOOLEAN
    BY <1>1 DEF DirShape
  <2>5. dir' = [files |-> dir'.files, temps |-> dir'.temps, manifest |-> dir'.manifest,
                sum |-> dir'.sum, progress |-> dir'.progress]
    BY <1>1 DEF DirShape
  <2>. QED  BY <1>1, <2>2, <2>3, <2>4, <2>5 DEF DirShape, Working, IsWhole
<1>10. Finished => Finished'
  <2>1. \A b \in Commands : b # c => command'[b] = command[b]
    BY <1>2 DEF Moves
  <2>2. Filling(command'[c]) => command'[c].step <= 4
    BY <1>2, <1>4 DEF Filling
  <2>. QED  BY <1>1, <2>1, <2>2 DEF Finished, Commands, Own, Written, IsWhole, Filling
<1>11. \A b \in Commands : b # c /\ command'[b].at \notin {"new", "ended"} =>
         b \in Active /\ command'[b] = command[b]
  BY <1>2 DEF Active, Moves
<1>12. Active' = {b \in Commands : command'[b].at \notin {"new", "ended"}}
  BY DEF Active, Commands
<1>13. Listed'
  <2>1. \A b \in Active' : command'[b].kind = "run" /\ ~Filling(command'[b]) => Finished'
    <3>. SUFFICES ASSUME NEW b \in Active', command'[b].kind = "run", ~Filling(command'[b])
                  PROVE  Finished'
      OBVIOUS
    <3>1. b # c
      BY <1>2, <1>4 DEF Filling
    <3>. QED  BY <1>10, <1>11, <1>12, <3>1 DEF SyntheticInv, Listed
  <2>2. \A b \in Active' : command'[b].kind = "replot" /\ command'[b].update => Finished'
    <3>. SUFFICES ASSUME NEW b \in Active', command'[b].kind = "replot", command'[b].update
                  PROVE  Finished'
      OBVIOUS
    <3>1. b # c
      BY <1>2, <1>4
    <3>. QED  BY <1>10, <1>11, <1>12, <3>1 DEF SyntheticInv, Listed
  <2>3. dir'.manifest # Absent => Finished'
    BY <1>1, <1>10 DEF SyntheticInv, Listed
  <2>. QED  BY <2>1, <2>2, <2>3 DEF Listed, Filling, Absent
<1>14. CASE ~single'
  BY <1>8, <1>9, <1>13, <1>14 DEF SyntheticInv, Commands, AloneInDir
<1>15. CASE single'
  <2>0. single /\ Active = {}
    BY <1>1, <1>15
  <2>1. \A d \in Active' : d = c
    BY <1>11, <1>12, <2>0
  <2>2. command'[c].at = "first" => dir'.manifest = Absent /\ DOMAIN dir'.files = {}
    BY <1>1, <1>2, <1>4 DEF IsEmpty
  <2>3. RunAlone(c)'
    BY <1>2, <1>4, <2>2 DEF RunAlone, Absent, Filling, IsWhole
  <2>4. ReplotAlone(c)'
    BY <1>2, <1>4 DEF ReplotAlone
  <2>5. dir'.manifest.is = "whole" => OfOneRun(dir'.manifest.files) /\ OneRenderer(dir'.manifest.files)
    BY <1>1, <2>0 DEF SyntheticInv, AloneInDir
  <2>6. Complete'
    <3>. SUFFICES ASSUME ~cut', dir'.progress = "complete"
                  PROVE  /\ Active' # {}
                         /\ command'[c].kind = "replot" /\ Verifies(dir')
                         /\ command'[c].at # "replace"
      BY <1>1, <1>2, <1>4, <2>1 DEF Complete
    <3>1. Verifies(dir)
      BY <1>1, <2>0 DEF SyntheticInv, AloneInDir, Complete
    <3>2. v.kind = "replot"
      BY <1>1, <1>4 DEF IsEmpty
    <3>3. c \in Active'
      BY <1>2, <1>4, <1>12
    <3>. QED  BY <1>1, <1>2, <1>4, <3>1, <3>2, <3>3
  <2>7. command'[c].at \notin {"sum", "finish"}
    BY <1>2, <1>4
  <2>8. AloneInDir'
    <3>1. \A b, d \in Active' : b = d
      BY <2>1
    <3>2. ASSUME NEW d \in Active' PROVE RunAlone(d)' /\ ReplotAlone(d)'
      BY <2>1, <2>3, <2>4
    <3>3. \A d \in Active' : command'[d].at \notin {"sum", "finish"}
      BY <2>1, <2>7
    <3>. QED  BY <2>5, <2>6, <3>1, <3>2, <3>3 DEF AloneInDir, OfOneRun, OneRenderer, IsWhole,
                 MetricPlots, Timelines
  <2>. QED  BY <1>8, <1>9, <1>13, <2>8 DEF SyntheticInv, Commands
<1>. QED  BY <1>14, <1>15

LEMMA StartRunKeeps == ASSUME SyntheticInv, NEW c \in Commands, StartRun(c) PROVE SyntheticInv'
<1>1. IsEmpty(dir)
  BY DEF StartRun
<1>2. PICK by \in Renderers : StartCommand(c, "run", "first", 1, by)
  BY DEF StartRun
<1>. QED  BY <1>1, <1>2, StartKeeps

LEMMA StartReplotKeeps == ASSUME SyntheticInv, NEW c \in Commands, StartReplot(c) PROVE SyntheticInv'
<1>1. PICK by \in Renderers : StartCommand(c, "replot", "stage", 10, by)
  BY WrittenFacts DEF StartReplot
<1>. QED  BY <1>1, StartKeeps

LEMMA RenderKeeps == ASSUME SyntheticInv, NEW c \in Commands, Render(c) PROVE SyntheticInv'
<1>. DEFINE w == command[c]
            update == dir.manifest # Absent
            plot == Content(UNION {dir.files[f].from : f \in Sources}, {"test"}, {w.by})
            v == [w EXCEPT !.at = "replace", !.update = update, !.plot = plot]
<1>1. /\ c \in Active /\ w.at = "stage"
      /\ Program[w.step].how = "plots"
      /\ dir.manifest = Absent \/ Verifies(dir)
      /\ Sources \subseteq DOMAIN dir.files
  BY DEF Render, AtStep, Active
<1>2. /\ DirShape /\ Working(w) /\ Filled(c)
      /\ single => /\ RunAlone(c)
                   /\ dir.manifest.is = "whole" =>
                        OfOneRun(dir.manifest.files) /\ OneRenderer(dir.manifest.files)
  BY <1>1, ActiveWorks
<1>3. w.step = 10 /\ w.put = 0 /\ w.kind \in {"run", "replot"} /\ "test" \notin w.knows /\ IsCommand(w)
  BY <1>1, <1>2, ProgramFacts DEF Working, IsCommand
<1>4. c \notin dir.temps
  BY <1>1, <1>2 DEF DirShape
<1>5. dir' = [files |-> dir.files, temps |-> dir.temps \cup {c}, manifest |-> dir.manifest,
              sum |-> dir.sum, progress |-> dir.progress]
  BY <1>2 DEF Render, DirShape
<1>6. /\ dir'.files = dir.files /\ dir'.temps = dir.temps \cup {c} /\ dir'.manifest = dir.manifest
      /\ dir'.sum = dir.sum /\ dir'.progress = dir.progress
  BY <1>5
<1>7. /\ single' = single /\ cut' = cut
      /\ command' = [command EXCEPT ![c].at = "replace", ![c].update = update, ![c].plot = plot]
  BY DEF Render
<1>8. Moves(c) /\ command'[c] = [at |-> "replace", kind |-> w.kind, step |-> w.step, by |-> w.by,
                                 knows |-> w.knows, plot |-> plot, put |-> w.put, update |-> update]
  <2>. HIDE DEF update, plot
  <2>1. Moves(c) /\ command'[c] = [[[w EXCEPT !.at = "replace"] EXCEPT !.update = update] EXCEPT !.plot = plot]
    BY <1>2, <1>7 DEF DirShape, Moves
  <2>. HIDE DEF w
  <2>2. [w EXCEPT !.at = "replace"] =
        [at |-> "replace", kind |-> w.kind, step |-> w.step, by |-> w.by,
         knows |-> w.knows, plot |-> w.plot, put |-> w.put, update |-> w.update]
    BY <1>3 DEF IsCommand
  <2>3. [[at |-> "replace", kind |-> w.kind, step |-> w.step, by |-> w.by,
          knows |-> w.knows, plot |-> w.plot, put |-> w.put, update |-> w.update] EXCEPT !.update = update] =
        [at |-> "replace", kind |-> w.kind, step |-> w.step, by |-> w.by,
         knows |-> w.knows, plot |-> w.plot, put |-> w.put, update |-> update]
    OBVIOUS
  <2>4. [[at |-> "replace", kind |-> w.kind, step |-> w.step, by |-> w.by,
          knows |-> w.knows, plot |-> w.plot, put |-> w.put, update |-> update] EXCEPT !.plot = plot] =
        [at |-> "replace", kind |-> w.kind, step |-> w.step, by |-> w.by,
         knows |-> w.knows, plot |-> plot, put |-> w.put, update |-> update]
    OBVIOUS
  <2>. QED  BY <2>1, <2>2, <2>3, <2>4
<1>9. /\ IsWhole(plot)
      /\ \A g : (\A f \in Sources : dir.files[f].from = g) => plot.from = g
  <2>1. plot.from = UNION {dir.files[f].from : f \in Sources} /\ IsWhole(plot)
    BY DEF Content, IsWhole
  <2>2. "config" \in Sources
    BY DEF Sources
  <2>. HIDE DEF plot
  <2>. QED  BY <2>1, <2>2
<1>. HIDE DEF w, v, plot
<1>10. /\ command'[c].at = "replace" /\ command'[c].kind = w.kind /\ command'[c].step = 10
       /\ command'[c].put = 0 /\ command'[c].update = update /\ command'[c].knows = w.knows
       /\ command'[c].plot = plot /\ IsCommand(command'[c])
  BY <1>3, <1>8 DEF IsCommand
<1>11. Working(command'[c])
  BY <1>3, <1>9, <1>10 DEF Working, IsCommand
<1>12. Shaped(c)'
  BY <1>2, <1>5, <1>6, <1>7, <1>10, <1>11 DEF Shaped, DirShape, Working, IsWhole
<1>13. Filling(command'[c]) => Filling(w) /\ w.kind = "run"
  BY <1>1, <1>10 DEF Filling, w
<1>14. Filled(c)'
  BY <1>2, <1>3, <1>6, <1>10, <1>13 DEF Filled, w
<1>15. Careful(c)
  BY <1>3, <1>6, <1>10, <1>13 DEF Careful, PastMarker, w
<1>16. dir'.manifest # Absent => Finished
  BY <1>6 DEF SyntheticInv, Listed
<1>17. update => Finished
  BY DEF SyntheticInv, Listed
<1>18. single => AloneHere(c)'
  <2>. SUFFICES ASSUME single PROVE AloneHere(c)'
    OBVIOUS
  <2>1. ASSUME w.kind = "run" PROVE RunAlone(c)'
    <3>1. Filling(w)
      BY <1>1, <2>1 DEF Filling, w
    <3>2. /\ dir.manifest = Absent
          /\ \A f \in DOMAIN dir.files : IsWhole(dir.files[f]) /\ dir.files[f].from = {c}
      BY <1>2, <2>1, <3>1 DEF RunAlone, w
    <3>3. plot.from = {c}
      BY <1>1, <1>9, <3>2
    <3>. QED  BY <1>6, <1>10, <3>2, <3>3 DEF RunAlone, Absent, IsWhole
  <2>2. w.kind # "run" => RunAlone(c)'
    BY <1>10 DEF RunAlone
  <2>3. update => OfOneRun(dir.files) /\ Verifies(dir)
    <3>. SUFFICES ASSUME update PROVE OfOneRun(dir.files) /\ Verifies(dir)
      OBVIOUS
    <3>1. Verifies(dir)
      BY <1>1
    <3>2. dir.manifest.is = "whole" /\ dir.manifest.files = dir.files
      BY <3>1 DEF Verifies, InventoryOf
    <3>. QED  BY <1>2, <3>1, <3>2
  <2>4. ReplotAlone(c)'
    <3>. SUFFICES ASSUME update PROVE ReplotAlone(c)'
      BY <1>10 DEF ReplotAlone
    <3>1. plot.from = dir.files["marker"].from
      BY <1>1, <1>9, <2>3 DEF OfOneRun
    <3>. QED  BY <1>6, <1>10, <2>3, <3>1 DEF ReplotAlone, OfOneRun, IsWhole
  <2>5. dir'.manifest.is = "whole" => OfOneRun(dir'.manifest.files) /\ OneRenderer(dir'.manifest.files)
    BY <1>2, <1>6
  <2>6. Complete'
    <3>. SUFFICES ASSUME ~cut, dir.progress = "complete" PROVE Complete'
      BY <1>6, <1>7 DEF Complete
    <3>1. w.kind = "replot" /\ Verifies(dir) /\ \A b \in Active : b = c
      BY <1>1 DEF SyntheticInv, AloneInDir, Complete, w
    <3>2. update
      BY <3>1 DEF Verifies, Absent
    <3>3. (dir'.temps \ {c}) = dir.temps
      BY <1>4, <1>6
    <3>4. Verifies([dir' EXCEPT !.temps = @ \ {c}])
      <4>1. [dir' EXCEPT !.temps = @ \ {c}] = dir
        <5>1. [dir' EXCEPT !.temps = @ \ {c}] =
              [files |-> dir'.files, temps |-> dir'.temps \ {c}, manifest |-> dir'.manifest,
               sum |-> dir'.sum, progress |-> dir'.progress]
          BY <1>5
        <5>. QED  BY <1>2, <1>6, <3>3, <5>1 DEF DirShape
      <4>. QED  BY <3>1, <4>1
    <3>5. Active' = {b \in Commands : command'[b].at \notin {"new", "ended"}}
      BY DEF Active, Commands
    <3>6. c \in Active' /\ \A b \in Active' : b = c
      BY <1>8, <1>10, <3>1, <3>5 DEF Moves, Active
    <3>7. Verifies(Without(c))'
      BY <3>4 DEF Verifies, Without, InventoryOf
    <3>. QED  BY <1>10, <3>1, <3>2, <3>6, <3>7 DEF Complete
  <2>. QED  BY <1>10, <2>1, <2>2, <2>4, <2>5, <2>6 DEF AloneHere, OfOneRun, OneRenderer, IsWhole,
               MetricPlots, Timelines
<1>19. command'[c].kind = "run" => Filling(command'[c])
  BY <1>10 DEF Filling
<1>20. command'[c].update => Finished
  BY <1>10, <1>17
<1>. QED  BY <1>1, <1>6, <1>7, <1>8, <1>12, <1>14, <1>15, <1>16, <1>18, <1>19, <1>20, CommandKeeps

\* The plots go into the directory one by one: which file, and what becomes of the command.
LEMMA PutPlotFacts ==
  ASSUME SyntheticInv, NEW c \in Commands, Replace(c)
  PROVE  LET w == command[c] f == Plots[w.put + 1] v == command'[c] IN
         /\ c \in Active /\ Working(w) /\ w.at = "replace" /\ w.step = 10 /\ Moves(c)
         /\ f = IF w.put = 0 THEN MetricPlots ELSE Timelines
         /\ w.put = 0 =>
              /\ IsCommand(v) /\ v.at = "replace" /\ v.kind = w.kind /\ v.step = 10 /\ v.knows = w.knows
              /\ v.plot = w.plot /\ v.put = 1 /\ v.update = w.update
         /\ w.put = 1 /\ w.kind = "run" =>
              /\ IsCommand(v) /\ v.at = "stage" /\ v.kind = "run" /\ v.step = 11 /\ v.knows = w.knows
              /\ v.put = 0
         /\ w.put = 1 /\ w.kind = "replot" /\ w.update =>
              /\ IsCommand(v) /\ v.at = "inventory" /\ v.kind = "replot" /\ v.step = 10 /\ v.knows = w.knows
              /\ v.put = 1 /\ v.update
         /\ w.put = 1 /\ w.kind = "replot" /\ ~w.update => v = [at |-> "ended"]
<1>. DEFINE w == command[c]
            f == Plots[w.put + 1]
            v == command'[c]
<1>1. c \in Active /\ w.at = "replace"
  BY DEF Replace, Active
<1>2. DirShape /\ Working(w)
  BY <1>1, ActiveWorks
<1>3. w.step = 10 /\ w.put \in {0, 1} /\ w.kind \in {"run", "replot"} /\ IsCommand(w)
  BY <1>1, <1>2 DEF Working, IsCommand
<1>4. (w.put + 1 = Len(Plots)) <=> w.put = 1
  BY <1>3, WrittenFacts
<1>5. f = IF w.put = 0 THEN MetricPlots ELSE Timelines
  BY <1>3, WrittenFacts
<1>6. w.put = 0 =>
        /\ Moves(c)
        /\ IsCommand(v) /\ v.at = "replace" /\ v.kind = w.kind /\ v.step = 10 /\ v.knows = w.knows
        /\ v.plot = w.plot /\ v.put = 1 /\ v.update = w.update
  <2>. SUFFICES ASSUME w.put = 0
                PROVE  /\ Moves(c)
                       /\ IsCommand(v) /\ v.at = "replace" /\ v.kind = w.kind /\ v.step = 10
                       /\ v.knows = w.knows /\ v.plot = w.plot /\ v.put = 1 /\ v.update = w.update
    OBVIOUS
  <2>1. command' = [command EXCEPT ![c].put = w.put + 1]
    BY <1>4 DEF Replace
  <2>2. Moves(c) /\ v = [w EXCEPT !.put = 1]
    BY <1>2, <2>1 DEF DirShape, Moves
  <2>. HIDE DEF w, v
  <2>3. [w EXCEPT !.put = 1] =
        [at |-> w.at, kind |-> w.kind, step |-> w.step, by |-> w.by, knows |-> w.knows,
         plot |-> w.plot, put |-> 1, update |-> w.update]
    BY <1>3 DEF IsCommand
  <2>. QED  BY <1>1, <1>3, <2>2, <2>3 DEF IsCommand
<1>7. w.put = 1 /\ w.kind = "run" =>
        /\ Moves(c)
        /\ IsCommand(v) /\ v.at = "stage" /\ v.kind = "run" /\ v.step = 11 /\ v.knows = w.knows /\ v.put = 0
  <2>. SUFFICES ASSUME w.put = 1, w.kind = "run"
                PROVE  /\ Moves(c)
                       /\ IsCommand(v) /\ v.at = "stage" /\ v.kind = "run" /\ v.step = 11
                       /\ v.knows = w.knows /\ v.put = 0
    OBVIOUS
  <2>. DEFINE u == [w EXCEPT !.put = 0]
  <2>1. command' = [command EXCEPT ![c] = Advance(u)]
    BY <1>4 DEF Replace
  <2>2. Moves(c) /\ v = Advance(u)
    BY <1>2, <2>1, ReplacedFacts
  <2>. HIDE DEF w, v
  <2>3. u = [at |-> w.at, kind |-> w.kind, step |-> w.step, by |-> w.by, knows |-> w.knows,
             plot |-> w.plot, put |-> 0, update |-> w.update]
    BY <1>3 DEF IsCommand
  <2>. HIDE DEF u
  <2>4. IsCommand(u) /\ u.step = 10 /\ u.kind = "run" /\ u.knows = w.knows /\ u.put = 0
    BY <1>3, <2>3 DEF IsCommand
  <2>. QED  BY <2>2, <2>4, AdvanceFacts
<1>8. w.put = 1 /\ w.kind = "replot" /\ w.update =>
        /\ Moves(c)
        /\ IsCommand(v) /\ v.at = "inventory" /\ v.kind = "replot" /\ v.step = 10 /\ v.knows = w.knows
        /\ v.put = 1 /\ v.update
  <2>. SUFFICES ASSUME w.put = 1, w.kind = "replot", w.update
                PROVE  /\ Moves(c)
                       /\ IsCommand(v) /\ v.at = "inventory" /\ v.kind = "replot" /\ v.step = 10
                       /\ v.knows = w.knows /\ v.put = 1 /\ v.update
    OBVIOUS
  <2>1. Enter(c, "inventory")
    BY <1>4 DEF Replace
  <2>2. /\ Moves(c)
        /\ v = [at |-> "inventory", kind |-> w.kind, step |-> w.step, by |-> w.by, knows |-> w.knows,
                plot |-> w.plot, put |-> w.put, update |-> w.update]
    BY <1>2, <2>1, EnterFacts
  <2>. HIDE DEF w, v
  <2>3. /\ IsCommand(v) /\ v.at = "inventory" /\ v.kind = w.kind /\ v.step = w.step
        /\ v.knows = w.knows /\ v.put = w.put /\ v.update = w.update
    BY <2>2 DEF IsCommand
  <2>. QED  BY <1>3, <2>2, <2>3
<1>9. w.put = 1 /\ w.kind = "replot" /\ ~w.update => Moves(c) /\ v = [at |-> "ended"]
  <2>. SUFFICES ASSUME w.put = 1, w.kind = "replot", ~w.update PROVE Moves(c) /\ v = [at |-> "ended"]
    OBVIOUS
  <2>1. End(c)
    BY <1>4 DEF Replace
  <2>. QED  BY <1>2, <2>1, EndFacts
<1>10. \/ w.put = 0
       \/ w.put = 1 /\ w.kind = "run"
       \/ w.put = 1 /\ w.kind = "replot" /\ w.update
       \/ w.put = 1 /\ w.kind = "replot" /\ ~w.update
  BY <1>3
<1>11. Moves(c)
  BY <1>6, <1>7, <1>8, <1>9, <1>10
<1>. QED  BY <1>1, <1>2, <1>3, <1>5, <1>6, <1>7, <1>8, <1>9, <1>11

LEMMA PutPlotKeeps == ASSUME SyntheticInv, NEW c \in Commands, Replace(c) PROVE SyntheticInv'
<1>. DEFINE w == command[c]
            f == Plots[w.put + 1]
<1>1. /\ c \in Active /\ Working(w) /\ w.at = "replace" /\ w.step = 10 /\ Moves(c)
      /\ f = IF w.put = 0 THEN MetricPlots ELSE Timelines
  BY PutPlotFacts
<1>2. DirShape /\ Filled(c) /\ (single => RunAlone(c) /\ ReplotAlone(c))
  BY <1>1, ActiveWorks
<1>3. w.put \in {0, 1} /\ w.kind \in {"run", "replot"} /\ "test" \notin w.knows /\ IsWhole(w.plot)
  BY <1>1 DEF Working
<1>4. /\ w.put = 0 =>
           /\ IsCommand(command'[c]) /\ command'[c].at = "replace" /\ command'[c].kind = w.kind
           /\ command'[c].step = 10 /\ command'[c].knows = w.knows
           /\ command'[c].plot = w.plot /\ command'[c].put = 1 /\ command'[c].update = w.update
      /\ w.put = 1 /\ w.kind = "run" =>
           /\ IsCommand(command'[c]) /\ command'[c].at = "stage" /\ command'[c].kind = "run"
           /\ command'[c].step = 11 /\ command'[c].knows = w.knows /\ command'[c].put = 0
      /\ w.put = 1 /\ w.kind = "replot" /\ w.update =>
           /\ IsCommand(command'[c]) /\ command'[c].at = "inventory" /\ command'[c].kind = "replot"
           /\ command'[c].step = 10 /\ command'[c].knows = w.knows /\ command'[c].put = 1
           /\ command'[c].update
      /\ w.put = 1 /\ w.kind = "replot" /\ ~w.update => command'[c] = [at |-> "ended"]
  BY PutPlotFacts
<1>. DEFINE temps == IF w.put = 1 THEN dir.temps \ {c} ELSE dir.temps
<1>5. dir' = [files |-> With(dir.files, f, w.plot), temps |-> temps, manifest |-> dir.manifest,
              sum |-> dir.sum, progress |-> dir.progress]
  <2>1. (w.put + 1 = Len(Plots)) <=> w.put = 1
    BY <1>3, WrittenFacts
  <2>2. dir' = [dir EXCEPT !.files = With(dir.files, f, w.plot), !.temps = temps]
    BY <2>1 DEF Replace
  <2>. HIDE DEF temps, f, w
  <2>. QED  BY <1>2, <2>2 DEF DirShape
<1>6. /\ dir'.files = With(dir.files, f, w.plot) /\ dir'.temps = temps /\ dir'.manifest = dir.manifest
      /\ dir'.sum = dir.sum /\ dir'.progress = dir.progress
  BY <1>5
<1>7. single' = single /\ cut' = cut
  BY DEF Replace
<1>. HIDE DEF f
<1>8. /\ DOMAIN dir'.files = DOMAIN dir.files \cup {f} /\ dir'.files[f] = w.plot
      /\ \A g \in DOMAIN dir.files : g # f => dir'.files[g] = dir.files[g]
  BY <1>6 DEF With
<1>9. f \notin Written /\ f \notin Own /\ f # "marker" /\ f # "bundle" /\ MetricPlots # Timelines
  BY <1>1, WrittenFacts DEF Own
<1>10. command'[c].at \in {"new", "ended"} \/ Working(command'[c])
  BY <1>1, <1>3, <1>4 DEF Working, IsCommand
<1>11. temps \subseteq dir.temps /\ (c \in temps => w.put = 0)
  BY <1>3
<1>12. Shaped(c)'
  BY <1>2, <1>4, <1>5, <1>6, <1>7, <1>10, <1>11 DEF Shaped, DirShape, Working, IsWhole
<1>13. Filling(command'[c]) => Filling(w) /\ command'[c].step \in {10, 11} /\ w.kind = "run"
  BY <1>1, <1>3, <1>4 DEF Filling
<1>14. Filled(c)'
  <2>. SUFFICES ASSUME Filling(command'[c]) PROVE Filled(c)'
    BY DEF Filled, Filling
  <2>1. Filling(w) /\ command'[c].step \in {10, 11}
    BY <1>13
  <2>2. \A i \in 1..12 : i < command'[c].step /\ Fills(i) => i < 10
    BY <2>1, ProgramFacts
  <2>3. \A i \in 1..12 : i < 10 /\ Fills(i) => Program[i].file \in DOMAIN dir.files
    BY <1>1, <1>2, <2>1 DEF Filled
  <2>4. \A i \in 4..12 : i < 10 /\ Fills(i) => /\ IsWhole(dir.files[Program[i].file])
                                               /\ dir.files[Program[i].file].from = {c}
    BY <1>1, <1>2, <2>1 DEF Filled
  <2>5. \A i \in 4..12 : i < 10 /\ Fills(i) => i \in 1..12 /\ Program[i].file # f
    BY <1>9, ProgramFacts, WrittenFacts
  <2>6. \A i \in 4..12 : i < 10 /\ Fills(i) => dir'.files[Program[i].file] = dir.files[Program[i].file]
    BY <1>8, <2>3, <2>5
  <2>7. \A i \in 1..12 : i < command'[c].step /\ Fills(i) => Program[i].file \in DOMAIN dir'.files
    BY <1>8, <2>2, <2>3
  <2>8. \A i \in 4..12 : i < command'[c].step /\ Fills(i) =>
          IsWhole(dir'.files[Program[i].file]) /\ dir'.files[Program[i].file].from = {c}
    BY <2>2, <2>4, <2>5, <2>6
  <2>9. ~(command'[c].step > 11)
    BY <2>1
  <2>. QED  BY <2>7, <2>8, <2>9 DEF Filled, IsWhole
<1>15. Careful(c)
  <2>1. \A g \in Own : g \in DOMAIN dir.files => dir'.files[g] = dir.files[g]
    BY <1>8, <1>9
  <2>2. Filling(command'[c]) => Filling(command[c]) /\ command'[c].step \in 1..12 /\ PastMarker(c)
    BY <1>1, <1>13 DEF PastMarker
  <2>. QED  BY <1>8, <2>1, <2>2 DEF Careful
<1>16. dir'.manifest # Absent => Finished
  BY <1>6 DEF SyntheticInv, Listed
<1>17. w.kind = "replot" /\ w.update => Finished
  BY <1>1 DEF SyntheticInv, Listed
<1>18. command'[c].at \notin {"new", "ended"} =>
         /\ command'[c].kind = "run" /\ ~Filling(command'[c]) => Finished'
         /\ command'[c].kind = "replot" /\ command'[c].update => Finished
  <2>1. command'[c].at \notin {"new", "ended"} /\ command'[c].kind = "run" => Filling(command'[c])
    BY <1>3, <1>4 DEF Filling
  <2>2. command'[c].at \notin {"new", "ended"} /\ command'[c].kind = "replot" /\ command'[c].update =>
          w.kind = "replot" /\ w.update
    <3>. SUFFICES ASSUME command'[c].at \notin {"new", "ended"}, command'[c].kind = "replot", command'[c].update
                  PROVE  w.kind = "replot" /\ w.update
      OBVIOUS
    <3>1. CASE w.put = 0
      <4>1. w.kind = "replot" /\ command'[c].update = w.update
        BY <1>4, <3>1
      <4>. QED  BY <4>1, Zenon
    <3>2. CASE w.put = 1
      <4>1. w.kind = "replot"
        BY <1>3, <1>4, <3>2
      <4>2. w.update
        BY <1>4, <3>2, <4>1
      <4>. QED  BY <4>1, <4>2
    <3>. QED  BY <1>3, <3>1, <3>2
  <2>. QED  BY <1>17, <2>1, <2>2
<1>. HIDE DEF w, temps
<1>19. single => AloneHere(c)'
  <2>. SUFFICES ASSUME single PROVE AloneHere(c)'
    OBVIOUS
  <2>1. w.kind = "run" =>
          /\ dir.manifest = Absent /\ w.plot.from = {c}
          /\ \A g \in DOMAIN dir.files : IsWhole(dir.files[g]) /\ dir.files[g].from = {c}
          /\ w.put = 1 => MetricPlots \in DOMAIN dir.files /\ dir.files[MetricPlots].by = w.plot.by
    BY <1>1, <1>2 DEF RunAlone, Filling, w
  <2>2. w.kind = "replot" /\ w.update =>
          /\ OfOneRun(dir.files) /\ w.plot.from = dir.files["marker"].from
          /\ w.put = 1 => MetricPlots \in DOMAIN dir.files /\ dir.files[MetricPlots].by = w.plot.by
    BY <1>1, <1>2 DEF ReplotAlone, w
  <2>3. w.put = 0 => MetricPlots \in DOMAIN dir'.files /\ dir'.files[MetricPlots].by = w.plot.by
    BY <1>1, <1>8
  <2>4. w.put = 1 /\ MetricPlots \in DOMAIN dir.files /\ dir.files[MetricPlots].by = w.plot.by =>
          OneRenderer(dir'.files)
    BY <1>1, <1>8, <1>9 DEF OneRenderer
  <2>5. w.kind = "run" => \A g \in DOMAIN dir'.files : IsWhole(dir'.files[g]) /\ dir'.files[g].from = {c}
    BY <1>3, <1>8, <2>1
  <2>6. w.kind = "replot" /\ w.update =>
          OfOneRun(dir'.files) /\ dir'.files["marker"].from = w.plot.from
    <3>. SUFFICES ASSUME w.kind = "replot", w.update
                  PROVE  OfOneRun(dir'.files) /\ dir'.files["marker"].from = w.plot.from
      OBVIOUS
    <3>1. "marker" \in DOMAIN dir.files
      BY <1>17, WrittenFacts DEF Finished, Own
    <3>2. dir'.files["marker"] = dir.files["marker"]
      BY <1>8, <1>9, <3>1
    <3>. QED  BY <1>3, <1>8, <2>2, <3>2 DEF OfOneRun
  <2>7. ASSUME command'[c].at \notin {"new", "ended"} PROVE RunAlone(c)'
    <3>1. CASE w.kind = "run" /\ w.put = 0
      BY <1>4, <1>6, <2>1, <2>3, <2>5, <3>1 DEF RunAlone, Absent, IsWhole, MetricPlots
    <3>2. CASE w.kind = "run" /\ w.put = 1
      <4>1. OneRenderer(dir'.files)
        BY <2>1, <2>4, <3>2
      <4>. QED  BY <1>4, <1>6, <2>1, <2>5, <3>2, <4>1
             DEF RunAlone, Absent, IsWhole, OneRenderer, MetricPlots, Timelines
    <3>3. CASE w.kind = "replot"
      <4>1. command'[c].kind = "replot"
        BY <1>3, <1>4, <2>7, <3>3
      <4>. QED  BY <4>1 DEF RunAlone
    <3>. QED  BY <1>3, <3>1, <3>2, <3>3
  <2>8. ASSUME command'[c].at \notin {"new", "ended"} PROVE ReplotAlone(c)'
    <3>1. CASE w.kind = "replot" /\ w.put = 0 /\ w.update
      BY <1>4, <2>2, <2>3, <2>6, <3>1 DEF ReplotAlone, OfOneRun, IsWhole, MetricPlots
    <3>2. CASE w.kind = "replot" /\ w.put = 1 /\ w.update
      <4>1. OneRenderer(dir'.files)
        BY <2>2, <2>4, <3>2
      <4>. QED  BY <1>4, <2>6, <3>2, <4>1
             DEF ReplotAlone, OfOneRun, IsWhole, OneRenderer, MetricPlots, Timelines
    <3>3. CASE w.kind = "run" \/ ~w.update
      <4>1. command'[c].kind = "run" \/ ~command'[c].update
        BY <1>3, <1>4, <2>8, <3>3
      <4>. QED  BY <4>1 DEF ReplotAlone
    <3>. QED  BY <1>3, <3>1, <3>2, <3>3
  <2>9. dir'.manifest.is = "whole" => OfOneRun(dir'.manifest.files) /\ OneRenderer(dir'.manifest.files)
    BY <1>6 DEF SyntheticInv, AloneInDir
  <2>10. Active' = {b \in Commands : command'[b].at \notin {"new", "ended"}}
    BY DEF Active, Commands
  <2>11. Complete'
    <3>. SUFFICES ASSUME ~cut, dir.progress = "complete" PROVE Complete'
      BY <1>6, <1>7 DEF Complete
    <3>1. w.kind = "replot" /\ w.update /\ \A b \in Active : b = c
      BY <1>1 DEF SyntheticInv, AloneInDir, Complete, w
    <3>2. c \in Active' /\ \A b \in Active' : b = c
      BY <1>1, <1>3, <1>4, <2>10, <3>1 DEF Moves, Active
    <3>3. /\ command'[c].kind = "replot" /\ command'[c].at \in {"replace", "inventory"}
          /\ command'[c].at = "replace" => command'[c].update /\ command'[c].put = 1
      BY <1>3, <1>4, <3>1
    <3>. QED  BY <3>2, <3>3 DEF Complete
  <2>12. command'[c].at \notin {"sum", "finish"}
    BY <1>3, <1>4
  <2>. QED  BY <2>7, <2>8, <2>9, <2>10, <2>11, <2>12
         DEF AloneHere, OfOneRun, OneRenderer, IsWhole, MetricPlots, Timelines
<1>20. single' = single /\ dir'.temps \subseteq dir.temps \cup {c}
  BY <1>6, <1>7, <1>11
<1>. QED  BY <1>1, <1>12, <1>14, <1>15, <1>16, <1>18, <1>19, <1>20, CommandKeeps

LEMMA WriteManifestKeeps ==
  ASSUME SyntheticInv, NEW c \in Commands, WriteManifest(c) PROVE SyntheticInv'
<1>. DEFINE w == command[c]
<1>1. c \in Active /\ w.at = "inventory"
  BY DEF WriteManifest, Active
<1>2. /\ DirShape /\ Working(w) /\ Filled(c)
      /\ single => RunAlone(c) /\ ReplotAlone(c)
  BY <1>1, ActiveWorks
<1>3. dir' = [files |-> dir.files, temps |-> dir.temps, manifest |-> InventoryOf(dir),
              sum |-> dir.sum, progress |-> dir.progress]
  BY <1>2 DEF WriteManifest, DirShape
<1>4. /\ dir'.files = dir.files /\ dir'.temps = dir.temps /\ dir'.manifest = InventoryOf(dir)
      /\ dir'.sum = dir.sum /\ dir'.progress = dir.progress
  BY <1>3
<1>5. single' = single /\ cut' = cut /\ Enter(c, "sum")
  BY DEF WriteManifest
<1>6. /\ w.kind \in {"run", "replot"} /\ ~Filling(w)
      /\ w.kind = "replot" => w.update /\ w.step = 10
      /\ "test" \notin w.knows /\ w.step \in 1..12 /\ w.put \in {0, 1}
  BY <1>1, <1>2 DEF Working, Filling
<1>7. Moves(c) /\ command'[c] = [at |-> "sum", kind |-> w.kind, step |-> w.step, by |-> w.by,
                                 knows |-> w.knows, plot |-> w.plot, put |-> w.put, update |-> w.update]
  BY <1>1, <1>2, <1>5, EnterFacts
<1>8. w.kind = "run" => Finished
  BY <1>1, <1>6 DEF SyntheticInv, Listed
<1>9. w.kind = "replot" => Finished
  BY <1>1, <1>6 DEF SyntheticInv, Listed
<1>. HIDE DEF w
<1>10. /\ command'[c].at = "sum" /\ command'[c].kind = w.kind /\ command'[c].step = w.step
       /\ command'[c].put = w.put /\ command'[c].knows = w.knows /\ IsCommand(command'[c])
       /\ w.kind = "replot" => command'[c].update
  BY <1>6, <1>7 DEF IsCommand
<1>11. Working(command'[c])
  BY <1>6, <1>10 DEF Working, IsCommand
<1>12. Shaped(c)'
  BY <1>1, <1>2, <1>3, <1>4, <1>5, <1>11 DEF Shaped, DirShape, Working, IsWhole, w
<1>13. Finished
  BY <1>6, <1>8, <1>9
<1>14. ~Filling(command'[c])
  BY <1>10 DEF Filling
<1>15. Filled(c)' /\ Careful(c)
  BY <1>4, <1>14 DEF Filled, Filling, Careful
<1>16. Finished'
  BY <1>2, <1>7, <1>13, <1>15, FinishedStays
<1>17. single => AloneHere(c)'
  <2>. SUFFICES ASSUME single PROVE AloneHere(c)'
    OBVIOUS
  <2>1. RunAlone(c)' /\ ReplotAlone(c)'
    BY <1>10 DEF RunAlone, ReplotAlone, Filling
  <2>2. dir'.manifest = InventoryOf(dir') /\ dir'.manifest.files = dir.files
    BY <1>4 DEF InventoryOf
  <2>3. OfOneRun(dir.files) /\ OneRenderer(dir.files)
    BY <1>1, <1>2, <1>6 DEF RunAlone, ReplotAlone, w
  <2>4. Complete'
    <3>. SUFFICES ASSUME ~cut, dir.progress = "complete" PROVE Complete'
      BY <1>4, <1>5 DEF Complete
    <3>1. w.kind = "replot" /\ \A b \in Active : b = c
      BY <1>1 DEF SyntheticInv, AloneInDir, Complete, w
    <3>2. Active' = {b \in Commands : command'[b].at \notin {"new", "ended"}}
      BY DEF Active, Commands
    <3>3. c \in Active' /\ \A b \in Active' : b = c
      BY <1>7, <1>10, <3>1, <3>2 DEF Moves, Active
    <3>. QED  BY <1>10, <3>1, <3>3 DEF Complete
  <2>. QED  BY <2>1, <2>2, <2>3, <2>4
         DEF AloneHere, OfOneRun, OneRenderer, IsWhole, MetricPlots, Timelines, InventoryOf
<1>. QED  BY <1>1, <1>4, <1>5, <1>7, <1>12, <1>13, <1>15, <1>16, <1>17, CommandKeeps

LEMMA WriteSumKeeps == ASSUME SyntheticInv, NEW c \in Commands, WriteSum(c) PROVE SyntheticInv'
<1>. DEFINE w == command[c]
<1>1. c \in Active /\ w.at = "sum"
  BY DEF WriteSum, Active
<1>2. /\ DirShape /\ Working(w) /\ Filled(c)
      /\ single => /\ dir.manifest = InventoryOf(dir)
                   /\ dir.manifest.is = "whole" =>
                        OfOneRun(dir.manifest.files) /\ OneRenderer(dir.manifest.files)
  BY <1>1, ActiveWorks
<1>3. dir' = [files |-> dir.files, temps |-> dir.temps, manifest |-> dir.manifest,
              sum |-> dir.manifest, progress |-> dir.progress]
  BY <1>2 DEF WriteSum, DirShape
<1>4. /\ dir'.files = dir.files /\ dir'.temps = dir.temps /\ dir'.manifest = dir.manifest
      /\ dir'.sum = dir.manifest /\ dir'.progress = dir.progress
  BY <1>3
<1>5. single' = single /\ cut' = cut
  BY DEF WriteSum
<1>6. /\ w.kind \in {"run", "replot"} /\ ~Filling(w)
      /\ "test" \notin w.knows /\ w.step \in 1..12 /\ w.put \in {0, 1}
  BY <1>1, <1>2 DEF Working, Filling
<1>7. w.kind = "run" =>
        /\ Moves(c)
        /\ command'[c] = [at |-> "finish", kind |-> w.kind, step |-> w.step, by |-> w.by,
                          knows |-> w.knows, plot |-> w.plot, put |-> w.put, update |-> w.update]
  <2>. SUFFICES ASSUME w.kind = "run"
                PROVE  /\ Moves(c)
                       /\ command'[c] = [at |-> "finish", kind |-> w.kind, step |-> w.step, by |-> w.by,
                                         knows |-> w.knows, plot |-> w.plot, put |-> w.put,
                                         update |-> w.update]
    OBVIOUS
  <2>1. Enter(c, "finish")
    BY DEF WriteSum
  <2>. QED  BY <1>1, <1>2, <2>1, EnterFacts
<1>8. w.kind = "replot" => Moves(c) /\ command'[c] = [at |-> "ended"]
  <2>. SUFFICES ASSUME w.kind = "replot" PROVE Moves(c) /\ command'[c] = [at |-> "ended"]
    OBVIOUS
  <2>1. End(c)
    BY DEF WriteSum
  <2>. QED  BY <1>2, <2>1, EndFacts
<1>9. w.kind = "run" => Finished
  BY <1>1, <1>6 DEF SyntheticInv, Listed
<1>. HIDE DEF w
<1>10. /\ w.kind = "run" =>
            /\ command'[c].at = "finish" /\ command'[c].kind = "run" /\ command'[c].step = w.step
            /\ command'[c].put = w.put /\ command'[c].knows = w.knows /\ IsCommand(command'[c])
       /\ w.kind = "replot" => command'[c].at = "ended"
  BY <1>7, <1>8 DEF IsCommand
<1>11. command'[c].at = "ended" \/ Working(command'[c])
  BY <1>6, <1>10 DEF Working, IsCommand
<1>12. Shaped(c)'
  BY <1>1, <1>2, <1>3, <1>4, <1>5, <1>11 DEF Shaped, DirShape, Working, IsWhole, w
<1>13. Moves(c)
  BY <1>6, <1>7, <1>8
<1>14. ~Filling(command'[c])
  BY <1>6, <1>10 DEF Filling
<1>15. Filled(c)' /\ Careful(c)
  BY <1>4, <1>14 DEF Filled, Filling, Careful
<1>16. w.kind = "run" => Finished'
  BY <1>2, <1>9, <1>13, <1>15, FinishedStays
<1>17. dir'.manifest # Absent => Finished
  BY <1>4 DEF SyntheticInv, Listed
<1>18. single => AloneHere(c)'
  <2>. SUFFICES ASSUME single PROVE AloneHere(c)'
    OBVIOUS
  <2>1. c \in Active' => w.kind = "run" /\ command'[c].at = "finish" /\ command'[c].kind = "run"
    BY <1>6, <1>10 DEF Active
  <2>2. c \in Active' => RunAlone(c)' /\ ReplotAlone(c)'
    BY <1>4, <2>1 DEF RunAlone, ReplotAlone, Filling
  <2>3. dir'.manifest = InventoryOf(dir')
    BY <1>2, <1>4 DEF InventoryOf
  <2>4. Complete'
    <3>. SUFFICES ASSUME ~cut, dir.progress = "complete" PROVE Complete'
      BY <1>4, <1>5 DEF Complete
    <3>1. w.kind = "replot" /\ \A b \in Active : b = c
      BY <1>1 DEF SyntheticInv, AloneInDir, Complete, w
    <3>2. Active' = {b \in Commands : command'[b].at \notin {"new", "ended"}}
      BY DEF Active, Commands
    <3>3. Active' = {}
      BY <1>10, <1>13, <3>1, <3>2 DEF Moves, Active
    <3>4. dir'.manifest.is = "whole"
      BY <2>3 DEF InventoryOf
    <3>. QED  BY <1>4, <2>3, <3>3, <3>4 DEF Complete, Verifies, InventoryOf
  <2>5. dir'.manifest.is = "whole" => OfOneRun(dir'.manifest.files) /\ OneRenderer(dir'.manifest.files)
    BY <1>2, <1>4
  <2>. QED  BY <2>2, <2>3, <2>4, <2>5
         DEF AloneHere, OfOneRun, OneRenderer, IsWhole, MetricPlots, Timelines, InventoryOf
<1>19. command'[c].at \notin {"new", "ended"} => w.kind = "run" /\ command'[c].kind = "run"
  BY <1>6, <1>10
<1>. QED  BY <1>1, <1>4, <1>5, <1>12, <1>13, <1>15, <1>16, <1>17, <1>18, <1>19, CommandKeeps

\* A command that ends and leaves the directory in order.
LEMMA EndingKeeps ==
  ASSUME SyntheticInv, NEW c \in Active, End(c), single' = single, cut' \in BOOLEAN,
         dir' = [files |-> dir'.files, temps |-> dir'.temps, manifest |-> dir'.manifest,
                 sum |-> dir'.sum, progress |-> dir'.progress],
         dir'.temps \subseteq dir.temps,
         DOMAIN dir.files \subseteq DOMAIN dir'.files,
         ~PastMarker(c) => \A f \in Own : f \in DOMAIN dir.files => dir'.files[f] = dir.files[f],
         dir'.manifest # Absent => Finished,
         single /\ dir'.manifest.is = "whole" =>
           OfOneRun(dir'.manifest.files) /\ OneRenderer(dir'.manifest.files),
         single /\ ~cut' /\ dir'.progress = "complete" => Verifies(dir')
  PROVE  SyntheticInv'
<1>1. DirShape /\ c \in Commands
  BY ActiveWorks
<1>2. Moves(c) /\ command'[c] = [at |-> "ended"]
  BY <1>1, EndFacts
<1>3. /\ command'[c].at = "ended" /\ ~Filling(command'[c])
      /\ Filled(c)' /\ c \notin Active'
  BY <1>1, <1>2, EndedFacts
<1>4. Shaped(c)'
  BY <1>3 DEF Shaped
<1>5. Careful(c)
  BY <1>3 DEF Careful
<1>6. single => AloneHere(c)'
  <2>. SUFFICES ASSUME single PROVE AloneHere(c)'
    OBVIOUS
  <2>1. \A b \in Active : b = c
    BY DEF SyntheticInv, AloneInDir
  <2>2. Active' = {b \in Commands : command'[b].at \notin {"new", "ended"}}
    BY DEF Active, Commands
  <2>3. Active' = {}
    BY <1>2, <1>3, <2>1, <2>2 DEF Moves, Active
  <2>4. Complete'
    BY <2>3 DEF Complete, Verifies, InventoryOf
  <2>. QED  BY <1>3, <2>4 DEF AloneHere, OfOneRun, OneRenderer, IsWhole, MetricPlots, Timelines
<1>. QED  BY <1>2, <1>3, <1>4, <1>5, <1>6, CommandKeeps

LEMMA CompleteRunKeeps == ASSUME SyntheticInv, NEW c \in Commands, CompleteRun(c) PROVE SyntheticInv'
<1>1. c \in Active /\ command[c].at = "finish"
  BY DEF CompleteRun, Active
<1>2. /\ DirShape /\ Working(command[c])
      /\ single => /\ RunAlone(c) /\ dir.manifest = InventoryOf(dir)
                   /\ dir.manifest.is = "whole" =>
                        OfOneRun(dir.manifest.files) /\ OneRenderer(dir.manifest.files)
  BY <1>1, ActiveWorks
<1>3. command[c].kind = "run"
  BY <1>1, <1>2 DEF Working
<1>4. dir' = [files |-> dir.files, temps |-> dir.temps, manifest |-> dir.manifest,
              sum |-> dir.sum, progress |-> "complete"]
  BY <1>2 DEF CompleteRun, DirShape
<1>5. /\ dir'.files = dir.files /\ dir'.temps = dir.temps /\ dir'.manifest = dir.manifest
      /\ dir'.sum = dir.sum
  BY <1>4
<1>6. single => Verifies(dir')
  <2>. SUFFICES ASSUME single PROVE Verifies(dir')
    OBVIOUS
  <2>1. dir.sum = dir.manifest /\ dir.manifest = InventoryOf(dir)
    BY <1>1, <1>2, <1>3 DEF RunAlone
  <2>. QED  BY <1>5, <2>1 DEF Verifies, InventoryOf
<1>7. dir' = [files |-> dir'.files, temps |-> dir'.temps, manifest |-> dir'.manifest,
              sum |-> dir'.sum, progress |-> dir'.progress]
  BY <1>4
<1>8. dir'.manifest # Absent => Finished
  BY <1>5 DEF SyntheticInv, Listed
<1>9. End(c) /\ single' = single /\ cut' \in BOOLEAN
  BY <1>2 DEF CompleteRun, DirShape
<1>. QED  BY <1>1, <1>2, <1>5, <1>6, <1>7, <1>8, <1>9, EndingKeeps

\* What a command that stops leaves of the directory.
LEMMA LeftFacts ==
  ASSUME SyntheticInv, NEW c \in Active, NEW d, d \in Left(c)
  PROVE  /\ d = [files |-> d.files, temps |-> d.temps, manifest |-> d.manifest,
                 sum |-> d.sum, progress |-> d.progress]
         /\ d.temps = dir.temps
         /\ DOMAIN dir.files \subseteq DOMAIN d.files
         /\ ~PastMarker(c) => \A f \in Own : f \in DOMAIN dir.files => d.files[f] = dir.files[f]
         /\ d.manifest = dir.manifest \/ (d.manifest = TornFile /\ command[c].at = "inventory")
         /\ d.progress = dir.progress \/ d.progress = "torn"
         /\ command[c].kind = "replot" /\ command[c].at \notin {"inventory", "sum"} => d = dir
<1>. DEFINE w == command[c]
            f == Program[w.step].file
            torn == [Result(c) EXCEPT !.whole = FALSE]
<1>1. DirShape /\ Working(w) /\ Filled(c)
  BY ActiveWorks
<1>2. dir = [files |-> dir.files, temps |-> dir.temps, manifest |-> dir.manifest,
             sum |-> dir.sum, progress |-> dir.progress]
  BY <1>1 DEF DirShape
<1>3. \/ d = dir
      \/ MayWrite(c) /\ d = [dir EXCEPT !.files = With(@, f, torn)]
      \/ w.at = "inventory" /\ d = [dir EXCEPT !.manifest = TornFile]
      \/ w.at = "sum" /\ d = [dir EXCEPT !.sum = TornFile]
      \/ w.kind = "run" /\ d = [dir EXCEPT !.progress = "torn"]
  BY DEF Left
<1>4. MayWrite(c) => /\ w.at = "stage" /\ w.kind = "run" /\ w.step \in 1..12 /\ Fills(w.step)
                     /\ w.step = 4 => f \notin DOMAIN dir.files
  <2>. SUFFICES ASSUME MayWrite(c)
                PROVE  /\ w.at = "stage" /\ w.kind = "run" /\ w.step \in 1..12 /\ Fills(w.step)
                       /\ w.step = 4 => f \notin DOMAIN dir.files
    OBVIOUS
  <2>1. /\ w.at = "stage" /\ Fills(w.step)
        /\ Program[w.step].how # "write" => f \notin DOMAIN dir.files
    BY DEF MayWrite, AtStep, Fills
  <2>2. w.step \in 1..12 /\ w.step # 10
    BY <1>1, <2>1, ProgramFacts DEF Working
  <2>3. w.kind = "run"
    BY <1>1, <2>2 DEF Working
  <2>4. w.step = 4 => Program[w.step].how # "write"
    BY ProgramTable
  <2>. QED  BY <2>1, <2>2, <2>3, <2>4
<1>. HIDE DEF torn
<1>5. CASE d = dir
  BY <1>2, <1>5
<1>6. CASE MayWrite(c) /\ d = [dir EXCEPT !.files = With(@, f, torn)]
  <2>. HIDE DEF f
  <2>1. d = [files |-> With(dir.files, f, torn), temps |-> dir.temps, manifest |-> dir.manifest,
             sum |-> dir.sum, progress |-> dir.progress]
    BY <1>2, <1>6
  <2>2. /\ d.files = With(dir.files, f, torn) /\ d.temps = dir.temps /\ d.manifest = dir.manifest
        /\ d.sum = dir.sum /\ d.progress = dir.progress
    BY <2>1
  <2>3. /\ DOMAIN d.files = DOMAIN dir.files \cup {f}
        /\ \A g \in DOMAIN dir.files : g # f => d.files[g] = dir.files[g]
    BY <2>2 DEF With
  <2>4. ASSUME ~PastMarker(c), NEW g \in Own, g \in DOMAIN dir.files PROVE d.files[g] = dir.files[g]
    <3>1. w.step \in 1..4
      BY <1>4, <1>6, <2>4 DEF PastMarker, Filling
    <3>2. w.step < 4 => f \notin Own
      BY <1>4, <1>6, ProgramFacts, WrittenFacts DEF f, OwnFiles
    <3>. QED  BY <1>4, <1>6, <2>3, <2>4, <3>1, <3>2
  <2>. QED  BY <1>4, <1>6, <2>1, <2>2, <2>3, <2>4
<1>7. CASE w.at = "inventory" /\ d = [dir EXCEPT !.manifest = TornFile]
  <2>1. d = [files |-> dir.files, temps |-> dir.temps, manifest |-> TornFile,
             sum |-> dir.sum, progress |-> dir.progress]
    BY <1>2, <1>7
  <2>2. /\ d.files = dir.files /\ d.temps = dir.temps /\ d.manifest = TornFile
        /\ d.sum = dir.sum /\ d.progress = dir.progress
    BY <2>1
  <2>. QED  BY <1>7, <2>1, <2>2
<1>8. CASE w.at = "sum" /\ d = [dir EXCEPT !.sum = TornFile]
  <2>1. d = [files |-> dir.files, temps |-> dir.temps, manifest |-> dir.manifest,
             sum |-> TornFile, progress |-> dir.progress]
    BY <1>2, <1>8
  <2>2. /\ d.files = dir.files /\ d.temps = dir.temps /\ d.manifest = dir.manifest
        /\ d.sum = TornFile /\ d.progress = dir.progress
    BY <2>1
  <2>. QED  BY <1>8, <2>1, <2>2
<1>9. CASE w.kind = "run" /\ d = [dir EXCEPT !.progress = "torn"]
  <2>1. d = [files |-> dir.files, temps |-> dir.temps, manifest |-> dir.manifest,
             sum |-> dir.sum, progress |-> "torn"]
    BY <1>2, <1>9
  <2>2. /\ d.files = dir.files /\ d.temps = dir.temps /\ d.manifest = dir.manifest
        /\ d.sum = dir.sum /\ d.progress = "torn"
    BY <2>1
  <2>. QED  BY <1>9, <2>1, <2>2
<1>. QED  BY <1>3, <1>5, <1>6, <1>7, <1>8, <1>9

\* A manifest torn on the way is of a directory that was finished.
LEMMA TornIsFinished ==
  ASSUME SyntheticInv, NEW c \in Active, command[c].at = "inventory"
  PROVE  Finished
<1>1. Working(command[c])
  BY ActiveWorks
<1>2. /\ command[c].kind \in {"run", "replot"} /\ ~Filling(command[c])
      /\ command[c].kind = "replot" => command[c].update
  BY <1>1 DEF Working, Filling
<1>. QED  BY <1>2 DEF SyntheticInv, Listed

LEMMA FailKeeps == ASSUME SyntheticInv, NEW c \in Commands, FailCommand(c) PROVE SyntheticInv'
<1>. DEFINE w == command[c]
<1>1. c \in Active /\ End(c) /\ single' = single /\ cut' = (cut \/ CutBy(c, FALSE))
  BY DEF FailCommand
<1>2. DirShape /\ Working(w)
  BY <1>1, ActiveWorks
<1>. DEFINE Said(d) == IF w.kind = "run" /\ w.at \notin {"first", "finish"} THEN "failed" ELSE d.progress
<1>3. PICK d \in Left(c) : dir' = [d EXCEPT !.temps = @ \ {c}, !.progress = Said(d)]
  BY DEF FailCommand
<1>4. /\ d = [files |-> d.files, temps |-> d.temps, manifest |-> d.manifest,
              sum |-> d.sum, progress |-> d.progress]
      /\ d.temps = dir.temps
      /\ DOMAIN dir.files \subseteq DOMAIN d.files
      /\ ~PastMarker(c) => \A f \in Own : f \in DOMAIN dir.files => d.files[f] = dir.files[f]
      /\ d.manifest = dir.manifest \/ (d.manifest = TornFile /\ w.at = "inventory")
      /\ d.progress = dir.progress \/ d.progress = "torn"
      /\ w.kind = "replot" /\ w.at \notin {"inventory", "sum"} => d = dir
  BY <1>1, LeftFacts
<1>. DEFINE said == Said(d)
<1>5. said # d.progress => said = "failed"
  OBVIOUS
<1>. HIDE DEF Said, said
<1>6. dir' = [files |-> d.files, temps |-> d.temps \ {c}, manifest |-> d.manifest,
              sum |-> d.sum, progress |-> said]
  BY <1>3, <1>4 DEF said
<1>7. /\ dir'.files = d.files /\ dir'.temps = d.temps \ {c} /\ dir'.manifest = d.manifest
      /\ dir'.sum = d.sum /\ dir'.progress = said
  BY <1>6
<1>8. dir'.manifest # Absent => Finished
  BY <1>1, <1>4, <1>7, TornIsFinished DEF SyntheticInv, Listed
<1>9. single /\ dir'.manifest.is = "whole" =>
        OfOneRun(dir'.manifest.files) /\ OneRenderer(dir'.manifest.files)
  <2>1. dir'.manifest.is = "whole" => dir'.manifest = dir.manifest
    BY <1>4, <1>7 DEF TornFile
  <2>. QED  BY <2>1 DEF SyntheticInv, AloneInDir
<1>10. ASSUME single, ~cut', dir'.progress = "complete" PROVE Verifies(dir')
  <2>1. dir.progress = "complete" /\ ~cut /\ ~CutBy(c, FALSE)
    BY <1>1, <1>4, <1>5, <1>7, <1>10
  <2>2. /\ w.kind = "replot" /\ (w.at = "stage" => Verifies(dir))
        /\ w.at = "replace" => w.update /\ (w.put = 0 => Verifies(Without(c)))
    BY <1>1, <1>10, <2>1 DEF SyntheticInv, AloneInDir, Complete
  <2>3. w.at \notin {"inventory", "sum"} /\ (w.at = "replace" => w.put = 0)
    <3>1. w.at \in {"inventory", "sum"} => w.update
      BY <1>2, <2>2 DEF Working
    <3>2. w.put \in {0, 1}
      BY <1>2 DEF Working
    <3>. QED  BY <2>1, <2>2, <3>1, <3>2 DEF CutBy
  <2>4. w.at \in {"stage", "replace"}
    BY <1>2, <2>2, <2>3 DEF Working
  <2>5. /\ dir'.files = dir.files /\ dir'.temps = dir.temps \ {c} /\ dir'.manifest = dir.manifest
        /\ dir'.sum = dir.sum
    BY <1>4, <1>7, <2>2, <2>3
  <2>6. CASE w.at = "stage"
    <3>1. dir.temps \ {c} = dir.temps
      BY <1>1, <1>2, <2>6 DEF DirShape, Active
    <3>. QED  BY <2>2, <2>5, <2>6, <3>1 DEF Verifies, InventoryOf
  <2>7. CASE w.at = "replace"
    <3>1. Without(c) = [files |-> dir.files, temps |-> dir.temps \ {c}, manifest |-> dir.manifest,
                        sum |-> dir.sum, progress |-> dir.progress]
      <4>1. dir = [files |-> dir.files, temps |-> dir.temps, manifest |-> dir.manifest,
                   sum |-> dir.sum, progress |-> dir.progress]
        BY <1>2 DEF DirShape
      <4>. QED  BY <4>1 DEF Without
    <3>2. /\ Without(c).files = dir.files /\ Without(c).temps = dir.temps \ {c}
          /\ Without(c).manifest = dir.manifest /\ Without(c).sum = dir.sum
      BY <3>1
    <3>3. Verifies(Without(c))
      BY <2>2, <2>3, <2>7
    <3>. QED  BY <2>5, <3>2, <3>3 DEF Verifies, InventoryOf
  <2>. QED  BY <2>4, <2>6, <2>7
<1>11. cut' \in BOOLEAN
  BY <1>1
<1>12. dir' = [files |-> dir'.files, temps |-> dir'.temps, manifest |-> dir'.manifest,
               sum |-> dir'.sum, progress |-> dir'.progress]
  BY <1>6, <1>7
<1>13. dir'.temps \subseteq dir.temps /\ DOMAIN dir.files \subseteq DOMAIN dir'.files
  BY <1>4, <1>7
<1>14. ~PastMarker(c) => \A f \in Own : f \in DOMAIN dir.files => dir'.files[f] = dir.files[f]
  BY <1>4, <1>7
<1>. QED  BY <1>1, <1>8, <1>9, <1>10, <1>11, <1>12, <1>13, <1>14, EndingKeeps

LEMMA KillKeeps == ASSUME SyntheticInv, NEW c \in Commands, KillCommand(c) PROVE SyntheticInv'
<1>. DEFINE w == command[c]
<1>1. c \in Active /\ End(c) /\ single' = single /\ cut' = (cut \/ CutBy(c, TRUE)) /\ dir' \in Left(c)
  BY DEF KillCommand
<1>2. DirShape /\ Working(w)
  BY <1>1, ActiveWorks
<1>3. /\ dir' = [files |-> dir'.files, temps |-> dir'.temps, manifest |-> dir'.manifest,
                 sum |-> dir'.sum, progress |-> dir'.progress]
      /\ dir'.temps = dir.temps
      /\ DOMAIN dir.files \subseteq DOMAIN dir'.files
      /\ ~PastMarker(c) => \A f \in Own : f \in DOMAIN dir.files => dir'.files[f] = dir.files[f]
      /\ dir'.manifest = dir.manifest \/ (dir'.manifest = TornFile /\ w.at = "inventory")
      /\ dir'.progress = dir.progress \/ dir'.progress = "torn"
      /\ w.kind = "replot" /\ w.at \notin {"inventory", "sum"} => dir' = dir
  BY <1>1, LeftFacts
<1>4. dir'.manifest # Absent => Finished
  BY <1>1, <1>3, TornIsFinished DEF SyntheticInv, Listed
<1>5. single /\ dir'.manifest.is = "whole" =>
        OfOneRun(dir'.manifest.files) /\ OneRenderer(dir'.manifest.files)
  <2>1. dir'.manifest.is = "whole" => dir'.manifest = dir.manifest
    BY <1>3 DEF TornFile
  <2>. QED  BY <2>1 DEF SyntheticInv, AloneInDir
<1>6. ASSUME single, ~cut', dir'.progress = "complete" PROVE Verifies(dir')
  <2>1. dir.progress = "complete" /\ ~cut /\ ~CutBy(c, TRUE)
    BY <1>1, <1>3, <1>6
  <2>2. /\ w.kind = "replot" /\ (w.at = "stage" => Verifies(dir))
        /\ w.at = "replace" => w.update
    BY <1>1, <1>6, <2>1 DEF SyntheticInv, AloneInDir, Complete
  <2>3. w.at \in {"inventory", "sum"} => w.update
    BY <1>2, <2>2 DEF Working
  <2>4. w.at \notin {"replace", "inventory", "sum"}
    BY <2>1, <2>2, <2>3 DEF CutBy
  <2>5. w.at = "stage"
    BY <1>2, <2>2, <2>4 DEF Working
  <2>. QED  BY <1>3, <2>2, <2>5
<1>7. cut' \in BOOLEAN
  BY <1>1
<1>. QED  BY <1>1, <1>3, <1>4, <1>5, <1>6, <1>7, EndingKeeps

-----------------------------------------------------------------------------
(* The theorems *)

LEMMA SyntheticInit == E2EInit => SyntheticInv
<1>. SUFFICES ASSUME E2EInit PROVE SyntheticInv
  OBVIOUS
<1>1. /\ dir.files = <<>> /\ dir.temps = {} /\ dir.manifest = Absent /\ dir.sum = Absent
      /\ dir.progress = "none"
      /\ dir = [files |-> dir.files, temps |-> dir.temps, manifest |-> dir.manifest,
                sum |-> dir.sum, progress |-> dir.progress]
  BY DEF E2EInit
<1>2. /\ DOMAIN command = Commands /\ \A c \in Commands : command[c].at = "new"
      /\ single = TRUE /\ cut = FALSE
  BY DEF E2EInit
<1>3. Active = {}
  BY <1>2 DEF Active
<1>4. DirShape
  BY <1>1, <1>2 DEF DirShape
<1>5. \A c \in Commands : Filled(c)
  BY <1>2 DEF Filled, Filling
<1>6. Listed
  BY <1>1, <1>3 DEF Listed
<1>7. AloneInDir
  BY <1>1, <1>3 DEF AloneInDir, Absent, Complete
<1>. QED  BY <1>4, <1>5, <1>6, <1>7 DEF SyntheticInv

\* The inductive invariant holds with any number of commands at the same time.
THEOREM SyntheticInvariance == E2ESpec => []SyntheticInv
<1>1. E2EInit => SyntheticInv
  BY SyntheticInit
<1>2. SyntheticInv /\ [E2ENext]_e2eVars => SyntheticInv'
  <2>1. ASSUME SyntheticInv, UNCHANGED e2eVars PROVE SyntheticInv'
    <3>. USE <2>1 DEF SyntheticInv, e2eVars
    <3>1. DirShape'
      BY DEF DirShape, Working, IsWhole, Commands
    <3>2. (\A c \in Commands : Filled(c))'
      BY DEF Filled, Filling, IsWhole, Commands
    <3>3. Listed'
      BY DEF Listed, Filling, Finished, Own, Written, IsWhole, Active, Commands, Absent
    <3>4. Complete' = Complete
      BY DEF Complete, Without, Verifies, InventoryOf, Active, Commands
    <3>5. AloneInDir'
      BY <3>4 DEF AloneInDir, RunAlone, ReplotAlone, OfOneRun, OneRenderer, IsWhole, Filling,
                  InventoryOf, Active, Commands, Absent, MetricPlots, Timelines
    <3>. QED  BY <3>1, <3>2, <3>3, <3>5
  <2>2. ASSUME SyntheticInv, E2ENext PROVE SyntheticInv'
    <3>1. PICK c \in Commands :
            \/ StartRun(c) \/ FirstProgress(c) \/ Look(c) \/ Write(c)
            \/ StartReplot(c) \/ Render(c) \/ Replace(c)
            \/ WriteManifest(c) \/ WriteSum(c) \/ CompleteRun(c)
            \/ FailCommand(c) \/ KillCommand(c)
      BY <2>2 DEF E2ENext
    <3>. QED  BY <2>2, <3>1, StartRunKeeps, FirstKeeps, LookKeeps, WriteKeeps, StartReplotKeeps,
                 RenderKeeps, PutPlotKeeps, WriteManifestKeeps, WriteSumKeeps, CompleteRunKeeps,
                 FailKeeps, KillKeeps
  <2>. QED  BY <2>1, <2>2
<1>. QED  BY <1>1, <1>2, PTL DEF E2ESpec

\* A directory that verifies is whole and of one run, and "complete" is only said of one.
THEOREM SyntheticRunsAreWhole == E2ESpec => []SyntheticRunIsWhole
<1>1. SyntheticInv => SyntheticRunIsWhole
  <2>. SUFFICES ASSUME SyntheticInv PROVE SyntheticRunIsWhole
    OBVIOUS
  <2>1. VerifiedIsWhole
    <3>. SUFFICES ASSUME Verifies(dir)
                  PROVE  /\ Finished
                         /\ single => OfOneRun(dir.files) /\ OneRenderer(dir.files)
      BY DEF VerifiedIsWhole, Finished, OfOneRun, OneRenderer, IsWhole
    <3>1. /\ dir.manifest.is = "whole" /\ dir.manifest.files = dir.files
          /\ dir.manifest # Absent
      BY DEF Verifies, InventoryOf, Absent
    <3>2. Finished
      BY <3>1 DEF SyntheticInv, Listed
    <3>. QED  BY <3>1, <3>2 DEF SyntheticInv, AloneInDir
  <2>2. CompleteIsVerified
    BY DEF CompleteIsVerified, SyntheticInv, AloneInDir, Complete
  <2>. QED  BY <2>1, <2>2 DEF SyntheticRunIsWhole
<1>. QED  BY <1>1, SyntheticInvariance, PTL

=============================================================================
