--------------------------- MODULE ImpactWorkflow ---------------------------
(* The artifacts of the offline pipeline on disk, and the commands that make  *)
(* them: dataset, run, calibration, thresholds, frozen final test, bundle;    *)
(* the offline replay of a bundle; and the store of raw downloads.  Commands  *)
(* may overlap, fail or be killed; an operator may remove artifacts between   *)
(* commands.  A hash is modelled by the content it is the hash of.            *)
EXTENDS Integers, FiniteSets

CONSTANTS
  Procs,      \* operating system processes that run commands
  Variants,   \* settings (seed, iterations, candidates) that change a result
  Finals,     \* directories for final test artifacts
  Requests,   \* replayed requests: [whole, forecast, known]
  MaxRemovals, \* bound: removals by the operator
  None,
  Torn        \* a file that was opened for writing but not completed

VARIABLES
  group,      \* bound: which of the unrelated commands this behaviour runs
  store,      \* path -> content, None or Torn
  lock,       \* FINAL_TEST.lock.json in the run directory
  proc,       \* process -> the rest of its command
  removals,   \* by the operator; tells one dataset from the next
  tested,     \* history: what final tests evaluated
  stored,     \* history: a raw store reported success
  alone       \* history: no two commands have overlapped

vars == <<group, store, lock, proc, removals, tested, stored, alone>>

Staged == {"dataset", "run", "bundle"}
Selections == {"calibration", "thresholds"}
Replayed == {"output", "manifest"}
Paths == Staged \cup Selections \cup Replayed \cup {"raw"} \cup Finals

Idle == [at |-> "idle"]
Whole == [whole |-> TRUE]

\* A directory for a final test is none of the artifacts, and a whole download is
\* not the absence of one.
ASSUME WorkflowAssumption ==
  /\ Finals \cap (Staged \cup Selections \cup Replayed \cup {"raw"}) = {}
  /\ Whole # None

Init ==
  /\ group \in {"release", "replay", "raw"}
  /\ store = [path \in Paths |-> None]
  /\ lock = None /\ proc = [p \in Procs |-> Idle]
  /\ removals = 0 /\ tested = {} /\ stored = FALSE /\ alone = TRUE

Begin(p, step) ==
  /\ proc[p] = Idle
  /\ proc' = [proc EXCEPT ![p] = step]
  /\ alone' = (alone /\ \A q \in Procs : proc[q] = Idle)
  /\ UNCHANGED <<group, store, lock, removals, tested, stored>>

Continue(p, at) == proc' = [proc EXCEPT ![p].at = at]
Return(p) == proc' = [proc EXCEPT ![p] = Idle]

(* ---------------------- what a command checks first ---------------------- *)

DatasetLoads == store["dataset"] # None

(* The run's files and its dataset are the ones its manifest names.           *)
Verified == store["run"] # None /\ DatasetLoads /\ store["dataset"] = store["run"].data

CalibrationLoads ==
  store["calibration"] \notin {None, Torn} /\ store["calibration"].run = store["run"]

ThresholdsLoad ==
  /\ CalibrationLoads
  /\ store["thresholds"] \notin {None, Torn}
  /\ store["thresholds"].run = store["run"]
  /\ store["thresholds"].cal = store["calibration"]

(* Mutant of Unlocked: a lock that is complete does not count.                *)
UnlockedUnlessRunning == IF lock = None THEN TRUE ELSE lock.status = "complete"

Unlocked == lock = None

(* Mutant of LockMatches: the thresholds are not compared.                    *)
LockMatchesCalibration ==
  lock # None /\ lock.status = "complete" /\ lock.cal = store["calibration"]

(* Export takes exactly the calibration and thresholds of the final test.     *)
LockMatches ==
  /\ lock # None /\ lock.status = "complete"
  /\ lock.cal = store["calibration"] /\ lock.thr = store["thresholds"]

(* ------------------------- commands of a release ------------------------- *)

(* A staged artifact is built next to its destination and renamed at the end. *)
Stage(p, path, content) ==
  store[path] = None /\ Begin(p, [at |-> "rename", path |-> path, what |-> content])

(* The configuration must agree with the synthetic marker of the source.      *)
BuildDataset(p) ==
  /\ group = "release"
  /\ \E marked, configured \in BOOLEAN :
       /\ marked = configured
       /\ Stage(p, "dataset", [build |-> removals, synthetic |-> marked])

TrainRun(p, primary) ==
  /\ group = "release" /\ DatasetLoads
  /\ \E v \in Variants :
       Stage(p, "run", [data |-> store["dataset"], v |-> v, primary |-> primary,
                        synthetic |-> store["dataset"].synthetic])

TrainImpactnet(p) == TrainRun(p, TRUE)

(* A logistic baseline has all that a run has, but cannot be exported.        *)
TrainLogistic(p) == TrainRun(p, FALSE)

Calibrate(p) ==
  /\ group = "release" /\ Verified /\ store["calibration"] = None
  /\ \E v \in Variants : Begin(p, [at |-> "open", path |-> "calibration", v |-> v])

SelectThresholds(p) ==
  /\ group = "release" /\ Verified /\ CalibrationLoads /\ store["thresholds"] = None
  /\ \E v \in Variants : Begin(p, [at |-> "open", path |-> "thresholds", v |-> v])

(* Selections are written in place, long after the check that they are absent *)
(* and with the hashes of the moment.                                         *)
OpenSelection(p) ==
  /\ proc[p].at = "open"
  /\ store' = [store EXCEPT ![proc[p].path] = Torn]
  /\ proc' = [proc EXCEPT ![p] =
       [at |-> "close", path |-> proc[p].path,
        what |-> IF proc[p].path = "calibration"
                 THEN [run |-> store["run"], v |-> proc[p].v]
                 ELSE [run |-> store["run"], cal |-> store["calibration"], v |-> proc[p].v]]]
  /\ UNCHANGED <<group, lock, removals, tested, stored, alone>>

CloseSelection(p) ==
  /\ proc[p].at = "close"
  /\ store' = [store EXCEPT ![proc[p].path] = proc[p].what]
  /\ Return(p)
  /\ UNCHANGED <<group, lock, removals, tested, stored, alone>>

(* The rename refuses a destination that appeared in the meantime.            *)
Rename(p) ==
  /\ proc[p].at = "rename"
  /\ store' = IF store[proc[p].path] # None THEN store
              ELSE [store EXCEPT ![proc[p].path] = proc[p].what]
  /\ Return(p)
  /\ UNCHANGED <<group, lock, removals, tested, stored, alone>>

FinalTest(p) ==
  /\ group = "release" /\ Verified /\ ThresholdsLoad /\ Unlocked
  /\ \E d \in Finals :
       /\ store[d] = None
       /\ Begin(p, [at |-> "claim", path |-> d,
                    what |-> [run |-> store["run"], cal |-> store["calibration"],
                              thr |-> store["thresholds"]]])

(* The lock is written without asking again whether it exists.                *)
ClaimFinalTest(p) ==
  /\ proc[p].at = "claim"
  /\ lock' = [status |-> "in_progress"]
  /\ Continue(p, "evaluate")
  /\ UNCHANGED <<group, store, removals, tested, stored, alone>>

CommitFinalTest(p) ==
  /\ proc[p].at = "evaluate" /\ store[proc[p].path] = None
  /\ store' = [store EXCEPT ![proc[p].path] = proc[p].what]
  /\ tested' = tested \cup {proc[p].what}
  /\ Continue(p, "complete")
  /\ UNCHANGED <<group, lock, removals, stored, alone>>

(* The lock takes the hashes that the two files have now.                     *)
CompleteLock(p) ==
  /\ proc[p].at = "complete"
  /\ lock' = [status |-> "complete", cal |-> store["calibration"], thr |-> store["thresholds"]]
  /\ Return(p)
  /\ UNCHANGED <<group, store, removals, tested, stored, alone>>

Bundle == [run |-> store["run"], cal |-> store["calibration"], thr |-> store["thresholds"],
           synthetic |-> store["run"].synthetic]

ExportBundle(p) ==
  /\ group = "release" /\ Verified /\ store["run"].primary
  /\ ThresholdsLoad /\ LockMatches
  /\ Stage(p, "bundle", Bundle)

(* ----------------------- replay and raw downloads ------------------------ *)

(* The hybrid bundle needs forecasts that were issued and cover every lead;   *)
(* an observation-only bundle, if one is given, serves without them; a        *)
(* request that neither can take ends the replay.                             *)
Route(q, fallback) ==
  IF ~q.whole \/ ~(q.forecast \/ fallback) THEN None
  ELSE IF ~q.known THEN "out_of_domain"
  ELSE IF q.forecast THEN "normal" ELSE "degraded_obs_only"

Replay(p) ==
  /\ group = "replay" /\ store["output"] = None /\ store["manifest"] = None
  /\ \E q \in Requests, fallback \in BOOLEAN :
       /\ Route(q, fallback) # None
       /\ Begin(p, [at |-> "output", what |-> [input |-> q, status |-> Route(q, fallback)]])

(* Mutant of ReplacePath: the manifest is moved into place before the output. *)
ReplacePathManifestFirst(at) == IF at = "output" THEN "manifest" ELSE "output"

(* First the output, then its manifest.                                       *)
ReplacePath(at) == at

ReplaceReplay(p) ==
  /\ proc[p].at \in Replayed
  /\ store' = [store EXCEPT ![ReplacePath(proc[p].at)] = proc[p].what]
  /\ IF proc[p].at = "output" THEN Continue(p, "manifest") ELSE Return(p)
  /\ UNCHANGED <<group, lock, removals, tested, stored, alone>>

(* The name of a raw file is its digest: a file of that name that holds       *)
(* something else is refused.                                                 *)
StoreRaw(p) ==
  /\ group = "raw" /\ store["raw"] \in {None, Whole}
  /\ Begin(p, [at |-> IF store["raw"] = None THEN "create" ELSE "stored"])

(* The file another process created in the meantime is hashed again.          *)
Concurrent == store["raw"] = Whole

(* Exclusive creation decides which process copies.                           *)
CreateRaw(p) ==
  /\ proc[p].at = "create"
  /\ IF store["raw"] = None
     THEN store' = [store EXCEPT !["raw"] = Torn] /\ Continue(p, "copy")
     ELSE UNCHANGED store /\ IF Concurrent THEN Continue(p, "stored") ELSE Return(p)
  /\ UNCHANGED <<group, lock, removals, tested, stored, alone>>

CopyRaw(p) ==
  /\ proc[p].at = "copy"
  /\ store' = [store EXCEPT !["raw"] = Whole]
  /\ Continue(p, "stored")
  /\ UNCHANGED <<group, lock, removals, tested, stored, alone>>

RawStored(p) ==
  /\ proc[p].at = "stored"
  /\ stored' = TRUE
  /\ Return(p)
  /\ UNCHANGED <<group, store, lock, removals, tested, alone>>

(* ---------------------- failures, crashes, operator ---------------------- *)

(* An exception removes what was staged; a final test removes the lock, and a *)
(* replay its output.  A file that was being written stays as it is.          *)
Fail(p) ==
  /\ proc[p] # Idle
  /\ lock' = IF proc[p].at \in {"evaluate", "complete"} THEN None ELSE lock
  /\ store' = IF proc[p].at = "manifest" THEN [store EXCEPT !["output"] = None] ELSE store
  /\ Return(p)
  /\ UNCHANGED <<group, removals, tested, stored, alone>>

(* A killed process leaves everything behind.                                 *)
Crash(p) ==
  /\ proc[p] # Idle
  /\ Return(p)
  /\ UNCHANGED <<group, store, lock, removals, tested, stored, alone>>

(* Bound: the operator removes an artifact only while no command runs, and a  *)
(* replay's output only with its manifest.                                    *)
Remove(path) ==
  /\ \A p \in Procs : proc[p] = Idle
  /\ store[path] # None /\ removals < MaxRemovals
  /\ removals' = removals + 1
  /\ store' = [q \in Paths |-> IF q = path \/ (path = "output" /\ q = "manifest")
                               THEN None ELSE store[q]]
  /\ lock' = IF path = "run" THEN None ELSE lock
  /\ stored' = (stored /\ path # "raw")
  /\ UNCHANGED <<group, proc, tested, alone>>

Next ==
  \/ \E p \in Procs :
       \/ BuildDataset(p) \/ TrainImpactnet(p) \/ TrainLogistic(p)
       \/ Calibrate(p) \/ SelectThresholds(p)
       \/ OpenSelection(p) \/ CloseSelection(p) \/ Rename(p)
       \/ FinalTest(p) \/ ClaimFinalTest(p) \/ CommitFinalTest(p) \/ CompleteLock(p)
       \/ ExportBundle(p)
       \/ Replay(p) \/ ReplaceReplay(p)
       \/ StoreRaw(p) \/ CreateRaw(p) \/ CopyRaw(p) \/ RawStored(p)
       \/ Fail(p) \/ Crash(p)
  \/ \E path \in Paths : Remove(path)

Spec == Init /\ [][Next]_vars

(* ------------------------------ properties ------------------------------- *)

(* An exported bundle holds a primary run that a frozen final test evaluated, *)
(* and thresholds selected for its calibration; a completed lock stands for   *)
(* such a test.  While commands never overlap - whatever fails, crashes or is *)
(* removed - the test evaluated exactly this calibration and these thresholds.*)
ReleaseIsTested ==
  LET Tested(run, cal, thr) ==
        \E t \in tested : t.run = run /\ (alone => t.cal = cal /\ t.thr = thr)
      b == store["bundle"]
  IN /\ b # None => /\ Tested(b.run, b.cal, b.thr)
                    /\ b.run.primary /\ b.thr.cal = b.cal
                    /\ b.synthetic = b.run.data.synthetic
     /\ lock # None /\ lock.status = "complete" => Tested(store["run"], lock.cal, lock.thr)

(* While commands never overlap, the lock of a completed final test stays     *)
(* until its run is removed, and no further test of that run is evaluated.    *)
FinalStep ==
  alone' /\ lock # None /\ lock.status = "complete" /\ store["run"]' # None
    => lock' = lock /\ tested' = tested
AloneTestIsFinal == [][FinalStep]_vars

(* While replays never overlap, a manifest lies next to the very output it    *)
(* was written for, also after a failure or a crash between the two files,    *)
(* and an output called normal had its forecasts.                             *)
AloneReplayIsPaired ==
  alone /\ store["manifest"] # None =>
    /\ store["output"] = store["manifest"]
    /\ store["output"].status = "normal" => store["output"].input.forecast

(* Once a store reported success the raw file is whole and stays so: neither  *)
(* a second process nor a copy that was cut short passes for it.              *)
RawIsWhole == stored => store["raw"] = Whole

(* The two together: files that belong together or to a success are whole.    *)
FilesAreWhole == AloneReplayIsPaired /\ RawIsWhole

(* RETRAINING_RUNBOOK.md: run the final test once.                            *)
FinalTestOnce ==
  \A d, e \in Finals :
    d # e /\ store[d] # None /\ store[e] # None => store[d].run # store[e].run
=============================================================================
