---------------------------- MODULE WaterTraining ----------------------------
(* Training of the custom water model: the dataset read session by session,   *)
(* the readiness assessment and holdout, the artifact files and their         *)
(* publication, and the deletion of sessions that must not lose the sources   *)
(* of any artifact.  Two server processes share the database and the model    *)
(* directory; the artifact lock is held by at most one of them and is let go  *)
(* by the operating system when its holder dies.                              *)
EXTENDS TelemetryWindow

CONSTANTS
  Processes,      \* server processes: the gateway and the internal API
  Sessions,       \* collection sessions of the device
  Recording,      \* session -> its rows, ordered by sequence number
  Scenario,       \* session -> the scenario frozen when it started, or None
  FirstLabels,    \* session -> label of each row before any change
  MinSessions, MinTargets, MinPerClass, MinClassSessions, MinMixed,
  MinScenarios,   \* evidence recommendations
  Recommended,    \* sessions for the strongest tier
  MaxTrainings,   \* bound: trainings that reach the fit
  MaxRelabels,    \* bound: label changes
  None, Torn

VARIABLES
  state,     \* session -> "active", "completed" or "gone"
  labels,    \* session -> label of each row
  lock,      \* the process that holds the artifact lock, or None
  job,       \* process -> what it is doing
  current,   \* artifact served as the current model, or None
  archive,   \* artifacts of the runs directory
  litter,    \* temporary files left by a process that died: artifacts or Torn
  trained, relabelled

vars == <<state, labels, lock, job, current, archive, litter, trained, relabelled>>

Classes == {"safe", "danger"}
Labels == Classes \cup {"unknown"}

(* ------------------------------ the dataset ------------------------------ *)

(* Targets of a session: labelled rows with a complete window.  Unknown rows  *)
(* stay as context; a session without a frozen scenario gives none.           *)
TargetsWith(s, rowLabels) ==
  IF Scenario[s] = None THEN {}
  ELSE {t \in {<<s, i, rowLabels[i]>> : i \in Eligible(Recording[s])} : t[3] \in Classes}

SessionsOf(targets) == {t[1] : t \in targets}
Of(targets, group) == {t \in targets : t[1] \in group}
ClassesOf(targets) == {t[3] : t \in targets}
ScenariosOf(group) == {Scenario[s] : s \in group}

(* Whole scenarios are held out together; with one scenario, whole sessions.  *)
Units(used) ==
  IF Cardinality(ScenariosOf(used)) = 1 THEN {{s} : s \in used}
  ELSE {{s \in used : Scenario[s] = c} : c \in ScenariosOf(used)}

Holdouts(targets) ==
  LET used == SessionsOf(targets) IN
  {test \in {UNION units : units \in SUBSET Units(used)} :
     /\ ClassesOf(Of(targets, test)) = Classes
     /\ ClassesOf(Of(targets, used \ test)) = Classes}

(* A quarter of the sessions, rounded up, at least one and never all.         *)
TestSize(n) == LET quarter == (n + 3) \div 4 IN
               IF quarter > n - 1 THEN n - 1 ELSE quarter

Distance(a, b) == IF a < b THEN b - a ELSE a - b

(* The choice is deterministic: first the size, then ties this model leaves   *)
(* to CHOOSE (balance of the classes, order of the identifiers).              *)
GroupHoldout(targets) ==
  LET size == TestSize(Cardinality(SessionsOf(targets)))
      far(test) == Distance(Cardinality(test), size)
  IN CHOOSE test \in Holdouts(targets) : \A other \in Holdouts(targets) : far(test) <= far(other)

Ready(targets) == Cardinality(SessionsOf(targets)) >= 2 /\ Holdouts(targets) # {}

EvidenceMet(targets) ==
  LET used == SessionsOf(targets)
      with(c) == {s \in used : c \in ClassesOf(Of(targets, {s}))}
  IN /\ Cardinality(used) >= MinSessions
     /\ Cardinality(targets) >= MinTargets
     /\ \A c \in Classes : /\ Cardinality({t \in targets : t[3] = c}) >= MinPerClass
                           /\ Cardinality(with(c)) >= MinClassSessions
     /\ Cardinality(with("safe") \cap with("danger")) >= MinMixed
     /\ Cardinality(ScenariosOf(used)) >= MinScenarios

(* Mutant of EvidenceTier: the number of sessions alone decides.              *)
EvidenceTierByCount(targets) ==
  LET used == SessionsOf(targets) IN
  IF Cardinality(ScenariosOf(used)) = 1 THEN "exploratory"
  ELSE IF Cardinality(used) < Recommended THEN "course_demo" ELSE "stronger_demo"

EvidenceTier(targets) ==
  LET used == SessionsOf(targets)
      train == used \ GroupHoldout(targets)
  IN IF \/ Cardinality(ScenariosOf(used)) = 1
        \/ Cardinality(ScenariosOf(train)) < 2
        \/ ~EvidenceMet(targets)
     THEN "exploratory"
     ELSE IF Cardinality(used) < Recommended THEN "course_demo" ELSE "stronger_demo"

(* The artifact: its provenance, its split and what it claims as evidence.    *)
(* The id stands for the content hash, which covers the time of creation.     *)
Artifact(id, targets) ==
  LET test == GroupHoldout(targets) IN
  [id |-> id, used |-> SessionsOf(targets), targets |-> targets,
   test |-> test, train |-> SessionsOf(targets) \ test, tier |-> EvidenceTier(targets)]

Targets == Sessions \X (UNION {Eligible(Recording[s]) : s \in Sessions}) \X Classes
Artifacts ==
  [id : Nat, used : SUBSET Sessions, targets : SUBSET Targets, test : SUBSET Sessions,
   train : SUBSET Sessions, tier : {"exploratory", "course_demo", "stronger_demo"}]

ASSUME WaterAssumption ==
  /\ IsFiniteSet(Sessions) /\ {MinSessions, MaxTrainings} \subseteq Nat
  /\ \A s \in Sessions : /\ Len(Recording[s]) \in Nat
                         /\ DOMAIN Recording[s] = 1..Len(Recording[s])
                         /\ \A i \in DOMAIN Recording[s] : Recording[s][i].at \in Int
  /\ None \notin Processes /\ None # Torn
  /\ None \notin Artifacts /\ Torn \notin Artifacts
  /\ FirstLabels = [s \in Sessions |-> FirstLabels[s]]
  /\ \A s \in Sessions : FirstLabels[s] \in [DOMAIN Recording[s] -> Labels]

(* ------------------------------- the server ------------------------------ *)

Idle == [at |-> "idle", chosen |-> {}, todo |-> {}, explicit |-> FALSE,
         targets |-> {}, art |-> None, staged |-> None, copy |-> None]

Init ==
  /\ state \in [Sessions -> {"active", "completed"}]
  /\ labels = FirstLabels
  /\ lock = None
  /\ job = [p \in Processes |-> Idle]
  /\ current = None /\ archive = {} /\ litter = {}
  /\ trained = 0 /\ relabelled = 0

Completed == {s \in Sessions : state[s] = "completed"}

StopSession(s) ==
  /\ state[s] = "active"
  /\ state' = [state EXCEPT ![s] = "completed"]
  /\ UNCHANGED <<labels, lock, job, current, archive, litter, trained, relabelled>>

(* A label is saved for a range of rows of a session that exists and has a    *)
(* scenario.  Saving takes no artifact lock: it may fall between two reads.   *)
SaveLabel(s, first, last, l) ==
  /\ relabelled < MaxRelabels
  /\ state[s] # "gone" /\ Scenario[s] # None
  /\ labels' = [labels EXCEPT ![s] = [i \in DOMAIN @ |-> IF i \in first..last THEN l ELSE @[i]]]
  /\ labels' # labels
  /\ relabelled' = relabelled + 1
  /\ UNCHANGED <<state, lock, job, current, archive, litter, trained>>

(* The training request takes the lock and resolves its selection: every      *)
(* completed session, or the sessions asked for, each completed and with a    *)
(* scenario.                                                                  *)
StartTraining(p, asked) ==
  /\ job[p].at = "idle" /\ lock = None /\ trained < MaxTrainings
  /\ \/ asked = {}
     \/ asked \subseteq Completed /\ \A s \in asked : Scenario[s] # None
  /\ lock' = p
  /\ LET chosen == IF asked = {} THEN Completed ELSE asked IN
     job' = [job EXCEPT ![p] = [Idle EXCEPT !.at = "read", !.chosen = chosen,
                                            !.todo = chosen, !.explicit = asked # {}]]
  /\ UNCHANGED <<state, labels, current, archive, litter, trained, relabelled>>

(* Each session's rows and labels are read in a transaction of their own.     *)
ReadSession(p, s) ==
  /\ job[p].at = "read" /\ s \in job[p].todo
  /\ job' = [job EXCEPT ![p].todo = @ \ {s},
                        ![p].targets = @ \cup TargetsWith(s, labels[s])]
  /\ UNCHANGED <<state, labels, lock, current, archive, litter, trained, relabelled>>

(* The evaluation refuses a split that leaks a scenario, or whose training    *)
(* part lacks a class.                                                        *)
EvaluationAdmits(a) ==
  /\ ClassesOf(Of(a.targets, a.train)) = Classes
  /\ LET shared == ScenariosOf(a.train) \cap ScenariosOf(a.test) IN
     IF Cardinality(ScenariosOf(a.used)) = 1 THEN Cardinality(shared) = 1 ELSE shared = {}

Accepted(p) ==
  /\ Ready(job[p].targets)
  /\ job[p].explicit => SessionsOf(job[p].targets) = job[p].chosen
  /\ EvaluationAdmits(Artifact(trained + 1, job[p].targets))

Release(p) == lock' = None /\ job' = [job EXCEPT ![p] = Idle]

(* 422: not ready, or a session asked for has no eligible target.             *)
RejectTraining(p) ==
  /\ job[p].at = "read" /\ job[p].todo = {} /\ ~Accepted(p)
  /\ Release(p)
  /\ UNCHANGED <<state, labels, current, archive, litter, trained, relabelled>>

(* The fit; its result is being written to the staged file.                   *)
Fit(p) ==
  /\ job[p].at = "read" /\ job[p].todo = {} /\ Accepted(p)
  /\ trained' = trained + 1
  /\ job' = [job EXCEPT ![p].at = "stage", ![p].staged = Torn,
                        ![p].art = Artifact(trained', job[p].targets)]
  /\ UNCHANGED <<state, labels, lock, current, archive, litter, relabelled>>

(* The staged file is whole and loads; the copy for the archive is begun.     *)
StageArtifact(p) ==
  /\ job[p].at = "stage"
  /\ job' = [job EXCEPT ![p].at = "copy", ![p].staged = job[p].art, ![p].copy = Torn]
  /\ UNCHANGED <<state, labels, lock, current, archive, litter, trained, relabelled>>

CopyArtifact(p) ==
  /\ job[p].at = "copy"
  /\ job' = [job EXCEPT ![p].at = "archive", ![p].copy = job[p].staged]
  /\ UNCHANGED <<state, labels, lock, current, archive, litter, trained, relabelled>>

(* os.replace: the archive entry appears whole, before the current model.     *)
PublishArchive(p) ==
  /\ job[p].at = "archive"
  /\ archive' = archive \cup {job[p].copy}
  /\ job' = [job EXCEPT ![p].at = "publish", ![p].copy = None]
  /\ UNCHANGED <<state, labels, lock, current, litter, trained, relabelled>>

PublishCurrent(p) ==
  /\ job[p].at = "publish"
  /\ current' = job[p].staged
  /\ Release(p)
  /\ UNCHANGED <<state, labels, archive, litter, trained, relabelled>>

(* A full disk, a model that cannot be fitted: the temporaries are unlinked.  *)
FailTraining(p) ==
  /\ job[p].at \in {"stage", "copy", "archive", "publish"}
  /\ Release(p)
  /\ UNCHANGED <<state, labels, current, archive, litter, trained, relabelled>>

(* ------------------------------- deletion -------------------------------- *)

(* Every file a deletion looks at: the current model, the temporaries beside  *)
(* it and everything in the runs directory, whatever its name.                *)
ArtifactFiles ==
  (IF current = None THEN {} ELSE {current}) \cup archive \cup litter
  \cup UNION {{job[p].staged, job[p].copy} \ {None} : p \in Processes}

(* A file that cannot be verified blocks every deletion.                      *)
Verified(file) == file # Torn

Referenced(s) == \E file \in ArtifactFiles : Verified(file) /\ s \in file.used

(* Test runs and sensor profiles that refer to the session block its deletion *)
(* too: see SimulationStore.                                                  *)
StartDelete(p, s) ==
  /\ job[p].at = "idle" /\ lock = None
  /\ state[s] # "gone"
  /\ lock' = p
  /\ job' = [job EXCEPT ![p] = [Idle EXCEPT !.at = "delete", !.chosen = {s}]]
  /\ UNCHANGED <<state, labels, current, archive, litter, trained, relabelled>>

(* Mutant of MayDelete: only the current model protects its sources.          *)
MayDeleteUnlessCurrent(s) ==
  state[s] = "completed" /\ (current = None \/ s \notin current.used)

MayDelete(s) ==
  /\ state[s] = "completed"
  /\ \A file \in ArtifactFiles : Verified(file)
  /\ ~Referenced(s)

FinishDelete(p) ==
  /\ job[p].at = "delete"
  /\ state' = [s \in Sessions |-> IF s \in job[p].chosen /\ MayDelete(s) THEN "gone" ELSE state[s]]
  /\ Release(p)
  /\ UNCHANGED <<labels, current, archive, litter, trained, relabelled>>

(* The process dies: its lock is let go, its temporary files stay.            *)
Crash(p) ==
  /\ job[p].at # "idle"
  /\ litter' = litter \cup ({job[p].staged, job[p].copy} \ {None})
  /\ job' = [job EXCEPT ![p] = Idle]
  /\ lock' = IF lock = p THEN None ELSE lock
  /\ UNCHANGED <<state, labels, current, archive, trained, relabelled>>

Next ==
  \/ \E s \in Sessions :
       \/ StopSession(s)
       \/ \E i, j \in DOMAIN labels[s], l \in Labels : i <= j /\ SaveLabel(s, i, j, l)
  \/ \E p \in Processes :
       \/ \E asked \in SUBSET Sessions : StartTraining(p, asked)
       \/ \E s \in Sessions : ReadSession(p, s) \/ StartDelete(p, s)
       \/ RejectTraining(p) \/ Fit(p)
       \/ StageArtifact(p) \/ CopyArtifact(p) \/ PublishArchive(p) \/ PublishCurrent(p)
       \/ FailTraining(p) \/ FinishDelete(p) \/ Crash(p)

Spec == Init /\ [][Next]_vars

(* ------------------------------ properties ------------------------------- *)

Published == archive \cup (IF current = None THEN {} ELSE {current})

TypeOK ==
  /\ state \in [Sessions -> {"active", "completed", "gone"}]
  /\ \A s \in Sessions : labels[s] \in [DOMAIN Recording[s] -> Labels]
  /\ lock \in Processes \cup {None}
  /\ \A p \in Processes : job[p].at # "idle" <=> lock = p
  /\ \A a \in Published : a.used \subseteq Sessions /\ a.id \in 1..MaxTrainings

(* No session whose rows trained an artifact that can still be found -        *)
(* current, archived or left over by a crash - is ever deleted, by either     *)
(* process and whatever fails in between (simulation_service.py: a file that  *)
(* cannot be read is taken to refer to every session).                        *)
SourcesSurvive ==
  \A a \in ArtifactFiles \ {Torn} : \A s \in a.used : state[s] # "gone"

(* The current model is always one of the archived runs, and no published     *)
(* file is ever half written: a reader of the model takes no lock.            *)
CurrentIsArchived ==
  /\ current # None => current \in archive
  /\ Torn \notin Published

(* The two together: what the server shows or may load as a trained model is  *)
(* whole, archived, and traceable to rows that still exist.                   *)
ModelIsTraceable == SourcesSurvive /\ CurrentIsArchived

(* The holdout of a published artifact leaks nothing: no session on both      *)
(* sides, no scenario on both sides unless there is only one, both classes to *)
(* learn from and both to test on.                                            *)
HonestSplit ==
  \A a \in Published :
    /\ a.train \cap a.test = {} /\ a.train \cup a.test = a.used
    /\ \A part \in {a.train, a.test} :
         \A c \in Classes : \E t \in a.targets : t[1] \in part /\ t[3] = c
    /\ \A s \in a.train, r \in a.test : Scenario[s] = Scenario[r]
         => \A q \in a.used : Scenario[q] = Scenario[s]

(* What an artifact claims as evidence is true of the split it was tested on: *)
(* above "exploratory" it was tested on a scenario it never saw, after        *)
(* learning from at least two.                                                *)
EvidenceIsTrue ==
  \A a \in Published : a.tier # "exploratory" =>
    /\ \A s \in a.train, r \in a.test : Scenario[s] # Scenario[r]
    /\ \E s, r \in a.train : Scenario[s] # Scenario[r]
    /\ Cardinality(a.used) >= MinSessions

(* The two together: a published artifact was evaluated as it says.           *)
HonestEvaluation == HonestSplit /\ EvidenceIsTrue

(* A target was trained with the window its features claim: Window rows that  *)
(* follow one another in the recording, each contiguous with the one before,  *)
(* also when the clock was set back during the session; and its session had a *)
(* frozen scenario.                                                           *)
WindowsAreWhole ==
  \A a \in Published : \A t \in a.targets :
    LET rows == Recording[t[1]] i == t[2] IN
    /\ i >= Window /\ Scenario[t[1]] # None
    /\ \A k \in (i - Window + 1)..(i - 1) : Contiguous(rows[k], rows[k + 1])
=============================================================================
