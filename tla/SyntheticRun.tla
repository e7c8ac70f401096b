---------------------------- MODULE SyntheticRun ----------------------------
(***************************************************************************)
(* One directory of the synthetic end-to-end command (synthetic_e2e.py):   *)
(* runs that fill it stage by stage, replots that put new plots into it,   *)
(* the manifest of its files and the progress file a watcher reads.        *)
(* Commands may fail or be killed at every step; a file being written may  *)
(* stay torn.  One file stands for the files a stage writes.               *)
(***************************************************************************)
EXTENDS Naturals, Sequences, FiniteSets

CONSTANTS
  MaxCommands, \* bound: commands an operator starts, numbered in order
  Renderers,   \* versions of the software that draws the plots
  MaxAtOnce    \* bound: commands active at the same time

VARIABLES
  dir,      \* the directory: files, temporary directories, manifest, its checksum, progress
  command,  \* what each command does
  single,   \* history: no two commands were ever active together
  cut       \* history: a replot was stopped with its plots and the manifest apart

e2eVars == <<dir, command, single, cut>>

-----------------------------------------------------------------------------
\* The stages of a run.

\* A stage writes its file: over whatever is there ("write"), only where there is
\* none ("create"), or not at all ("look", "plots").  It fits parameters of the
\* model on some splits and shows results on others.
Step(file, how, fits, shows) == [file |-> file, how |-> how, fits |-> fits, shows |-> shows]

\* What the parts of the model are fitted on.
PreprocessedOn == {"train"}
SampledFrom == {"train"}
TrainedOn == {"train"}
CalibratedOn == {"validation"}

\* Predictions are refused when a batch holds a row of another split.
Evaluated(split) == {split}

\* A threshold chosen on the rows the result is shown for.
CalibratedOnTest == {"validation", "test"}

ResolvedConfig == Step("config", "write", {}, {})
LookForData == Step("tables", "look", {}, {})
WriteTables == Step("tables", "write", {}, {})
CreateMarker == Step("marker", "create", {}, {})
BuildIndex == Step("index", "write", {}, {})
FitPreprocessing == Step("preprocessing", "write", PreprocessedOn, {})
TrainTcn == Step("history", "write", SampledFrom \cup TrainedOn, {"validation"})
CalibrateTcn == Step("validation", "write", CalibratedOn, Evaluated("validation"))
FrozenTest == Step("test", "write", {}, Evaluated("test"))
DrawPlots == Step("plots", "plots", {}, {"test"})
ExportModel == Step("bundle", "create", {}, {})
ShadowSmoke == Step("smoke", "write", {}, {"test"})

Program ==
  <<ResolvedConfig, LookForData, WriteTables, CreateMarker, BuildIndex, FitPreprocessing,
    TrainTcn, CalibrateTcn, FrozenTest, DrawPlots, ExportModel, ShadowSmoke>>

\* The files the plots are drawn from; losses, curves and errors; the timelines.
Sources == {"config", "tables", "history", "validation", "test"}
MetricPlots == "metrics"
Timelines == "timelines"
Plots == <<MetricPlots, Timelines>>

Written == {Program[i].file : i \in {j \in DOMAIN Program : Program[j].how \in {"write", "create"}}}
PlotStep == CHOOSE i \in DOMAIN Program : Program[i].how = "plots"
\* What only the run that created the marker writes.
Own == Written \ {"config", "tables"}

-----------------------------------------------------------------------------
\* The directory.

Content(from, learned, by) == [from |-> from, learned |-> learned, by |-> by, whole |-> TRUE]
With(files, f, content) == [g \in DOMAIN files \cup {f} |-> IF g = f THEN content ELSE files[g]]

Absent == [is |-> "absent"]
TornFile == [is |-> "torn"]
\* The manifest lists every file below the directory but itself, its checksum and
\* the progress file: also those of a temporary directory.
InventoryOf(d) == [is |-> "whole", files |-> d.files, temps |-> d.temps]

\* A check of the names alone.
VerifiesNames(d) ==
  /\ d.manifest.is = "whole" /\ d.sum = d.manifest
  /\ DOMAIN d.manifest.files = DOMAIN d.files /\ d.manifest.temps = d.temps

\* verify_synthetic_run_manifest.
Verifies(d) == d.manifest.is = "whole" /\ d.sum = d.manifest /\ d.manifest = InventoryOf(d)

IsEmpty(d) == /\ DOMAIN d.files = {} /\ d.temps = {}
              /\ d.manifest = Absent /\ d.progress = "none"

-----------------------------------------------------------------------------
\* The commands.

Commands == 1..MaxCommands
Active == {c \in Commands : command[c].at \notin {"new", "ended"}}
AtStep(c, how) == command[c].at = "stage" /\ Program[command[c].step].how = how
Enter(c, at) == command' = [command EXCEPT ![c].at = at]
End(c) == command' = [command EXCEPT ![c] = [at |-> "ended"]]

StartCommand(c, kind, at, step, by) ==
  /\ command[c].at = "new" /\ \A b \in 1..c - 1 : command[b].at # "new"
  /\ Cardinality(Active) < MaxAtOnce
  /\ command' = [command EXCEPT ![c] = [at |-> at, kind |-> kind, step |-> step, by |-> by, knows |-> {},
                                        plot |-> Content({}, {}, {}), put |-> 0, update |-> FALSE]]
  /\ single' = (single /\ Active = {})
  /\ UNCHANGED <<dir, cut>>

\* run_synthetic_e2e: the directory must be empty; the first progress comes later.
StartRun(c) == IsEmpty(dir) /\ \E by \in Renderers : StartCommand(c, "run", "first", 1, by)

FirstProgress(c) ==
  /\ command[c].at = "first"
  /\ dir' = [dir EXCEPT !.progress = "running"]
  /\ Enter(c, "stage") /\ UNCHANGED <<single, cut>>

\* The next stage, or the inventory after the last.
Advance(w) == IF w.step = Len(Program) THEN [w EXCEPT !.at = "inventory"]
              ELSE [w EXCEPT !.step = @ + 1, !.at = "stage"]

\* The directory of the dataset is found empty: a check that claims nothing.
Look(c) ==
  /\ AtStep(c, "look") /\ {"tables", "marker"} \cap DOMAIN dir.files = {}
  /\ command' = [command EXCEPT ![c] = Advance(@)]
  /\ dir' = [dir EXCEPT !.progress = "running"]
  /\ UNCHANGED <<single, cut>>

Knows(c) == command[c].knows \cup Program[command[c].step].fits
Result(c) == Content({c}, Knows(c) \cup Program[command[c].step].shows, {})
\* Exclusive creation, and the bundle's check, refuse a file that is there.
MayWrite(c) ==
  \/ AtStep(c, "write")
  \/ AtStep(c, "create") /\ Program[command[c].step].file \notin DOMAIN dir.files

Write(c) ==
  /\ MayWrite(c)
  /\ dir' = [dir EXCEPT !.files = With(@, Program[command[c].step].file, Result(c)), !.progress = "running"]
  /\ command' = [command EXCEPT ![c] = Advance([@ EXCEPT !.knows = Knows(c)])]
  /\ UNCHANGED <<single, cut>>

\* replot_synthetic_run_artifacts, called by an operator or as a stage of a run: a
\* directory with a manifest must verify before anything is drawn.
StartReplot(c) == \E by \in Renderers : StartCommand(c, "replot", "stage", PlotStep, by)

Render(c) ==
  /\ AtStep(c, "plots") /\ (dir.manifest = Absent \/ Verifies(dir))
  /\ Sources \subseteq DOMAIN dir.files /\ \A f \in Sources : dir.files[f].whole
  /\ dir' = [dir EXCEPT !.temps = @ \cup {c}]
  /\ command' = [command EXCEPT ![c].at = "replace", ![c].update = dir.manifest # Absent,
       ![c].plot = Content(UNION {dir.files[f].from : f \in Sources}, {"test"}, {command[c].by})]
  /\ UNCHANGED <<single, cut>>

\* Plots are put in place one by one.  A replot of a directory without a manifest
\* then raises: "cannot update a manifest that does not yet exist".
Replace(c) ==
  LET w == command[c] last == w.put + 1 = Len(Plots) IN
  /\ w.at = "replace"
  /\ dir' = [dir EXCEPT !.files = With(@, Plots[w.put + 1], w.plot), !.temps = IF last THEN @ \ {c} ELSE @]
  /\ \/ ~last /\ command' = [command EXCEPT ![c].put = w.put + 1]
     \/ last /\ w.kind = "run" /\ command' = [command EXCEPT ![c] = Advance([w EXCEPT !.put = 0])]
     \/ last /\ w.kind = "replot" /\ w.update /\ Enter(c, "inventory")
     \/ last /\ w.kind = "replot" /\ ~w.update /\ End(c)
  /\ UNCHANGED <<single, cut>>

\* _write_run_manifest: the manifest, then the checksum of the manifest on disk.
WriteManifest(c) ==
  /\ command[c].at = "inventory"
  /\ dir' = [dir EXCEPT !.manifest = InventoryOf(dir)]
  /\ Enter(c, "sum") /\ UNCHANGED <<single, cut>>

WriteSum(c) ==
  /\ command[c].at = "sum"
  /\ dir' = [dir EXCEPT !.sum = dir.manifest]
  /\ \/ command[c].kind = "run" /\ Enter(c, "finish")
     \/ command[c].kind = "replot" /\ End(c)
  /\ UNCHANGED <<single, cut>>

CompleteRun(c) ==
  /\ command[c].at = "finish"
  /\ dir' = [dir EXCEPT !.progress = "complete"]
  /\ End(c) /\ UNCHANGED <<single, cut>>

-----------------------------------------------------------------------------
\* Failures and kills.

\* The directories a command that stops here can leave: what it writes may be torn.
Left(c) ==
  LET w == command[c] IN
  {dir}
  \cup {[dir EXCEPT !.files = With(@, Program[w.step].file, [Result(c) EXCEPT !.whole = FALSE])] : x \in {y \in {c} : MayWrite(y)}}
  \cup {[dir EXCEPT !.manifest = TornFile] : x \in {y \in {w.at} : y = "inventory"}}
  \cup {[dir EXCEPT !.sum = TornFile] : x \in {y \in {w.at} : y = "sum"}}
  \cup {[dir EXCEPT !.progress = "torn"] : x \in {y \in {w.kind} : y = "run"}}

\* Its plots and the manifest no longer belong together, or a temporary directory stays.
CutBy(c, killed) ==
  /\ command[c].kind = "replot" /\ command[c].update
  /\ \/ command[c].at = "replace" /\ (killed \/ command[c].put > 0)
     \/ command[c].at \in {"inventory", "sum"}

\* Any exception: the temporary directory is removed and a run says "failed", except
\* outside of the handler.
FailCommand(c) ==
  /\ c \in Active
  /\ \E d \in Left(c) :
       dir' = [d EXCEPT !.temps = @ \ {c},
                        !.progress = IF command[c].kind = "run" /\ command[c].at \notin {"first", "finish"}
                                     THEN "failed" ELSE @]
  /\ End(c) /\ cut' = (cut \/ CutBy(c, FALSE)) /\ UNCHANGED single

KillCommand(c) ==
  /\ c \in Active /\ dir' \in Left(c)
  /\ End(c) /\ cut' = (cut \/ CutBy(c, TRUE)) /\ UNCHANGED single

E2EInit ==
  /\ dir = [files |-> <<>>, temps |-> {}, manifest |-> Absent, sum |-> Absent, progress |-> "none"]
  /\ command = [c \in Commands |-> [at |-> "new"]]
  /\ single = TRUE /\ cut = FALSE

E2ENext ==
  \E c \in Commands :
    \/ StartRun(c) \/ FirstProgress(c) \/ Look(c) \/ Write(c)
    \/ StartReplot(c) \/ Render(c) \/ Replace(c)
    \/ WriteManifest(c) \/ WriteSum(c) \/ CompleteRun(c)
    \/ FailCommand(c) \/ KillCommand(c)

E2ESpec == E2EInit /\ [][E2ENext]_e2eVars

-----------------------------------------------------------------------------

\* A directory that verifies holds every file of a run.  Whatever else ran, the
\* model, its results and the report are whole and of the one run that created the
\* marker of the dataset, and the model was fitted on no test row.  With one command
\* at a time that goes for the configuration, the data and the plots as well, and
\* the plots were drawn by one renderer (synthetic_e2e.py:1448 "Verify the complete
\* synthetic run inventory").
VerifiedIsWhole ==
  Verifies(dir) =>
    /\ Written \subseteq DOMAIN dir.files
    /\ \A f \in Own : dir.files[f].whole /\ dir.files[f].from = dir.files["marker"].from
    /\ "test" \notin dir.files["bundle"].learned
    /\ single =>
         /\ \A f \in DOMAIN dir.files : dir.files[f].whole /\ dir.files[f].from = dir.files["marker"].from
         /\ dir.files[MetricPlots].by = dir.files[Timelines].by

\* Whoever reads "complete" finds a directory that verifies, once no command is
\* active and unless a replot was cut short (synthetic_e2e.py:210 "so a detached long
\* run is never mistaken for an exit").
CompleteIsVerified == single /\ ~cut /\ Active = {} /\ dir.progress = "complete" => Verifies(dir)

\* Both promises about the directory of a run.
SyntheticRunIsWhole == VerifiedIsWhole /\ CompleteIsVerified
=============================================================================
