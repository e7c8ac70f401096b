-------------------------- MODULE MCImpactWorkflow --------------------------
(* A small instance of ImpactWorkflow: two processes, two settings, two final *)
(* test directories and two datasets; and, apart from it, one directory of    *)
(* SyntheticRun with three commands, two at a time, and two renderers.        *)
EXTENDS ImpactWorkflow, SyntheticRun, TLC

CONSTANTS p1, p2, f1, f2, v1, v2, r1, r2

AllRequests == [whole : BOOLEAN, forecast : BOOLEAN, known : BOOLEAN]

Symmetric == Permutations(Procs) \cup Permutations(Finals) \cup Permutations(Variants)

MCInit == Init /\ E2EInit
MCNext ==
  \/ IsEmpty(dir) /\ Active = {} /\ Next /\ UNCHANGED e2eVars
  \/ group = "raw" /\ Init /\ E2ENext /\ UNCHANGED vars
MCSpec == MCInit /\ [][MCNext]_<<vars, e2eVars>>
=============================================================================
