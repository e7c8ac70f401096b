--------------------------- MODULE MCWaterTraining ---------------------------
(* A small instance of WaterTraining: four recordings of two to five rows, two *)
(* rows to a window.  One recording has an invalid echo, one was made while   *)
(* the clock was set back, one has no frozen scenario.                        *)
EXTENDS WaterTraining, TLC

CONSTANTS s1, s2, s3, s4, calm, swell, storm

Row(s, i, ok, at) == [session |-> s, id |-> i, seq |-> i, up |-> i, ok |-> ok, at |-> at]

Recordings ==
  s1 :> <<Row(s1, 1, TRUE, 1), Row(s1, 2, TRUE, 2), Row(s1, 3, TRUE, 3)>>
  @@ s2 :> <<Row(s2, 1, TRUE, 1), Row(s2, 2, TRUE, 3), Row(s2, 3, TRUE, 2),
             Row(s2, 4, TRUE, 3), Row(s2, 5, TRUE, 4)>>
  @@ s3 :> <<Row(s3, 1, TRUE, 1), Row(s3, 2, TRUE, 2), Row(s3, 3, FALSE, 3),
             Row(s3, 4, TRUE, 4), Row(s3, 5, TRUE, 5)>>
  @@ s4 :> <<Row(s4, 1, TRUE, 1), Row(s4, 2, TRUE, 2)>>

Scenarios == s1 :> calm @@ s2 :> swell @@ s3 :> storm @@ s4 :> None

(* Every session but the first has been stopped when the servers start.       *)
MCInit == Init /\ \A s \in {s2, s3, s4} : state[s] = "completed"
MCSpec == MCInit /\ [][Next]_vars

Symmetry == Permutations(Processes)

Labelling ==
  s1 :> <<"safe", "danger", "safe">>
  @@ s2 :> <<"safe", "danger", "safe", "unknown", "danger">>
  @@ s3 :> <<"safe", "safe", "danger", "danger", "danger">>
  @@ s4 :> <<"safe", "danger">>
=============================================================================
