-------------------------- MODULE MCOfficialModel --------------------------
(* Small instances of OfficialModel, told apart by `alone`: a thread in each  *)
(* server process, whose requests interleave and are about one device; or one *)
(* request at a time, in either process and about two devices, whose failures *)
(* are all of a kind its route expects.                                       *)
EXTENDS OfficialModel, TLC

CONSTANTS gateway, main, t1, t2

TwoHomes == t1 :> gateway @@ t2 :> main

VARIABLE alone

OneRequest == \A t, u \in Threads : req[t] # None /\ req[u] # None => t = u
DevicesInUse ==
  {d \in Devices : profile[d] # None \/ d \in official \/ session[d] # "absent"}
OneDevice == \A d, e \in DevicesInUse : d = e
ExpectedFailures == \A t \in Threads : ~TrainAbandoned(t)

MCInit == Init /\ alone \in BOOLEAN
MCNext ==
  /\ Next
  /\ UNCHANGED alone
  /\ IF alone THEN OneRequest' /\ ExpectedFailures ELSE OneDevice'
\* A request alone is never kept from ending.
MCSpec == MCInit /\ [][MCNext]_<<vars, alone>> /\ Fairness

-----------------------------------------------------------------------------

\* One request at a time, a running sensor test keeps the active model and the
\* profile it was started with.
AloneTestIsFrozen == alone => ActivationFrozen /\ ProfileFrozen

\* When every failure of a training is one its route expects, no run stays
\* running for ever, through crashes and restarts (experiment_store.py:239 "so
\* an old row cannot block the unique single-flight index forever").
AloneRunEnds == \A r \in Runs : alone /\ run[r] = "running" ~> run[r] # "running"
=============================================================================
