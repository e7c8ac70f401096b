-------------------------- MODULE MCImpactPipeline --------------------------
(* A small instance of ImpactPipeline: two sites in zones of their own, 20    *)
(* hours, two hours ahead.  The catalogues are the subsets of a pool of       *)
(* events around the two split boundaries, in the order of the catalogue.     *)
(* Apart from it, ShadowMonitoring: five predictions, two versions of the      *)
(* reviewed catalogue and two report jobs.                                    *)
EXTENDS ImpactPipeline, ShadowMonitoring

CONSTANTS z1, z2, e1, e2, e3, e4, e5, e6, e7, e8, e9, s1

Zones == <<z1, z2>>

Ev(id, zone, onset, end, conf, prec) ==
  [id |-> id, zone |-> zone, onset |-> onset, end |-> end, peak |-> None,
   conf |-> conf, prec |-> prec, storm |-> IF id \in {e3, e4} THEN s1 ELSE None]

(* e1 is training evidence; e2 is active over the end of training; e3 and e4  *)
(* are one storm, e9 follows; e5 has a wide onset interval; e6 is N; e7 and   *)
(* e8 are doubtful.                                                           *)
Pool == <<
  Ev(e1, z1, 3, 3, "A", "exact"),
  Ev(e2, z1, 8, 10, "B", "exact"),
  Ev(e6, z1, 4, 14, "N", "interval"),
  Ev(e7, z1, 2, 5, "U", "exact"),
  Ev(e3, z1, 14, 14, "A", "exact"),
  Ev(e9, z1, 15, 15, "B", "exact"),
  [Ev(e5, z2, 4, 6, "B", "interval") EXCEPT !.peak = 5],
  Ev(e8, z2, 12, None, "B", "date"),
  Ev(e4, z2, 13, 14, "A", "exact")>>

PoolCatalogs == {SelectSeq(Pool, LAMBDA e : e.id \in ids) : ids \in SUBSET {Pool[i].id : i \in DOMAIN Pool}}

(* Training evidence, an event over the end of training, one in the other     *)
(* zone right after it or later.                                              *)
BoundaryCatalogs ==
  {<<Ev(e1, z1, 3, 3, "A", "exact"), Ev(e6, z1, 4, 14, "N", "interval"), Ev(e2, z1, 8, 10, "B", "exact")>> \o rest :
     rest \in {<<>>, <<Ev(e4, z2, 10, 10, "A", "exact")>>, <<Ev(e4, z2, 14, 14, "A", "exact")>>}}

Issued == {[site |-> s, issue |-> i, valid |-> v] : s \in {1, 2}, i \in {0, 6, 11}, v \in {5, 9, 13}}

DueHours == <<<<1, 1>>, <<1, 2>>, <<2, 2>>, <<1, 4>>, <<1, 8>>>>

\* The second version moves an event, rejects one and adds one of the other zone.
Versions ==
  <<<<Ev(e1, z1, 3, 3, "A", "exact"), Ev(e2, z1, 5, 5, "B", "exact"), Ev(e6, z1, 4, 6, "N", "interval")>>,
    <<Ev(e1, z1, 4, 4, "A", "exact"), Ev(e2, z1, 5, 5, "U", "exact"), Ev(e4, z2, 2, 2, "A", "exact"),
      Ev(e9, z1, 8, 8, "B", "exact")>>>>

FrozenRows == {[id |-> 1, site |-> 1, t |-> 1, level |-> 0], [id |-> 2, site |-> 1, t |-> 2, level |-> 1],
               [id |-> 3, site |-> 2, t |-> 1, level |-> 0]}

\* The log grows and the catalogue changes only where a job may still read them; the
\* second job starts on a full log of alerts.
StillRead == \A j \in Reports : job[j].at \in {"new", "hash", "catalog", "evaluate"}
Focused ==
  /\ StillRead \/ UNCHANGED <<asked, audit, version>>
  /\ (\E j \in Reports : job[j].at \in {"catalog", "evaluate"}) => UNCHANGED audit
  /\ (\A j \in Reports : job'[j].at # "new") =>
       asked = Len(DueHours) /\ Len(audit.rows) >= 4 /\ \A i \in DOMAIN audit.rows : audit.rows[i].level = 1

MCInit == Init /\ MonitorInit
MCNext ==
  \/ MonitorInit /\ Next /\ UNCHANGED monitorVars
  \/ catalog = <<>> /\ ~strict /\ data = None /\ MonitorNext /\ UNCHANGED vars /\ Focused
MCSpec == MCInit /\ [][MCNext]_<<vars, monitorVars>>
=============================================================================
