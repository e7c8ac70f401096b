-------------------------- MODULE ShadowMonitoring --------------------------
(***************************************************************************)
(* The audit log of the shadow service (serve/app.py) and the reports made *)
(* from it (monitoring/reports.py): a job reads the log, hashes it, reads  *)
(* the reviewed event catalogue, hashes the file after the evaluation, and *)
(* puts its report and the checksum in place, while the service goes on    *)
(* logging and reviewers replace the catalogue.  A hash is modelled by the *)
(* content it is of, that of a catalogue by its index in Reviewed.         *)
(***************************************************************************)
EXTENDS ImpactData

CONSTANTS
  Due,        \* <<site, hour>> of the predictions asked for, in order
  Reviewed,   \* versions of the event catalogue, one after the other
  Reference,  \* rows of the frozen reference log
  Window,     \* hours of a rolling window
  Steps,      \* hours between two windows that a job may ask for
  MaxFaults,  \* bound: requests that go wrong or are repeated
  MaxReports  \* bound: jobs that write a report, numbered in order

ASSUME MonitoringAssumption ==
  /\ Len(Due) \in Nat /\ DOMAIN Due = 1..Len(Due)
  /\ \A i \in DOMAIN Due : Due[i][1] \in Sites /\ Due[i][2] \in Int
  /\ Len(Reviewed) \in Nat \ {0} /\ DOMAIN Reviewed = 1..Len(Reviewed)
  /\ \A i \in DOMAIN Reviewed : IsCatalog(Reviewed[i])
  /\ Window \in Nat \ {0} /\ Steps \subseteq Nat \ {0} /\ MaxReports \in Nat

VARIABLES
  asked,      \* number of Due predictions asked for
  audit,      \* the log: rows, and how many requests were served, refused and broken
  version,    \* the catalogue on disk: an index of Reviewed
  job,        \* what each job does
  out,        \* the report and its checksum file
  apart       \* history: a job wrote while another was, or was killed, between its two files

monitorVars == <<asked, audit, version, job, out, apart>>

-----------------------------------------------------------------------------
\* The service.

Faults == audit.refused + audit.broken + audit.extra

\* predict_features: the prediction is logged, then the request.
Serve(level) ==
  /\ asked < Len(Due) /\ asked' = asked + 1
  /\ audit' = [audit EXCEPT !.served = @ + 1,
       !.rows = Append(@, [id |-> asked', site |-> Due[asked'][1], t |-> Due[asked'][2], level |-> level])]
  /\ UNCHANGED <<version, job, out, apart>>

\* Nothing was asked, or the answer was an error that the middleware logs (422, 503).
Skip ==
  /\ asked < Len(Due) /\ asked' = asked + 1
  /\ UNCHANGED <<audit, version, job, out, apart>>

RefuseRequest ==
  /\ asked < Len(Due) /\ asked' = asked + 1 /\ Faults < MaxFaults
  /\ audit' = [audit EXCEPT !.refused = @ + 1]
  /\ UNCHANGED <<version, job, out, apart>>

\* An unforeseen exception passes the middleware: it is logged, the request is not.
BreakRequest ==
  /\ asked < Len(Due) /\ asked' = asked + 1 /\ Faults < MaxFaults
  /\ audit' = [audit EXCEPT !.broken = @ + 1]
  /\ UNCHANGED <<version, job, out, apart>>

\* A caller repeats a request, with the request id it chose before or a new one.
RepeatRequest ==
  /\ audit.rows # <<>> /\ Faults < MaxFaults
  /\ \E id \in {Last(audit.rows).id, Len(Due) + 1} :
       audit' = [audit EXCEPT !.rows = Append(@, [Last(@) EXCEPT !.id = id]), !.served = @ + 1, !.extra = @ + 1]
  /\ UNCHANGED <<asked, version, job, out, apart>>

\* Reviewers replace the catalogue.
Review ==
  /\ version < Len(Reviewed) /\ version' = version + 1
  /\ UNCHANGED <<asked, audit, job, out, apart>>

-----------------------------------------------------------------------------
\* What a report says.

\* read_audit_jsonl: a request id may log one prediction.
Parses(log) == log.rows # <<>> /\ Cardinality({log.rows[i].id : i \in DOMAIN log.rows}) = Len(log.rows)

\* _cadence_evidence: one row for each site and hour, else the evaluation is refused.
SitesOf(rows) == {r.site : r \in rows}
TimesOf(rows, site) == {r.t : r \in {q \in rows : q.site = site}}
Unique(log) == Cardinality({<<log.rows[i].site, log.rows[i].t>> : i \in DOMAIN log.rows}) = Len(log.rows)
MissingHours(rows) ==
  LET sites == SitesOf(rows)
      ordered == InOrder(sites, {p \in sites \X sites : p[1] < p[2]})
      missing(s) == LET times == TimesOf(rows, s)
                    IN (Max(times) - Min(times) + 1) - Cardinality({r \in rows : r.site = s})
      sum[k \in 0..Cardinality(sites)] ==
        IF k = 0 THEN 0 ELSE sum[k - 1] + missing(ordered[k])
  IN sum[Cardinality(sites)]

Within(rows, from, to) == {r \in rows : from <= r.t /\ r.t <= to}

\* Rows of the catalogue, out of the rows S.
Onsets(events, S, from, to) ==
  {i \in S : events[i].onset # None /\ from <= events[i].onset /\ events[i].onset <= to}

\* Confirmed events with an exact hour are matched; one at a site without a prediction
\* among the rows is counted as missed.
Confirmed(events, S, site) ==
  {i \in S : events[i].zone = ZoneOf[site] /\ events[i].conf \in {"A", "B"} /\ events[i].prec = "exact"}

Evaluated(rows, events, S) ==
  LET hours(s) == {r.t : r \in {q \in rows : q.site = s /\ q.level > 0}}
      found(s) == Detected(Matching(Episodes(hours(s)), events, Confirmed(events, S, s)))
  IN [counted |-> Cardinality(UNION {{<<s, i>> : i \in Confirmed(events, S, s)} : s \in Sites}),
      detected |-> Cardinality(UNION {{<<s, i>> : i \in found(s)} : s \in Sites})]

\* The ends of the windows, without the end of the log.
EndsByStep(first, last, step) ==
  IF first + Window >= last THEN {last}
  ELSE {e \in first + Window..last : \E k \in 0..last - first : e = first + Window + k * step}

Ends(first, last, step) ==
  IF first + Window >= last THEN {last}
  ELSE {e \in first + Window..last : \E k \in 0..last - first : e = first + Window + k * step} \cup {last}

\* Catalogue rows at predicted sites between the first and the last prediction.
Eligible(rows, events) ==
  LET times == {r.t : r \in rows} IN
  {i \in Onsets(events, DOMAIN events, Min(times), Max(times)) :
     \E s \in SitesOf(rows) : ZoneOf[s] = events[i].zone}

Rolling(rows, events, step) ==
  LET times == {r.t : r \in rows}
      from(end) == Max({Min(times), end - Window})
  IN {[from |-> from(end), to |-> end,
       metrics |-> Evaluated(Within(rows, from(end), end), events,
                             Onsets(events, Eligible(rows, events), from(end), end))] :
        end \in Ends(Min(times), Max(times), step)}

DelayedReport(w) ==
  LET rows == ToSet(w.read.rows)
      events == Reviewed[w.evaluated]
  IN [kind |-> "delayed", read |-> w.read, source |-> w.source, step |-> w.step,
      evaluated |-> w.evaluated, named |-> w.named,
      eligible |-> Eligible(rows, events), missing |-> MissingHours(rows),
      rolling |-> Rolling(rows, events, w.step), total |-> Evaluated(rows, events, Eligible(rows, events))]

\* build_monitoring_report: requests that broke are not among the requests.
AggregateReport(w) ==
  [kind |-> "aggregate", read |-> w.read, source |-> w.source,
   requests |-> w.read.served + w.read.refused, failures |-> w.read.refused, errors |-> w.read.broken]

\* build_drift_report: sites of both logs are compared, with at least two rows of each.
Comparable(rows, other) ==
  {s \in SitesOf(rows) \cap SitesOf(other) :
     Cardinality(TimesOf(rows, s)) >= 2 /\ Cardinality(TimesOf(other, s)) >= 2}
DriftReport(w) ==
  LET rows == ToSet(w.read.rows) IN
  [kind |-> "drift", read |-> w.read, source |-> w.source, compared |-> Comparable(Reference, rows),
   onlyLive |-> SitesOf(rows) \ SitesOf(Reference), onlyReference |-> SitesOf(Reference) \ SitesOf(rows)]

-----------------------------------------------------------------------------
\* The jobs.

Reports == 1..MaxReports
Running == {j \in Reports : job[j].at \notin {"new", "ended"}}
Go(j, w) == job' = [job EXCEPT ![j] = w]
EndJob(j) == Go(j, [at |-> "ended"])
Log == UNCHANGED <<asked, audit, version>>

\* Reads the log; a delayed evaluation needs one row for each site and hour.
ReadLog(j, kind, step) ==
  /\ job[j].at = "new" /\ (\A i \in 1..j - 1 : job[i].at # "new") /\ Parses(audit)
  /\ kind = "delayed" => Unique(audit)
  /\ Go(j, [at |-> "hash", kind |-> kind, step |-> step, read |-> audit])
  /\ Log /\ UNCHANGED <<out, apart>>

\* sha256_file of the log, after it was parsed.
HashLog(j) ==
  LET w == [at |-> "report", kind |-> job[j].kind, step |-> job[j].step, read |-> job[j].read, source |-> audit] IN
  /\ job[j].at = "hash"
  /\ \/ job[j].kind = "aggregate" /\ Go(j, [at |-> "report", made |-> AggregateReport(w)])
     \/ job[j].kind = "drift" /\ Go(j, [at |-> "report", made |-> DriftReport(w)])
     \/ job[j].kind = "delayed" /\ Go(j, [w EXCEPT !.at = "catalog"])
  /\ Log /\ UNCHANGED <<out, apart>>

\* _evaluation_events: each zone has one site and each event a site, or it is refused.
Mapped(events) ==
  /\ \A s, q \in Sites : ZoneOf[s] = ZoneOf[q] => s = q
  /\ \A i \in DOMAIN events : \E s \in Sites : ZoneOf[s] = events[i].zone

ReadCatalog(j) ==
  /\ job[j].at = "catalog" /\ Mapped(Reviewed[version])
  /\ Go(j, [at |-> "evaluate", step |-> job[j].step, read |-> job[j].read, source |-> job[j].source,
            evaluated |-> version])
  /\ Log /\ UNCHANGED <<out, apart>>

\* The evaluation, then sha256_file of the catalogue, which is read once more.
HashCatalog(j) ==
  /\ job[j].at = "evaluate"
  /\ Go(j, [at |-> "report",
            made |-> DelayedReport([step |-> job[j].step, read |-> job[j].read, source |-> job[j].source,
                                    evaluated |-> job[j].evaluated, named |-> version])])
  /\ Log /\ UNCHANGED <<out, apart>>

\* write_atomic_hashed_report: the report, then the checksum, each replaced at once.
Between(j) == job[j].at = "checksum"

ReplaceReport(j) ==
  /\ job[j].at = "report"
  /\ out' = [out EXCEPT !.report = job[j].made]
  /\ Go(j, [job[j] EXCEPT !.at = "checksum"])
  /\ apart' = (apart \/ \E i \in Reports : Between(i))
  /\ Log

ReplaceChecksum(j) ==
  /\ Between(j)
  /\ out' = [out EXCEPT !.checksum = job[j].made]
  /\ EndJob(j) /\ Log /\ UNCHANGED apart

\* A job is killed; one whose log or catalogue is refused ends in the same way.
KillJob(j) ==
  /\ j \in Running /\ EndJob(j)
  /\ apart' = (apart \/ Between(j))
  /\ Log /\ UNCHANGED out

MonitorInit ==
  /\ asked = 0 /\ audit = [rows |-> <<>>, served |-> 0, refused |-> 0, broken |-> 0, extra |-> 0]
  /\ version = 1 /\ job = [j \in Reports |-> [at |-> "new"]]
  /\ out = [report |-> None, checksum |-> None] /\ apart = FALSE

MonitorNext ==
  \/ \E level \in {0, 1} : Serve(level)
  \/ Skip \/ RefuseRequest \/ BreakRequest \/ RepeatRequest \/ Review
  \/ \E j \in Reports :
       \/ \E kind \in {"aggregate", "drift"} : ReadLog(j, kind, 1)
       \/ \E step \in Steps : ReadLog(j, "delayed", step)
       \/ HashLog(j) \/ ReadCatalog(j) \/ HashCatalog(j) \/ ReplaceReport(j) \/ ReplaceChecksum(j) \/ KillJob(j)

MonitorSpec == MonitorInit /\ [][MonitorNext]_monitorVars

-----------------------------------------------------------------------------

\* A report lies beside its own checksum whenever no job is between the two, unless a job
\* wrote its report while another was there, or was killed there.
ReportIsPaired == ~apart /\ (\A j \in Reports : ~Between(j)) => out.report = out.checksum

\* The log that is named by its hash holds every row that was counted, and no row twice.
Sourced(r) == IsPrefix(r.read.rows, r.source.rows) /\ Parses(r.read)
SourceIsCounted == out.report # None => Sourced(out.report)

\* A delayed evaluation leaves nothing out that the log covers: windows begin with the
\* log and end with it, and - if they are no further apart than they are long - every
\* counted event and every prediction lies in one; nothing before, after or beside the
\* predictions is counted; an hour without prediction is reported as missing
\* (MONITORING_RUNBOOK.md "It reports overall and rolling event metrics").
Complete(r) ==
  LET rows == ToSet(r.read.rows)
      events == Reviewed[r.evaluated]
      first == Min({q.t : q \in rows})
      last == Max({q.t : q \in rows})
      rolled(t) == \E w \in r.rolling : w.from <= t /\ t <= w.to
  IN /\ \E w \in r.rolling : w.from = first
     /\ \E w \in r.rolling : w.to = last
     /\ \A w \in r.rolling : first <= w.from /\ w.to <= last
     /\ r.step <= Window =>
          /\ \A i \in r.eligible : rolled(events[i].onset)
          /\ \A q \in rows : rolled(q.t)
     /\ r.total.counted =
          Cardinality({i \in DOMAIN events :
            /\ events[i].conf \in {"A", "B"} /\ events[i].prec = "exact"
            /\ first <= events[i].onset /\ events[i].onset <= last
            /\ \E q \in rows : ZoneOf[q.site] = events[i].zone})
     /\ r.missing = Cardinality({p \in Sites \X (first..last) :
            /\ \A q \in rows : q.site # p[1] \/ q.t # p[2]
            /\ \E q, n \in rows : q.site = p[1] /\ n.site = p[1] /\ q.t < p[2] /\ p[2] < n.t})
NothingIsLeftOut == out.report # None /\ out.report.kind = "delayed" => Complete(out.report)

\* The catalogue that is named by its hash is the one that was evaluated, or one that
\* reviewers put in its place meanwhile: never an earlier one.
CatalogIsCurrent == out.report # None /\ out.report.kind = "delayed" => out.report.evaluated <= out.report.named

\* What a report on disk says of its log and of the catalogue it evaluated is true.
ReportsAreTrue == ReportIsPaired /\ SourceIsCounted /\ NothingIsLeftOut /\ CatalogIsCurrent
=============================================================================
