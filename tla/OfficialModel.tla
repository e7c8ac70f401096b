--------------------------- MODULE OfficialModel ---------------------------
(***************************************************************************)
(* The official-model experiment of the server: training runs, the active  *)
(* model, the devices' sensor profiles and the snapshots that a collection *)
(* freezes (server/app/experiment_store.py, the routes of main.py around   *)
(* it, simulation_artifacts.py's lock, the start of simulation_store.py).  *)
(*                                                                         *)
(* Two server processes serve requests in threads.  Training, activation   *)
(* and saving a profile hold the artifact lock, a lock file that the       *)
(* operating system releases when its process dies; selecting a model,     *)
(* deleting a profile and starting a collection do not.  As in             *)
(* SimulationStore the checks of a request and its write are two actions.  *)
(* A run stands for its artifact, which never changes; of a device's       *)
(* sessions only the latest is kept.                                       *)
(***************************************************************************)
CONSTANTS
  Servers,         \* the gateway and the main process
  Threads,         \* request threads
  Home,            \* Home[t]: the server process of t
  Devices, Runs,
  UncaughtErrors,  \* whether a training can end in an exception no handler expects
  None

VARIABLES
  up,        \* server processes that serve requests
  lock,      \* the thread that holds SIMULATION_ARTIFACT_LOCK
  req,       \* req[t]: what thread t has checked, or is training
  run,       \* official_training_runs.status, "absent" without a row
  active,    \* official_model_activation.run_id
  profile,   \* sensor_test_profiles[d].official_run_id
  official,  \* devices whose selected model is the official one
  session,   \* state of the device's latest collection session
  snapshot   \* sensor_test_session_snapshots row of that session

device == <<profile, official, session, snapshot>>
db == <<run, active, device>>
vars == <<up, lock, req, run, active, profile, official, session, snapshot>>

Requests ==
  [op : {"fit", "fail", "activate"}, r : Runs]
    \cup [op : {"save"}, d : Devices, r : Runs]
    \cup [op : {"delete"}, d : Devices]
    \cup [op : {"select", "start"}, d : Devices, official : BOOLEAN]

ASSUME OfficialAssumption ==
  /\ Home \in [Threads -> Servers]
  /\ None \notin Runs \cup Threads \cup Requests
  /\ UncaughtErrors \in BOOLEAN

Init ==
  /\ up = Servers /\ lock = None
  /\ req = [t \in Threads |-> None]
  /\ run = [r \in Runs |-> "absent"]
  /\ active = None
  /\ profile = [d \in Devices |-> None]
  /\ official = {}
  /\ session = [d \in Devices |-> "absent"]
  /\ snapshot = [d \in Devices |-> None]

Idle(t) == req[t] = None /\ Home[t] \in up
Pending(t, op) == req[t] # None /\ req[t].op = op
Accept(t, what) == req' = [req EXCEPT ![t] = what]
Done(t) ==
  /\ req' = [req EXCEPT ![t] = None]
  /\ lock' = IF lock = t THEN None ELSE lock
Acquire(t) == lock = None /\ lock' = t

Running == {r \in Runs : run[r] = "running"}
Collecting(d) == session[d] = "active"
SensorTest(d) == Collecting(d) /\ snapshot[d] # None

-----------------------------------------------------------------------------
(* Training *)

\* Under the lock a row is created, unless the unique index finds one running;
\* then the training is refused.
TrainBegin(t, r) ==
  /\ Idle(t)
  /\ Running = {} /\ run[r] = "absent"
  /\ Acquire(t)
  /\ run' = [run EXCEPT ![r] = "running"]
  /\ Accept(t, [op |-> "fit", r |-> r])
  /\ UNCHANGED <<up, active, device>>

\* UPDATE .. WHERE status = 'running'.
EndRun(r, outcome) ==
  run' = [run EXCEPT ![r] = IF @ = "running" THEN outcome ELSE @]

\* The fit succeeds; the row is completed under the lock.
TrainEnd(t) ==
  /\ Pending(t, "fit")
  /\ EndRun(req[t].r, "succeeded")
  /\ Done(t)
  /\ UNCHANGED <<up, active, device>>

\* The fit fails in a way the route expects: the exception leaves the lock ...
TrainFails(t) ==
  /\ Pending(t, "fit")
  /\ Accept(t, [op |-> "fail", r |-> req[t].r])
  /\ lock' = None
  /\ UNCHANGED <<up, db>>

\* ... and only then is the row failed, unless a recovery has done so meanwhile.
FailWrite(t) ==
  /\ Pending(t, "fail")
  /\ EndRun(req[t].r, "failed")
  /\ Done(t)
  /\ UNCHANGED <<up, active, device>>

\* An exception that is not among those the route catches, or one more while
\* the row is failed: the row stays.
TrainAbandoned(t) ==
  /\ UncaughtErrors
  /\ Pending(t, "fit") \/ Pending(t, "fail")
  /\ Done(t)
  /\ UNCHANGED <<up, db>>

-----------------------------------------------------------------------------
(* The active model and the sensor profiles *)

\* The route's checks and activate_official_training_run()'s.
ActivateCheck(t, r) ==
  /\ Idle(t)
  /\ run[r] = "succeeded"
  /\ \A d \in Devices : ~SensorTest(d)
  /\ Acquire(t)
  /\ Accept(t, [op |-> "activate", r |-> r])
  /\ UNCHANGED <<up, db>>

ActivateWrite(t) ==
  /\ Pending(t, "activate")
  /\ active' = req[t].r
  /\ Done(t)
  /\ UNCHANGED <<up, run, device>>

\* A profile is built from the active model's artifact.
SaveCheck(t, d) ==
  /\ Idle(t)
  /\ active # None
  /\ ~Collecting(d)
  /\ Acquire(t)
  /\ Accept(t, [op |-> "save", d |-> d, r |-> active])
  /\ UNCHANGED <<up, db>>

SaveWrite(t) ==
  /\ Pending(t, "save")
  /\ profile' = [profile EXCEPT ![req[t].d] = req[t].r]
  /\ Done(t)
  /\ UNCHANGED <<up, run, active, official, session, snapshot>>

\* Mutant of DeleteCheck: does not ask for an active session.
DeleteCheckNothing(t, d) ==
  /\ Idle(t)
  /\ Accept(t, [op |-> "delete", d |-> d])
  /\ UNCHANGED <<up, lock, db>>

DeleteCheck(t, d) ==
  /\ Idle(t)
  /\ ~Collecting(d)
  /\ Accept(t, [op |-> "delete", d |-> d])
  /\ UNCHANGED <<up, lock, db>>

DeleteWrite(t) ==
  /\ Pending(t, "delete")
  /\ profile' = [profile EXCEPT ![req[t].d] = None]
  /\ Done(t)
  /\ UNCHANGED <<up, run, active, official, session, snapshot>>

\* The official model can be selected when the device's profile is its own.
SelectCheck(t, d, isOfficial) ==
  /\ Idle(t)
  /\ isOfficial => active # None /\ profile[d] = active
  /\ Accept(t, [op |-> "select", d |-> d, official |-> isOfficial])
  /\ UNCHANGED <<up, lock, db>>

SelectWrite(t) ==
  /\ Pending(t, "select")
  /\ official' = IF req[t].official THEN official \cup {req[t].d}
                                    ELSE official \ {req[t].d}
  /\ Done(t)
  /\ UNCHANGED <<up, run, active, profile, session, snapshot>>

-----------------------------------------------------------------------------
(* Collection sessions *)

\* start_simulation_session() reads the selected model ...
StartRead(t, d) ==
  /\ Idle(t)
  /\ Accept(t, [op |-> "start", d |-> d, official |-> d \in official])
  /\ UNCHANGED <<up, lock, db>>

\* ... and in the transaction of the new row freezes the device's profile, if
\* it is the active model's.  The unique index refuses a second active session.
StartWrite(t) ==
  /\ Pending(t, "start")
  /\ LET d == req[t].d
     IN  /\ ~Collecting(d)
         /\ req[t].official => active # None /\ profile[d] = active
         /\ session' = [session EXCEPT ![d] = "active"]
         /\ snapshot' = [snapshot EXCEPT ![d] =
                           IF req[t].official THEN profile[d] ELSE None]
  /\ Done(t)
  /\ UNCHANGED <<up, run, active, profile, official>>

\* stop_simulation_session().
Stop(d) ==
  /\ up # {}
  /\ Collecting(d)
  /\ session' = [session EXCEPT ![d] = "completed"]
  /\ UNCHANGED <<up, lock, req, run, active, profile, official, snapshot>>

\* A write that is refused or fails: rolled back, and the lock released.
Refuse(t) ==
  /\ req[t] # None /\ ~Pending(t, "fit") /\ ~Pending(t, "fail")
  /\ Done(t)
  /\ UNCHANGED <<up, db>>

-----------------------------------------------------------------------------
(* Processes *)

\* A process dies; the operating system releases its lock.
Crash(s) ==
  /\ s \in up
  /\ up' = up \ {s}
  /\ req' = [t \in Threads |-> IF Home[t] = s THEN None ELSE req[t]]
  /\ lock' = IF lock # None /\ Home[lock] = s THEN None ELSE lock
  /\ UNCHANGED db

\* Mutant of Boot: recovers runs without holding the lock.
BootUnlocked(s) ==
  /\ s \notin up
  /\ up' = up \cup {s}
  /\ run' = [r \in Runs |-> IF run[r] = "running" THEN "failed" ELSE run[r]]
  /\ UNCHANGED <<lock, req, active, device>>

\* Mutant of Boot: interrupted runs are left as they are.
BootNoRecovery(s) ==
  /\ s \notin up /\ lock = None
  /\ up' = up \cup {s}
  /\ UNCHANGED <<lock, req, db>>

\* lifespan(): with the lock held, running rows are interrupted ones.
Boot(s) ==
  /\ s \notin up /\ lock = None
  /\ up' = up \cup {s}
  /\ run' = [r \in Runs |-> IF run[r] = "running" THEN "failed" ELSE run[r]]
  /\ UNCHANGED <<lock, req, active, device>>

Write(t) ==
  \/ TrainEnd(t) \/ FailWrite(t) \/ ActivateWrite(t) \/ SaveWrite(t) \/ DeleteWrite(t)
  \/ SelectWrite(t) \/ StartWrite(t)

Next ==
  \/ \E t \in Threads :
       \/ \E r \in Runs : TrainBegin(t, r) \/ ActivateCheck(t, r)
       \/ TrainFails(t) \/ TrainAbandoned(t)
       \/ \E d \in Devices :
            \/ SaveCheck(t, d) \/ DeleteCheck(t, d) \/ StartRead(t, d)
            \/ \E o \in BOOLEAN : SelectCheck(t, d, o)
       \/ Write(t) \/ Refuse(t)
  \/ \E d \in Devices : Stop(d)
  \/ \E s \in Servers : Crash(s) \/ Boot(s)

Spec == Init /\ [][Next]_vars

\* A thread that has begun a request ends it; a process that died is started
\* again, and since it polls for the lock it gets it some day.
Fairness ==
  /\ \A t \in Threads : WF_vars(Write(t) \/ Refuse(t))
  /\ \A s \in Servers : SF_vars(Boot(s))
-----------------------------------------------------------------------------
(* Properties *)

\* The variables have their types.
TypeOK ==
  /\ up \subseteq Servers
  /\ lock \in Threads \cup {None}
  /\ req \in [Threads -> Requests \cup {None}]
  /\ run \in [Runs -> {"absent", "running", "succeeded", "failed"}]
  /\ active \in Runs \cup {None}
  /\ profile \in [Devices -> Runs \cup {None}]
  /\ official \subseteq Devices
  /\ session \in [Devices -> {"absent", "active", "completed"}]
  /\ snapshot \in [Devices -> Runs \cup {None}]

NeedsLock(t) == Pending(t, "fit") \/ Pending(t, "activate") \/ Pending(t, "save")

\* The thread that holds the lock is alive and at work on a request that needs
\* it, and no other thread is: the lock excludes across processes and crashes.
LockIsExclusive ==
  \A t \in Threads : NeedsLock(t) <=> lock = t

\* A training that goes on is never declared interrupted by a process that
\* starts meanwhile (main.py:466 "the OS lock proves that no live trainer owns
\* the artifact transaction").
LiveRunIsRunning == \A t \in Threads : Pending(t, "fit") => run[req[t].r] = "running"

\* At most one run is running, through crashes and recoveries.
SingleFlight == \A r1, r2 \in Running : r1 = r2

Succeeded(r) == r # None => run[r] = "succeeded"

\* The active model, every profile and every frozen snapshot come from a run
\* that succeeded, however the request that wrote them was delayed.
Provenance ==
  /\ Succeeded(active)
  /\ \A d \in Devices : Succeeded(profile[d]) /\ Succeeded(snapshot[d])

\* During a sensor external test the active model stays the one that was frozen.
ActivationFrozen == \A d \in Devices : SensorTest(d) => snapshot[d] = active

\* During a sensor external test the device's profile stays the one that was
\* frozen.
ProfileFrozen == \A d \in Devices : SensorTest(d) => profile[d] = snapshot[d]

\* The inductive invariant: what a request carries to its write is still fit to
\* be written, since the outcome of a run never changes.
CarriesSucceeded ==
  \A t \in Threads :
    Pending(t, "activate") \/ Pending(t, "save") => run[req[t].r] = "succeeded"

\* A thread that has failed outside the lock fails its own row, which nobody
\* trains again.
FailsItsOwn ==
  \A t \in Threads : Pending(t, "fail") =>
    /\ run[req[t].r] # "absent"
    /\ \A u \in Threads : Pending(u, "fit") => req[u].r # req[t].r

IInv ==
  /\ TypeOK
  /\ LockIsExclusive
  /\ LiveRunIsRunning
  /\ SingleFlight
  /\ Provenance
  /\ CarriesSucceeded
  /\ FailsItsOwn

\* A run that has ended keeps its outcome: neither a late trainer nor a recovery
\* rewrites it.
EndedRunsStay ==
  [][\A r \in Runs : run[r] \in {"succeeded", "failed"} => run'[r] = run[r]]_vars

=============================================================================
