------------------------ MODULE OfficialModelProofs ------------------------
(***************************************************************************)
(* Proofs, for any server processes, threads, devices and runs, of the     *)
(* safety properties of OfficialModel, and of what MCOfficialModel says of *)
(* a request that is alone.                                                *)
(***************************************************************************)
EXTENDS MCOfficialModel, TLAPS

\* The initial state satisfies the inductive invariant.
LEMMA InitIInv == Init => IInv
<1> SUFFICES ASSUME Init PROVE IInv
  OBVIOUS
<1> USE OfficialAssumption DEF Init
<1>1. TypeOK
  BY DEF TypeOK
<1>2. LockIsExclusive /\ LiveRunIsRunning /\ CarriesSucceeded /\ FailsItsOwn
  BY DEF LockIsExclusive, NeedsLock, LiveRunIsRunning, CarriesSucceeded, FailsItsOwn, Pending
<1>3. SingleFlight /\ Provenance
  BY DEF SingleFlight, Running, Provenance, Succeeded
<1> QED
  BY <1>1, <1>2, <1>3 DEF IInv

\* What a pending request is, by its kind.
LEMMA PendingShape ==
  ASSUME TypeOK, NEW t \in Threads, NEW op, Pending(t, op)
  PROVE  /\ req[t] \in Requests
         /\ op \in {"fit", "fail", "activate"} => req[t].r \in Runs
         /\ op = "save" => req[t].d \in Devices /\ req[t].r \in Runs
         /\ op \in {"delete", "select", "start"} => req[t].d \in Devices
         /\ op \in {"select", "start"} => req[t].official \in BOOLEAN
<1>1. req[t] \in Requests
  BY DEF TypeOK, Pending
<1> QED
  BY <1>1 DEF Requests, Pending

\* Accepting a request that needs no lock disturbs nothing but req.
LEMMA AcceptPlain ==
  ASSUME IInv, NEW t \in Threads, NEW what \in Requests,
         req[t] = None, Accept(t, what),
         what.op \in {"delete", "select", "start"},
         UNCHANGED <<up, lock, db>>
  PROVE  IInv'
<1> USE OfficialAssumption DEF IInv, db, device
<1>1. TypeOK'
  BY DEF TypeOK, Accept
<1>2. \A u \in Threads :
        /\ u # t => req'[u] = req[u]
        /\ u = t => req'[u] = what
  BY DEF Accept, TypeOK
<1>3. LockIsExclusive'
  BY <1>2 DEF LockIsExclusive, NeedsLock, Pending
<1>4. LiveRunIsRunning' /\ CarriesSucceeded' /\ FailsItsOwn'
  BY <1>2 DEF LiveRunIsRunning, CarriesSucceeded, FailsItsOwn, Pending
<1>5. SingleFlight' /\ Provenance'
  BY DEF SingleFlight, Running, Provenance, Succeeded
<1> QED
  BY <1>1, <1>3, <1>4, <1>5

\* Accepting a request together with the lock: nobody else has one that needs it.
LEMMA AcceptLocked ==
  ASSUME IInv, NEW t \in Threads, NEW what \in Requests,
         req[t] = None, Acquire(t), Accept(t, what),
         what.op \in {"activate", "save"}, run[what.r] = "succeeded",
         UNCHANGED <<up, db>>
  PROVE  IInv'
<1> USE OfficialAssumption DEF IInv, db, device, Acquire
<1>1. TypeOK'
  BY DEF TypeOK, Accept
<1>2. \A u \in Threads :
        /\ u # t => req'[u] = req[u]
        /\ u = t => req'[u] = what
  BY DEF Accept, TypeOK
<1>3. LockIsExclusive'
  BY <1>2 DEF LockIsExclusive, NeedsLock, Pending
<1>4. LiveRunIsRunning' /\ CarriesSucceeded' /\ FailsItsOwn'
  BY <1>2 DEF LiveRunIsRunning, CarriesSucceeded, FailsItsOwn, Pending
<1>5. SingleFlight' /\ Provenance'
  BY DEF SingleFlight, Running, Provenance, Succeeded
<1> QED
  BY <1>1, <1>3, <1>4, <1>5

\* A training begins under the lock, with no row running.
LEMMA TrainBeginPreserves ==
  ASSUME IInv, NEW t \in Threads, NEW r \in Runs, TrainBegin(t, r)
  PROVE  IInv'
<1> DEFINE what == [op |-> "fit", r |-> r]
<1> USE OfficialAssumption DEF IInv, device
<1>1. what \in Requests /\ what.op = "fit" /\ what.r = r
  BY DEF Requests
<1> HIDE DEF what
<1>2. /\ lock = None /\ lock' = t
      /\ run' = [run EXCEPT ![r] = "running"] /\ run[r] = "absent" /\ Running = {}
      /\ UNCHANGED <<up, active, profile, official, session, snapshot>>
  BY DEF TrainBegin, Acquire
<1>3. req' = [req EXCEPT ![t] = what]
  BY DEF TrainBegin, Accept, what
<1>4. \A u \in Threads :
        /\ u # t => req'[u] = req[u]
        /\ u = t => req'[u] = what
  BY <1>3 DEF TypeOK
<1>5. TypeOK'
  BY <1>1, <1>2, <1>3 DEF TypeOK
<1>6. LockIsExclusive'
  BY <1>1, <1>2, <1>4 DEF LockIsExclusive, NeedsLock, Pending
<1>7. \A u \in Threads : u # t => ~NeedsLock(u)
  BY <1>2 DEF LockIsExclusive
<1>8. LiveRunIsRunning' /\ CarriesSucceeded' /\ FailsItsOwn'
  BY <1>1, <1>2, <1>4, <1>7
     DEF LiveRunIsRunning, CarriesSucceeded, FailsItsOwn, NeedsLock, Pending, TypeOK
<1>9. SingleFlight' /\ Provenance'
  BY <1>2 DEF SingleFlight, Running, Provenance, Succeeded, TypeOK
<1> QED
  BY <1>5, <1>6, <1>8, <1>9

\* Ending a request clears it and returns the lock if it had it; what other
\* threads need does not change.
LEMMA DoneFacts ==
  ASSUME IInv, NEW t \in Threads, req[t] # None, Done(t)
  PROVE  /\ req' \in [Threads -> Requests \cup {None}]
         /\ lock' \in Threads \cup {None}
         /\ \A u \in Threads : /\ u # t => req'[u] = req[u]
                               /\ u = t => req'[u] = None
         /\ LockIsExclusive'
         /\ run' = run => LiveRunIsRunning' /\ CarriesSucceeded' /\ FailsItsOwn'
<1> USE OfficialAssumption DEF IInv
<1>1. req' \in [Threads -> Requests \cup {None}] /\ lock' \in Threads \cup {None}
  BY DEF Done, TypeOK
<1>2. \A u \in Threads : /\ u # t => req'[u] = req[u]
                         /\ u = t => req'[u] = None
  BY DEF Done, TypeOK
<1>3. LockIsExclusive'
  BY <1>2 DEF Done, LockIsExclusive, NeedsLock, Pending
<1>4. run' = run => LiveRunIsRunning' /\ CarriesSucceeded' /\ FailsItsOwn'
  BY <1>2 DEF LiveRunIsRunning, CarriesSucceeded, FailsItsOwn, Pending
<1> QED
  BY <1>1, <1>2, <1>3, <1>4

\* A training that ends, under the lock or after it has failed, changes its own
\* row at most, which no other thread trains.
LEMMA TrainEndPreserves ==
  ASSUME IInv, NEW t \in Threads, TrainEnd(t) \/ FailWrite(t)
  PROVE  IInv'
<1> USE OfficialAssumption DEF IInv, device
<1>1. req[t] # None /\ Done(t) /\ (Pending(t, "fit") \/ Pending(t, "fail"))
  BY DEF TrainEnd, FailWrite, Pending
<1>2. req[t].r \in Runs
  BY <1>1, PendingShape
<1>3. PICK outcome \in {"succeeded", "failed"} : EndRun(req[t].r, outcome)
  BY DEF TrainEnd, FailWrite
<1>4. UNCHANGED <<up, active, profile, official, session, snapshot>>
  BY DEF TrainEnd, FailWrite
<1>5. \A r \in Runs : /\ run'[r] \in {"absent", "running", "succeeded", "failed"}
                      /\ run[r] = "succeeded" => run'[r] = "succeeded"
                      /\ run'[r] = "running" => run[r] = "running"
  BY <1>2, <1>3 DEF TypeOK, EndRun
<1>6. TypeOK'
  BY <1>1, <1>2, <1>3, <1>4, DoneFacts DEF TypeOK, EndRun
<1>7. LockIsExclusive'
  BY <1>1, DoneFacts
<1>8. \A u \in Threads : u # t /\ Pending(u, "fit") => req[u].r # req[t].r
  BY <1>1 DEF LockIsExclusive, NeedsLock, FailsItsOwn
<1>9. LiveRunIsRunning' /\ CarriesSucceeded' /\ FailsItsOwn'
  <2>1. \A u \in Threads : /\ u # t => req'[u] = req[u]
                           /\ u = t => req'[u] = None
    BY <1>1, DoneFacts
  <2>2. ASSUME NEW u \in Threads, NEW op \in {"fit", "fail", "activate", "save"},
               Pending(u, op)'
        PROVE  u # t /\ Pending(u, op) /\ req'[u].r = req[u].r /\ req[u].r \in Runs
    <3>1. req'[u] # None /\ req'[u].op = op
      BY <2>2 DEF Pending
    <3>2. u # t /\ req'[u] = req[u]
      BY <2>1, <3>1
    <3>3. Pending(u, op)
      BY <3>1, <3>2 DEF Pending
    <3> QED
      BY <3>2, <3>3, PendingShape
  <2>3. LiveRunIsRunning'
    BY <1>2, <1>3, <1>8, <2>2 DEF LiveRunIsRunning, EndRun, TypeOK
  <2>4. CarriesSucceeded'
    BY <1>5, <2>2 DEF CarriesSucceeded
  <2>5. \A r \in Runs : run[r] # "absent" => run'[r] # "absent"
    BY <1>2, <1>3 DEF TypeOK, EndRun
  <2>6. FailsItsOwn'
    BY <2>2, <2>5 DEF FailsItsOwn
  <2> QED
    BY <2>3, <2>4, <2>6
<1>10. SingleFlight'
  BY <1>5 DEF SingleFlight, Running
<1>11. Provenance'
  BY <1>4, <1>5 DEF Provenance, Succeeded, TypeOK
<1> QED
  BY <1>6, <1>7, <1>9, <1>10, <1>11

\* A training fails: it gives up the lock and keeps its row, which is running.
LEMMA TrainFailsPreserves ==
  ASSUME IInv, NEW t \in Threads, TrainFails(t)
  PROVE  IInv'
<1> DEFINE what == [op |-> "fail", r |-> req[t].r]
<1> USE OfficialAssumption DEF IInv, db, device
<1>1. Pending(t, "fit") /\ lock = t /\ lock' = None /\ UNCHANGED <<up, db>>
  BY DEF TrainFails, LockIsExclusive, NeedsLock
<1>2. req[t].r \in Runs /\ run[req[t].r] = "running"
  BY <1>1, PendingShape DEF LiveRunIsRunning
<1>3. what \in Requests /\ what.op = "fail" /\ what.r = req[t].r
  BY <1>2 DEF Requests
<1>4. req' = [req EXCEPT ![t] = what]
  BY DEF TrainFails, Accept
<1> HIDE DEF what
<1>5. TypeOK'
  BY <1>1, <1>3, <1>4 DEF TypeOK
<1>6. \A u \in Threads : /\ u # t => req'[u] = req[u]
                         /\ u = t => req'[u] = what
  BY <1>4 DEF TypeOK
<1>7. \A u \in Threads : u # t => ~NeedsLock(u)
  BY <1>1 DEF LockIsExclusive
<1>8. LockIsExclusive'
  BY <1>1, <1>3, <1>6, <1>7 DEF LockIsExclusive, NeedsLock, Pending
<1>9. LiveRunIsRunning' /\ CarriesSucceeded'
  BY <1>1, <1>3, <1>6 DEF LiveRunIsRunning, CarriesSucceeded, Pending
<1>10. FailsItsOwn'
  BY <1>1, <1>2, <1>3, <1>6, <1>7 DEF FailsItsOwn, NeedsLock, Pending
<1>11. SingleFlight' /\ Provenance'
  BY <1>1 DEF SingleFlight, Running, Provenance, Succeeded
<1> QED
  BY <1>5, <1>8, <1>9, <1>10, <1>11

\* A write that ends a request other than a training: the run it puts in the
\* active model or a profile has succeeded.
LEMMA WritePreserves ==
  ASSUME IInv, NEW t \in Threads,
         \/ TrainAbandoned(t) \/ ActivateWrite(t) \/ SaveWrite(t) \/ DeleteWrite(t)
         \/ SelectWrite(t) \/ StartWrite(t) \/ Refuse(t)
  PROVE  IInv'
<1> USE OfficialAssumption DEF IInv, db, device
<1>1. req[t] # None /\ Done(t) /\ UNCHANGED <<up, run>>
  BY DEF TrainAbandoned, ActivateWrite, SaveWrite, DeleteWrite, SelectWrite, StartWrite,
         Refuse, Pending
<1>2. /\ req' \in [Threads -> Requests \cup {None}] /\ lock' \in Threads \cup {None}
      /\ LockIsExclusive' /\ LiveRunIsRunning' /\ CarriesSucceeded' /\ FailsItsOwn'
  BY <1>1, DoneFacts
<1>3. SingleFlight'
  BY <1>1 DEF SingleFlight, Running
<1> DEFINE Same == UNCHANGED <<active, profile, official, session, snapshot>>
<1>4. \/ Same
      \/ \E r \in Runs : /\ run[r] = "succeeded" /\ active' = r
                         /\ UNCHANGED <<profile, official, session, snapshot>>
      \/ \E r \in Runs \cup {None}, d \in Devices :
           /\ Succeeded(r) /\ profile' = [profile EXCEPT ![d] = r]
           /\ UNCHANGED <<active, official, session, snapshot>>
      \/ \E d \in Devices : /\ official' \in {official \cup {d}, official \ {d}}
                            /\ UNCHANGED <<active, profile, session, snapshot>>
      \/ \E r \in Runs \cup {None}, d \in Devices :
           /\ Succeeded(r) /\ snapshot' = [snapshot EXCEPT ![d] = r]
           /\ session' = [session EXCEPT ![d] = "active"]
           /\ UNCHANGED <<active, profile, official>>
  <2>1. CASE TrainAbandoned(t) \/ Refuse(t)
    BY <2>1 DEF TrainAbandoned, Refuse
  <2>2. CASE ActivateWrite(t)
    <3>1. req[t].r \in Runs /\ run[req[t].r] = "succeeded"
      BY <2>2, PendingShape DEF ActivateWrite, CarriesSucceeded
    <3> QED
      BY <2>2, <3>1 DEF ActivateWrite
  <2>3. CASE SaveWrite(t)
    <3>1. req[t].r \in Runs /\ req[t].d \in Devices /\ run[req[t].r] = "succeeded"
      BY <2>3, PendingShape DEF SaveWrite, CarriesSucceeded
    <3> QED
      BY <2>3, <3>1 DEF SaveWrite, Succeeded
  <2>4. CASE DeleteWrite(t)
    <3>1. req[t].d \in Devices
      BY <2>4, PendingShape DEF DeleteWrite
    <3> QED
      BY <2>4, <3>1 DEF DeleteWrite, Succeeded
  <2>5. CASE SelectWrite(t)
    <3>1. req[t].d \in Devices
      BY <2>5, PendingShape DEF SelectWrite
    <3> QED
      BY <2>5, <3>1 DEF SelectWrite
  <2>6. CASE StartWrite(t)
    <3>1. req[t].d \in Devices
      BY <2>6, PendingShape DEF StartWrite
    <3>2. Succeeded(profile[req[t].d]) /\ profile[req[t].d] \in Runs \cup {None}
      BY <3>1 DEF Provenance, TypeOK
    <3> QED
      BY <2>6, <3>1, <3>2 DEF StartWrite, Succeeded
  <2> QED
    BY <2>1, <2>2, <2>3, <2>4, <2>5, <2>6
<1>5. TypeOK'
  BY <1>1, <1>2, <1>4 DEF TypeOK
<1>6. Provenance'
  BY <1>1, <1>4 DEF Provenance, Succeeded, TypeOK
<1> QED
  BY <1>2, <1>3, <1>5, <1>6

\* A crash clears the requests of the process, and its lock.
LEMMA CrashPreserves ==
  ASSUME IInv, NEW s \in Servers, Crash(s)
  PROVE  IInv'
<1> USE OfficialAssumption DEF IInv, db, device
<1>1. TypeOK'
  BY DEF Crash, TypeOK
<1>2. \A u \in Threads : req'[u] = IF Home[u] = s THEN None ELSE req[u]
  BY DEF Crash
<1>3. LockIsExclusive'
  BY <1>2 DEF Crash, LockIsExclusive, NeedsLock, Pending, TypeOK
<1>4. LiveRunIsRunning' /\ CarriesSucceeded' /\ FailsItsOwn'
  BY <1>2 DEF Crash, LiveRunIsRunning, CarriesSucceeded, FailsItsOwn, Pending
<1>5. SingleFlight' /\ Provenance'
  BY DEF Crash, SingleFlight, Running, Provenance, Succeeded
<1> QED
  BY <1>1, <1>3, <1>4, <1>5

\* Recovery happens with the lock free, so that no thread is training.
LEMMA BootPreserves ==
  ASSUME IInv, NEW s \in Servers, Boot(s)
  PROVE  IInv'
<1> USE OfficialAssumption DEF IInv, device
<1>1. /\ lock = None
      /\ run' = [r \in Runs |-> IF run[r] = "running" THEN "failed" ELSE run[r]]
      /\ UNCHANGED <<lock, req, active, profile, official, session, snapshot>>
  BY DEF Boot
<1>2. TypeOK'
  BY <1>1 DEF Boot, TypeOK
<1>3. \A t \in Threads : ~NeedsLock(t)
  BY <1>1 DEF LockIsExclusive
<1>4. LockIsExclusive' /\ LiveRunIsRunning' /\ CarriesSucceeded'
  BY <1>1, <1>3 DEF LockIsExclusive, LiveRunIsRunning, CarriesSucceeded, NeedsLock, Pending
<1>5. \A r \in Runs : run'[r] # "running" /\ (run[r] = "succeeded" => run'[r] = "succeeded")
  BY <1>1
<1>6. FailsItsOwn'
  <2>1. \A r \in Runs : run[r] # "absent" => run'[r] # "absent"
    BY <1>1
  <2>2. \A t \in Threads : Pending(t, "fail") => req[t].r \in Runs
    BY PendingShape
  <2> QED
    BY <1>1, <2>1, <2>2 DEF FailsItsOwn, Pending
<1>7. SingleFlight'
  BY <1>5 DEF SingleFlight, Running
<1>8. Provenance'
  BY <1>1, <1>5 DEF Provenance, Succeeded, TypeOK
<1> QED
  BY <1>2, <1>4, <1>6, <1>7, <1>8

\* The inductive invariant is kept by every step.
LEMMA NextIInv == IInv /\ [Next]_vars => IInv'
<1> SUFFICES ASSUME IInv, [Next]_vars PROVE IInv'
  OBVIOUS
<1> USE OfficialAssumption
<1>1. CASE UNCHANGED vars
  BY <1>1 DEF vars, IInv, TypeOK, LockIsExclusive, NeedsLock, LiveRunIsRunning, SingleFlight,
     Running, Provenance, Succeeded, CarriesSucceeded, FailsItsOwn, Pending
<1>2. ASSUME NEW t \in Threads, NEW r \in Runs, TrainBegin(t, r) PROVE IInv'
  BY <1>2, TrainBeginPreserves
<1>3. ASSUME NEW t \in Threads, NEW r \in Runs, ActivateCheck(t, r) PROVE IInv'
  <2> DEFINE what == [op |-> "activate", r |-> r]
  <2>1. what \in Requests /\ what.op = "activate" /\ what.r = r
    BY DEF Requests
  <2>2. /\ req[t] = None /\ Acquire(t) /\ Accept(t, what)
        /\ run[r] = "succeeded" /\ UNCHANGED <<up, db>>
    BY <1>3 DEF ActivateCheck, Idle
  <2> HIDE DEF what
  <2> QED
    BY <2>1, <2>2, AcceptLocked
<1>4. ASSUME NEW t \in Threads, NEW d \in Devices, SaveCheck(t, d) PROVE IInv'
  <2> DEFINE what == [op |-> "save", d |-> d, r |-> active]
  <2>1. active \in Runs /\ run[active] = "succeeded"
    BY <1>4 DEF SaveCheck, IInv, TypeOK, Provenance, Succeeded
  <2>2. what \in Requests /\ what.op = "save" /\ what.r = active
    BY <2>1 DEF Requests
  <2>3. req[t] = None /\ Acquire(t) /\ Accept(t, what) /\ UNCHANGED <<up, db>>
    BY <1>4 DEF SaveCheck, Idle
  <2> HIDE DEF what
  <2> QED
    BY <2>1, <2>2, <2>3, AcceptLocked
<1>5. ASSUME NEW t \in Threads, NEW d \in Devices, DeleteCheck(t, d) PROVE IInv'
  <2> DEFINE what == [op |-> "delete", d |-> d]
  <2>1. what \in Requests /\ what.op = "delete"
    BY DEF Requests
  <2>2. req[t] = None /\ Accept(t, what) /\ UNCHANGED <<up, lock, db>>
    BY <1>5 DEF DeleteCheck, Idle
  <2> HIDE DEF what
  <2> QED
    BY <2>1, <2>2, AcceptPlain
<1>6. ASSUME NEW t \in Threads, NEW d \in Devices, NEW o \in BOOLEAN, SelectCheck(t, d, o)
      PROVE IInv'
  <2> DEFINE what == [op |-> "select", d |-> d, official |-> o]
  <2>1. what \in Requests /\ what.op = "select"
    BY DEF Requests
  <2>2. req[t] = None /\ Accept(t, what) /\ UNCHANGED <<up, lock, db>>
    BY <1>6 DEF SelectCheck, Idle
  <2> HIDE DEF what
  <2> QED
    BY <2>1, <2>2, AcceptPlain
<1>7. ASSUME NEW t \in Threads, NEW d \in Devices, StartRead(t, d) PROVE IInv'
  <2> DEFINE what == [op |-> "start", d |-> d, official |-> d \in official]
  <2>1. what \in Requests /\ what.op = "start"
    BY DEF Requests
  <2>2. req[t] = None /\ Accept(t, what) /\ UNCHANGED <<up, lock, db>>
    BY <1>7 DEF StartRead, Idle
  <2> HIDE DEF what
  <2> QED
    BY <2>1, <2>2, AcceptPlain
<1>8. ASSUME NEW t \in Threads, Write(t) \/ TrainFails(t) \/ TrainAbandoned(t) \/ Refuse(t)
      PROVE  IInv'
  BY <1>8, TrainEndPreserves, TrainFailsPreserves, WritePreserves DEF Write
<1>9. ASSUME NEW d \in Devices, Stop(d) PROVE IInv'
  BY <1>9 DEF Stop, IInv, TypeOK, LockIsExclusive, NeedsLock, LiveRunIsRunning, SingleFlight,
     Running, Provenance, Succeeded, CarriesSucceeded, FailsItsOwn, Pending
<1>10. ASSUME NEW s \in Servers, Crash(s) \/ Boot(s) PROVE IInv'
  BY <1>10, CrashPreserves, BootPreserves
<1> QED
  BY <1>1, <1>2, <1>3, <1>4, <1>5, <1>6, <1>7, <1>8, <1>9, <1>10 DEF Next

\* The inductive invariant of the experiment store.
THEOREM Invariance == Spec => []IInv
<1>1. Init => IInv
  BY InitIInv
<1>2. IInv /\ [Next]_vars => IInv'
  BY NextIInv
<1> QED
  BY <1>1, <1>2, PTL DEF Spec

\* Type correctness.
THEOREM TypeCorrect == Spec => []TypeOK
<1>1. IInv => TypeOK
  BY DEF IInv
<1> QED
  BY <1>1, Invariance, PTL

\* The artifact lock excludes across threads, processes and crashes.
THEOREM LockExcludes == Spec => []LockIsExclusive
<1>1. IInv => LockIsExclusive
  BY DEF IInv
<1> QED
  BY <1>1, Invariance, PTL

\* A recovery fails only runs whose trainer is gone.
THEOREM LiveRunsAreSpared == Spec => []LiveRunIsRunning
<1>1. IInv => LiveRunIsRunning
  BY DEF IInv
<1> QED
  BY <1>1, Invariance, PTL

\* At most one training run is running.
THEOREM OneTraining == Spec => []SingleFlight
<1>1. IInv => SingleFlight
  BY DEF IInv
<1> QED
  BY <1>1, Invariance, PTL

\* Only artifacts of runs that succeeded are active, profiled or frozen.
THEOREM ProvenanceHolds == Spec => []Provenance
<1>1. IInv => Provenance
  BY DEF IInv
<1> QED
  BY <1>1, Invariance, PTL

\* The outcome of a run never changes.
THEOREM OutcomesStay == Spec => EndedRunsStay
<1>1. IInv /\ [Next]_vars =>
        [\A r \in Runs : run[r] \in {"succeeded", "failed"} => run'[r] = run[r]]_vars
  <2> SUFFICES ASSUME IInv, Next, NEW r \in Runs, run[r] \in {"succeeded", "failed"}
               PROVE  run'[r] = run[r]
    OBVIOUS
  <2>1. ASSUME NEW t \in Threads, NEW q \in Runs, TrainBegin(t, q) PROVE run'[r] = run[r]
    BY <2>1 DEF TrainBegin, IInv, TypeOK
  <2>2. ASSUME NEW t \in Threads, TrainEnd(t) \/ FailWrite(t) PROVE run'[r] = run[r]
    BY <2>2, PendingShape DEF TrainEnd, FailWrite, EndRun, IInv, TypeOK
  <2>3. ASSUME NEW s \in Servers, Boot(s) PROVE run'[r] = run[r]
    BY <2>3 DEF Boot
  <2> QED
    BY <2>1, <2>2, <2>3
       DEF Next, Write, ActivateCheck, TrainFails, TrainAbandoned, SaveCheck, DeleteCheck, StartRead,
           SelectCheck, ActivateWrite, SaveWrite, DeleteWrite, SelectWrite, StartWrite,
           Refuse, Stop, Crash, db
<1> QED
  BY <1>1, Invariance, PTL DEF Spec, EndedRunsStay

-----------------------------------------------------------------------------
(* One request at a time *)

\* What an activation, a save or a deletion has checked of the collections.
StillHolds ==
  \A t \in Threads :
    /\ Pending(t, "activate") => \A d \in Devices : ~SensorTest(d)
    /\ Pending(t, "save") \/ Pending(t, "delete") => ~Collecting(req[t].d)

\* The inductive invariant of requests that are alone: nothing is started
\* between the check of a request and its write.
AloneInv == OneRequest /\ StillHolds /\ ActivationFrozen /\ ProfileFrozen

\* A request that has checked the collections itself, while nothing else changes.
LEMMA AloneChecks ==
  ASSUME TypeOK, AloneInv, NEW t \in Threads, NEW what \in Requests, Accept(t, what),
         UNCHANGED db, OneRequest',
         what.op = "activate" => \A d \in Devices : ~SensorTest(d),
         what.op \in {"save", "delete"} => ~Collecting(what.d)
  PROVE  AloneInv'
<1> USE DEF db, device
<1>1. \A u \in Threads : /\ u # t => req'[u] = req[u]
                         /\ u = t => req'[u] = what
  BY DEF Accept, TypeOK
<1>2. StillHolds'
  BY <1>1 DEF AloneInv, StillHolds, Pending, SensorTest, Collecting
<1>3. ActivationFrozen' /\ ProfileFrozen'
  BY DEF AloneInv, ActivationFrozen, ProfileFrozen, SensorTest, Collecting
<1> QED
  BY <1>2, <1>3 DEF AloneInv

\* When the one request ends, no request is left.
LEMMA AloneEnds ==
  ASSUME TypeOK, OneRequest, NEW t \in Threads, req[t] # None, Done(t)
  PROVE  \A u \in Threads : req'[u] = None
BY DEF OneRequest, Done, TypeOK

\* The write of the one request, or its refusal, leaves every running sensor
\* test with the model and the profile it was started with.
LEMMA AloneWrites ==
  ASSUME TypeOK, AloneInv, NEW t \in Threads,
         Write(t) \/ TrainAbandoned(t) \/ Refuse(t), OneRequest'
  PROVE  AloneInv'
<1> USE DEF device, db, SensorTest, Collecting
<1>1. req[t] # None /\ Done(t)
  BY DEF Write, TrainEnd, FailWrite, TrainAbandoned, ActivateWrite, SaveWrite, DeleteWrite,
         SelectWrite, StartWrite, Refuse, Pending
<1>2. \A u \in Threads : req'[u] = None
  BY <1>1, AloneEnds DEF AloneInv
<1>3. StillHolds'
  BY <1>2 DEF StillHolds, Pending
<1>4. ActivationFrozen' /\ ProfileFrozen'
  <2> USE DEF AloneInv, ActivationFrozen, ProfileFrozen
  <2>1. CASE TrainEnd(t) \/ FailWrite(t) \/ TrainAbandoned(t) \/ SelectWrite(t) \/ Refuse(t)
    BY <2>1 DEF TrainEnd, FailWrite, TrainAbandoned, SelectWrite, Refuse
  <2>2. CASE ActivateWrite(t)
    BY <2>2 DEF ActivateWrite, StillHolds
  <2>3. CASE SaveWrite(t) \/ DeleteWrite(t)
    <3>1. ~Collecting(req[t].d)
      BY <2>3 DEF SaveWrite, DeleteWrite, StillHolds
    <3>2. \A d \in Devices : d # req[t].d => profile'[d] = profile[d]
      BY <2>3 DEF SaveWrite, DeleteWrite, TypeOK
    <3> QED
      BY <2>3, <3>1, <3>2 DEF SaveWrite, DeleteWrite
  <2>4. CASE StartWrite(t)
    <3>1. /\ UNCHANGED <<active, profile>>
          /\ req[t].d \in Devices
          /\ \A d \in Devices : d # req[t].d => /\ session'[d] = session[d]
                                              /\ snapshot'[d] = snapshot[d]
          /\ snapshot'[req[t].d] # None => /\ snapshot'[req[t].d] = profile[req[t].d]
                                           /\ profile[req[t].d] = active
      BY <2>4, PendingShape DEF StartWrite, TypeOK
    <3> QED
      BY <3>1
  <2> QED
    BY <2>1, <2>2, <2>3, <2>4 DEF Write
<1> QED
  BY <1>3, <1>4 DEF AloneInv

\* A stop, a crash, a boot and the start of a training begin no sensor test.
LEMMA AloneOthers ==
  ASSUME TypeOK, AloneInv, OneRequest',
         \/ \E d \in Devices : Stop(d)
         \/ \E s \in Servers : Crash(s) \/ Boot(s)
  PROVE  AloneInv'
<1> USE DEF device, db, SensorTest, Collecting
<1>1. /\ \A d \in Devices : session'[d] = "active" => session[d] = "active"
      /\ UNCHANGED <<active, profile, snapshot>>
  BY DEF Stop, Crash, Boot, TypeOK
<1>2. \A t \in Threads : req'[t] # None => req'[t] = req[t]
  BY DEF Stop, Crash, Boot
<1>3. ASSUME NEW t \in Threads, Pending(t, "activate")' PROVE (\A d \in Devices : ~SensorTest(d))'
  BY <1>1, <1>2, <1>3 DEF AloneInv, StillHolds, Pending
<1>4. ASSUME NEW t \in Threads, Pending(t, "save")' \/ Pending(t, "delete")'
      PROVE  (~Collecting(req[t].d))'
  <2>1. req'[t] = req[t] /\ (Pending(t, "save") \/ Pending(t, "delete"))
    BY <1>2, <1>4 DEF Pending
  <2>2. req[t].d \in Devices /\ session[req[t].d] # "active"
    BY <2>1, PendingShape DEF AloneInv, StillHolds
  <2> QED
    BY <1>1, <2>1, <2>2
<1>5. ActivationFrozen' /\ ProfileFrozen'
  BY <1>1 DEF AloneInv, ActivationFrozen, ProfileFrozen
<1>6. StillHolds'
  BY <1>3, <1>4 DEF StillHolds
<1> QED
  BY <1>5, <1>6 DEF AloneInv

\* The invariant of a request that is alone is kept by every step.
LEMMA AloneNext ==
  ASSUME TypeOK, AloneInv, Next, OneRequest'
  PROVE  AloneInv'
<1> USE OfficialAssumption
<1>1. ASSUME NEW t \in Threads, NEW r \in Runs, TrainBegin(t, r) PROVE AloneInv'
  <2> DEFINE what == [op |-> "fit", r |-> r]
  <2>1. what \in Requests /\ what.op = "fit"
    BY DEF Requests
  <2>2. Accept(t, what) /\ UNCHANGED <<active, device>>
    BY <1>1 DEF TrainBegin
  <2>3. \A u \in Threads : u # t => req'[u] = req[u]
    BY <2>2 DEF Accept, TypeOK
  <2>4. req'[t] = what
    BY <2>2 DEF Accept, TypeOK
  <2> HIDE DEF what
  <2>5. StillHolds'
    BY <2>1, <2>2, <2>3, <2>4
       DEF device, AloneInv, StillHolds, Pending, SensorTest, Collecting
  <2>6. ActivationFrozen' /\ ProfileFrozen'
    BY <2>2 DEF device, AloneInv, ActivationFrozen, ProfileFrozen, SensorTest, Collecting
  <2> QED
    BY <2>5, <2>6 DEF AloneInv
<1>2. ASSUME NEW t \in Threads, NEW r \in Runs, ActivateCheck(t, r) PROVE AloneInv'
  <2> DEFINE what == [op |-> "activate", r |-> r]
  <2>1. what \in Requests /\ what.op = "activate"
    BY DEF Requests
  <2>2. Accept(t, what) /\ UNCHANGED db /\ \A d \in Devices : ~SensorTest(d)
    BY <1>2 DEF ActivateCheck
  <2> HIDE DEF what
  <2> QED
    BY <2>1, <2>2, AloneChecks
<1>3. ASSUME NEW t \in Threads, NEW d \in Devices, SaveCheck(t, d) PROVE AloneInv'
  <2> DEFINE what == [op |-> "save", d |-> d, r |-> active]
  <2>1. what \in Requests /\ what.op = "save" /\ what.d = d
    BY <1>3 DEF Requests, SaveCheck, TypeOK
  <2>2. Accept(t, what) /\ UNCHANGED db /\ ~Collecting(d)
    BY <1>3 DEF SaveCheck
  <2> HIDE DEF what
  <2> QED
    BY <2>1, <2>2, AloneChecks
<1>4. ASSUME NEW t \in Threads, NEW d \in Devices, DeleteCheck(t, d) PROVE AloneInv'
  <2> DEFINE what == [op |-> "delete", d |-> d]
  <2>1. what \in Requests /\ what.op = "delete" /\ what.d = d
    BY DEF Requests
  <2>2. Accept(t, what) /\ UNCHANGED db /\ ~Collecting(d)
    BY <1>4 DEF DeleteCheck
  <2> HIDE DEF what
  <2> QED
    BY <2>1, <2>2, AloneChecks
<1>5. ASSUME NEW t \in Threads, NEW d \in Devices, NEW o \in BOOLEAN,
             SelectCheck(t, d, o) \/ StartRead(t, d)
      PROVE  AloneInv'
  <2> DEFINE select == [op |-> "select", d |-> d, official |-> o]
             start == [op |-> "start", d |-> d, official |-> d \in official]
  <2>1. /\ select \in Requests /\ select.op = "select"
        /\ start \in Requests /\ start.op = "start"
    BY DEF Requests
  <2>2. (Accept(t, select) \/ Accept(t, start)) /\ UNCHANGED db
    BY <1>5 DEF SelectCheck, StartRead
  <2> HIDE DEF select, start
  <2> QED
    BY <2>1, <2>2, AloneChecks
<1>6. ASSUME NEW t \in Threads, Write(t) \/ TrainAbandoned(t) \/ Refuse(t) PROVE AloneInv'
  BY <1>6, AloneWrites
<1>7. ASSUME NEW t \in Threads, TrainFails(t) PROVE AloneInv'
  <2> DEFINE what == [op |-> "fail", r |-> req[t].r]
  <2>1. what \in Requests /\ what.op = "fail"
    BY <1>7, PendingShape DEF TrainFails, Requests
  <2>2. Accept(t, what) /\ UNCHANGED db
    BY <1>7 DEF TrainFails
  <2> HIDE DEF what
  <2> QED
    BY <2>1, <2>2, AloneChecks
<1>8. ASSUME \/ \E d \in Devices : Stop(d)
             \/ \E s \in Servers : Crash(s) \/ Boot(s)
      PROVE  AloneInv'
  BY <1>8, AloneOthers
<1> QED
  BY <1>1, <1>2, <1>3, <1>4, <1>5, <1>6, <1>7, <1>8 DEF Next

\* Whatever else a specification of the experiment store says, if its requests
\* are never about to overlap, a running sensor test keeps its model and profile.
THEOREM AloneFreezes ==
  MCInit /\ [][Next /\ UNCHANGED alone /\ (alone => OneRequest')]_<<vars, alone>>
    => []AloneTestIsFrozen
<1> DEFINE Inv == IInv /\ (alone => AloneInv)
<1>1. MCInit => Inv
  <2> SUFFICES ASSUME MCInit PROVE AloneInv
    BY InitIInv DEF MCInit
  <2> QED
    BY DEF MCInit, Init, AloneInv, OneRequest, StillHolds, ActivationFrozen, ProfileFrozen,
           SensorTest, Collecting, Pending
<1>2. Inv /\ [Next /\ UNCHANGED alone /\ (alone => OneRequest')]_<<vars, alone>> => Inv'
  <2> SUFFICES ASSUME Inv,
                      [Next /\ UNCHANGED alone /\ (alone => OneRequest')]_<<vars, alone>>
               PROVE  Inv'
    OBVIOUS
  <2>1. CASE Next /\ UNCHANGED alone /\ (alone => OneRequest')
    BY <2>1, NextIInv, AloneNext DEF IInv
  <2>2. CASE UNCHANGED <<vars, alone>>
    <3>1. IInv'
      BY <2>2, NextIInv DEF vars
    <3>2. AloneInv => AloneInv'
      BY <2>2 DEF vars, AloneInv, OneRequest, StillHolds, ActivationFrozen, ProfileFrozen,
                  SensorTest, Collecting, Pending
    <3> QED
      BY <2>2, <3>1, <3>2
  <2> QED
    BY <2>1, <2>2
<1>3. Inv => AloneTestIsFrozen
  BY DEF AloneInv, AloneTestIsFrozen
<1> QED
  BY <1>1, <1>2, <1>3, PTL

\* In particular in every run of the instance that is model-checked.
THEOREM AloneFreezesInMC == MCSpec => []AloneTestIsFrozen
<1>1. MCNext => Next /\ UNCHANGED alone /\ (alone => OneRequest')
  BY DEF MCNext
<1> QED
  BY <1>1, AloneFreezes, PTL DEF MCSpec
=============================================================================
