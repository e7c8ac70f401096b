------------------------- MODULE WaterTrainingProofs -------------------------
(* Proofs about WaterTraining, for any recordings, any number of server       *)
(* processes and any evidence recommendations: the sources of an artifact     *)
(* survive every interleaving and every crash, no half-written file is        *)
(* published, and what a published artifact says of its evaluation is true.   *)
EXTENDS WaterTraining, FiniteSetTheorems, WellFoundedInduction, TLAPS

-----------------------------------------------------------------------------
(* The inductive invariant *)

\* The holdout and the tier of one artifact, as HonestEvaluation says of every
\* published one.
Honest(a) ==
  /\ a.train \cap a.test = {} /\ a.train \cup a.test = a.used
  /\ \A part \in {a.train, a.test} : \A c \in Classes : \E t \in a.targets : t[1] \in part /\ t[3] = c
  /\ \A s \in a.train, r \in a.test : Scenario[s] = Scenario[r]
       => \A q \in a.used : Scenario[q] = Scenario[s]
  /\ a.tier # "exploratory" =>
       /\ \A s \in a.train, r \in a.test : Scenario[s] # Scenario[r]
       /\ \E s, r \in a.train : Scenario[s] # Scenario[r]
       /\ Cardinality(a.used) >= MinSessions

\* A target comes from its own session, which had a frozen scenario.
Genuine(t) == t \in Targets /\ t[2] \in Eligible(Recording[t[1]]) /\ Scenario[t[1]] # None

Made(a) ==
  /\ a \in Artifacts /\ Honest(a) /\ a.id \in 1..MaxTrainings
  /\ \A t \in a.targets : Genuine(t)

\* The sources of an artifact are there, in the states st.
Sourced(a, st) == \A s \in a.used : st[s] # "gone"

Shaped(j) ==
  j = [at |-> j.at, chosen |-> j.chosen, todo |-> j.todo, explicit |-> j.explicit,
       targets |-> j.targets, art |-> j.art, staged |-> j.staged, copy |-> j.copy]

\* What a training holds at each of its steps, in the states st, with the archive
\* ar and n trainings made.
Working(j, st, ar, n) ==
  /\ Shaped(j)
  /\ j.at \in {"idle", "read", "stage", "copy", "archive", "publish", "delete"}
  /\ j.at \in {"idle", "read", "delete"} => j.staged = None /\ j.copy = None
  /\ j.at = "read" =>
       /\ n < MaxTrainings /\ j.chosen \subseteq Sessions
       /\ \A s \in j.chosen : st[s] = "completed"
       /\ j.todo \subseteq j.chosen
       /\ \A t \in j.targets : Genuine(t) /\ t[1] \in j.chosen
  /\ j.at \in {"stage", "copy", "archive", "publish"} => Made(j.art) /\ Sourced(j.art, st)
  /\ j.at = "stage" => j.staged = Torn /\ j.copy = None
  /\ j.at = "copy" => j.staged = j.art /\ j.copy = Torn
  /\ j.at = "archive" => j.staged = j.art /\ j.copy = j.art
  /\ j.at = "publish" => j.staged = j.art /\ j.copy = None /\ j.art \in ar

Locked == lock \in Processes \cup {None} /\ \A p \in Processes : job[p].at # "idle" <=> lock = p

Typed ==
  /\ state \in [Sessions -> {"active", "completed", "gone"}]
  /\ labels = [s \in Sessions |-> labels[s]]
  /\ \A s \in Sessions : labels[s] \in [DOMAIN Recording[s] -> Labels]
  /\ trained \in Nat
  /\ job = [p \in Processes |-> job[p]]

Stored ==
  /\ \A a \in archive : Made(a) /\ Sourced(a, state)
  /\ current # None => current \in archive
  /\ \A a \in litter : a # Torn => Made(a) /\ Sourced(a, state)

Jobs == \A p \in Processes : Working(job[p], state, archive, trained)

WaterInv == Typed /\ Locked /\ Stored /\ Jobs

-----------------------------------------------------------------------------
(* The holdout *)

\* A set of natural numbers that is not empty has a least one.
LEMMA LeastNatural ==
  ASSUME NEW S \in SUBSET Nat, S # {}
  PROVE  \E n \in S : \A m \in S : n <= m
<1>1. PICK n \in S : \A m \in S : ~(<<m, n>> \in OpToRel(<, Nat))
  BY NatLessThanWellFounded, WFMin
<1>2. \A m \in S : ~(m < n)
  BY <1>1 DEF OpToRel
<1> QED BY <1>2

\* A finite set of more than one element has two of them.
LEMMA TwoElements ==
  ASSUME NEW S, IsFiniteSet(S), ~(Cardinality(S) < 2)
  PROVE  \E x, y \in S : x # y
<1>1. Cardinality(S) \in Nat /\ Cardinality(S) # 0 /\ Cardinality(S) # 1
  BY FS_CardinalityType
<1>2. S # {} /\ ~\E x : S = {x}
  BY <1>1, FS_EmptySet, FS_Singleton
<1> QED BY <1>2

\* The choice of the holdout is one of the admissible ones, if there is any.
LEMMA HoldoutIsAdmissible ==
  ASSUME NEW targets, SessionsOf(targets) \subseteq Sessions, Holdouts(targets) # {}
  PROVE  GroupHoldout(targets) \in Holdouts(targets)
<1> DEFINE used == SessionsOf(targets)
           size == TestSize(Cardinality(used))
           far(test) == Distance(Cardinality(test), size)
           Far == {far(test) : test \in Holdouts(targets)}
<1>1. \A S \in SUBSET Sessions : IsFiniteSet(S) /\ Cardinality(S) \in Nat
  BY WaterAssumption, FS_Subset, FS_CardinalityType
<1>2. size \in Int
  <2>1. Cardinality(used) \in Nat
    BY <1>1
  <2> QED BY <2>1 DEF TestSize
<1>3. \A test \in Holdouts(targets) : test \subseteq used
  BY DEF Holdouts, Units
<1>4. \A test \in Holdouts(targets) : far(test) \in Nat
  BY <1>1, <1>2, <1>3 DEF Distance
<1>5. PICK n \in Far : \A m \in Far : n <= m
  <2> HIDE DEF far
  <2>1. Far \in SUBSET Nat /\ Far # {}
    BY <1>4
  <2> QED BY <2>1, LeastNatural
<1>6. \E test \in Holdouts(targets) : \A other \in Holdouts(targets) : far(test) <= far(other)
  <2> HIDE DEF far
  <2> QED BY <1>5
<1> QED BY <1>6 DEF GroupHoldout

\* A holdout takes whole scenarios, or there is only one.
LEMMA HoldoutSplits ==
  ASSUME NEW targets, SessionsOf(targets) \subseteq Sessions, NEW test \in Holdouts(targets)
  PROVE  /\ test \subseteq SessionsOf(targets)
         /\ \A s \in SessionsOf(targets) \ test, r \in test : Scenario[s] = Scenario[r]
              => Cardinality(ScenariosOf(SessionsOf(targets))) = 1
<1> DEFINE used == SessionsOf(targets)
<1>1. PICK units \in SUBSET Units(used) : test = UNION units
  BY DEF Holdouts
<1>2. test \subseteq used
  BY <1>1 DEF Units
<1>3. ASSUME NEW s \in used \ test, NEW r \in test, Scenario[s] = Scenario[r],
             Cardinality(ScenariosOf(used)) # 1
      PROVE  FALSE
  <2>1. PICK unit \in units : r \in unit
    BY <1>1
  <2>2. unit \in {{q \in used : Scenario[q] = c} : c \in ScenariosOf(used)}
    BY <1>3 DEF Units
  <2>3. s \in unit
    BY <1>3, <2>1, <2>2
  <2> QED BY <1>1, <1>3, <2>3
<1> QED BY <1>2, <1>3

\* Finitely many sessions have finitely many scenarios.
LEMMA ScenariosAreFinite ==
  ASSUME NEW used \in SUBSET Sessions
  PROVE  IsFiniteSet(ScenariosOf(used))
<1> DEFINE f == [s \in used |-> Scenario[s]]
<1>1. IsFiniteSet(used)
  BY WaterAssumption, FS_Subset
<1>2. f \in Surjection(used, ScenariosOf(used))
  BY DEF Surjection, ScenariosOf
<1> QED BY <1>1, <1>2, FS_Surjection

\* With one scenario, it is the scenario of all.
LEMMA OneScenario ==
  ASSUME NEW used \in SUBSET Sessions, Cardinality(ScenariosOf(used)) = 1
  PROVE  \A s, q \in used : Scenario[q] = Scenario[s]
<1> DEFINE C == ScenariosOf(used)
<1>1. IsFiniteSet(C)
  BY ScenariosAreFinite
<1>2. PICK c : C = {c}
  BY <1>1, FS_Singleton
<1>3. \A s \in used : Scenario[s] \in C
  BY DEF ScenariosOf
<1> QED BY <1>2, <1>3

\* What is trained on is honest about its split and its evidence.
LEMMA ArtifactIsMade ==
  ASSUME NEW id \in 1..MaxTrainings, NEW targets, \A t \in targets : Genuine(t), Ready(targets)
  PROVE  Made(Artifact(id, targets))
<1> DEFINE used == SessionsOf(targets)
           test == GroupHoldout(targets)
           train == used \ test
           tier == EvidenceTier(targets)
           a == Artifact(id, targets)
<1>1. used \subseteq Sessions
  BY DEF SessionsOf, Genuine, Targets
<1>2. test \in Holdouts(targets)
  BY <1>1, HoldoutIsAdmissible DEF Ready
<1>3. test \subseteq used
  BY <1>1, <1>2, HoldoutSplits
<1>4. \A s \in train, r \in test : Scenario[s] = Scenario[r]
        => Cardinality(ScenariosOf(used)) = 1
  BY <1>1, <1>2, HoldoutSplits
<1>5. \A part \in {train, test} : \A c \in Classes : \E t \in targets : t[1] \in part /\ t[3] = c
  <2>1. ClassesOf(Of(targets, test)) = Classes /\ ClassesOf(Of(targets, train)) = Classes
    BY <1>2 DEF Holdouts
  <2>2. ASSUME NEW part, ClassesOf(Of(targets, part)) = Classes, NEW c \in Classes
        PROVE  \E t \in targets : t[1] \in part /\ t[3] = c
    BY <2>2 DEF ClassesOf, Of
  <2> HIDE DEF test, used, train
  <2> QED BY <2>1, <2>2
<1>6. \A s \in train, r \in test : Scenario[s] = Scenario[r]
        => \A q \in used : Scenario[q] = Scenario[s]
  <2>1. train \subseteq used
    OBVIOUS
  <2> HIDE DEF test, used, train
  <2> QED BY <1>1, <1>4, <2>1, OneScenario DEF used
<1>7. ASSUME tier # "exploratory"
      PROVE  /\ Cardinality(ScenariosOf(used)) # 1
             /\ ~(Cardinality(ScenariosOf(train)) < 2)
             /\ Cardinality(used) >= MinSessions
  BY <1>7 DEF EvidenceTier, EvidenceMet
<1>8. ASSUME tier # "exploratory"
      PROVE  /\ \A s \in train, r \in test : Scenario[s] # Scenario[r]
             /\ \E s, r \in train : Scenario[s] # Scenario[r]
             /\ Cardinality(used) >= MinSessions
  <2>1. train \subseteq Sessions
    BY <1>1
  <2> HIDE DEF test, used, train, tier
  <2>2. PICK x, y \in ScenariosOf(train) : x # y
    BY <1>7, <1>8, <2>1, TwoElements, ScenariosAreFinite
  <2>3. \E s, r \in train : Scenario[s] # Scenario[r]
    BY <2>2 DEF ScenariosOf
  <2> QED BY <1>4, <1>7, <1>8, <2>3
<1>9. tier \in {"exploratory", "course_demo", "stronger_demo"}
  BY DEF EvidenceTier
<1>10. /\ a.id = id /\ a.used = used /\ a.targets = targets /\ a.test = test /\ a.train = train
       /\ a.tier = tier
  BY DEF Artifact
<1>11. a \in Artifacts
  <2>1. id \in Nat /\ targets \in SUBSET Targets
    BY WaterAssumption DEF Genuine
  <2>2. test \in SUBSET Sessions /\ train \in SUBSET Sessions
    BY <1>1, <1>3
  <2>3. a = [id |-> id, used |-> used, targets |-> targets, test |-> test, train |-> train,
             tier |-> tier]
    BY DEF Artifact
  <2> HIDE DEF a, test, used, train, tier
  <2> QED BY <1>1, <1>9, <2>1, <2>2, <2>3 DEF Artifacts
<1>12. train \cap test = {} /\ train \cup test = used
  BY <1>3
<1> HIDE DEF a, test, used, train, tier
<1>13. Honest(a)
  BY <1>5, <1>6, <1>8, <1>10, <1>12 DEF Honest
<1> QED BY <1>10, <1>11, <1>13 DEF Made, a

-----------------------------------------------------------------------------
(* One process at a time *)

\* The process that works holds the lock, and the others hold nothing.
LEMMA OthersAreIdle ==
  ASSUME WaterInv, NEW p \in Processes, lock \in {p, None}, NEW q \in Processes, q # p
  PROVE  job[q].at = "idle" /\ \A st, ar, n : Working(job[q], st, ar, n)
<1>1. job[q].at = "idle"
  BY WaterAssumption DEF WaterInv, Locked
<1>2. Shaped(job[q]) /\ job[q].staged = None /\ job[q].copy = None
  BY <1>1 DEF WaterInv, Jobs, Working
<1> QED BY <1>1, <1>2 DEF Working

LEMMA JobKeeps ==
  ASSUME WaterInv, Typed', Stored', NEW p \in Processes, lock \in {p, None},
         NEW j, job' = [job EXCEPT ![p] = j], lock' = IF j.at = "idle" THEN None ELSE p,
         Working(j, state', archive', trained')
  PROVE  WaterInv'
<1>1. job'[p] = j /\ \A q \in Processes \ {p} : job'[q] = job[q]
  BY DEF WaterInv, Typed
<1>2. \A q \in Processes \ {p} : job[q].at = "idle" /\ Working(job[q], state', archive', trained')
  BY OthersAreIdle
<1>3. Jobs'
  BY <1>1, <1>2 DEF Jobs
<1>4. Locked'
  BY <1>1, <1>2, WaterAssumption DEF Locked
<1> QED BY <1>3, <1>4 DEF WaterInv

\* What a process with nothing to do has.
LEMMA IdleWorks == \A st, ar, n : Working(Idle, st, ar, n) /\ Idle.at = "idle"
BY DEF Working, Idle, Shaped

\* The lock is let go and the files stay.
LEMMA ReleaseKeeps ==
  ASSUME WaterInv, NEW p \in Processes, job[p].at # "idle", Release(p), Typed', Stored'
  PROVE  WaterInv'
<1>1. lock = p
  BY DEF WaterInv, Locked
<1> QED BY <1>1, IdleWorks, JobKeeps DEF Release

\* Only the process's own work changes.
LEMMA WorkKeeps ==
  ASSUME WaterInv, NEW p \in Processes, lock \in {p, None},
         UNCHANGED <<state, labels, current, archive, litter, trained>>,
         NEW j, job' = [job EXCEPT ![p] = j], lock' = IF j.at = "idle" THEN None ELSE p,
         Working(j, state, archive, trained)
  PROVE  WaterInv'
<1>1. Typed'
  BY DEF WaterInv, Typed
<1>2. Stored'
  BY DEF WaterInv, Stored
<1> QED BY <1>1, <1>2, JobKeeps

-----------------------------------------------------------------------------
(* Records of which several fields are written *)

LEMMA Begun ==
  ASSUME NEW chosen, NEW explicit, NEW j,
         j = [Idle EXCEPT !.at = "read", !.chosen = chosen, !.todo = chosen, !.explicit = explicit]
  PROVE  j = [at |-> "read", chosen |-> chosen, todo |-> chosen, explicit |-> explicit,
              targets |-> {}, art |-> None, staged |-> None, copy |-> None]
BY DEF Idle

LEMMA Deleting ==
  ASSUME NEW chosen, NEW j, j = [Idle EXCEPT !.at = "delete", !.chosen = chosen]
  PROVE  j = [at |-> "delete", chosen |-> chosen, todo |-> {}, explicit |-> FALSE,
              targets |-> {}, art |-> None, staged |-> None, copy |-> None]
BY DEF Idle

LEMMA Reading ==
  ASSUME NEW r, Shaped(r), NEW todo, NEW targets, NEW j,
         j = [r EXCEPT !.todo = todo, !.targets = targets]
  PROVE  j = [at |-> r.at, chosen |-> r.chosen, todo |-> todo, explicit |-> r.explicit,
              targets |-> targets, art |-> r.art, staged |-> r.staged, copy |-> r.copy]
BY DEF Shaped

LEMMA Staging ==
  ASSUME NEW r, Shaped(r), NEW at, NEW staged, NEW x, NEW j
  PROVE  /\ j = [r EXCEPT !.at = at, !.staged = staged, !.art = x] =>
              j = [at |-> at, chosen |-> r.chosen, todo |-> r.todo, explicit |-> r.explicit,
                   targets |-> r.targets, art |-> x, staged |-> staged, copy |-> r.copy]
         /\ j = [r EXCEPT !.at = at, !.staged = staged, !.copy = x] =>
              j = [at |-> at, chosen |-> r.chosen, todo |-> r.todo, explicit |-> r.explicit,
                   targets |-> r.targets, art |-> r.art, staged |-> staged, copy |-> x]
         /\ j = [r EXCEPT !.at = at, !.copy = x] =>
              j = [at |-> at, chosen |-> r.chosen, todo |-> r.todo, explicit |-> r.explicit,
                   targets |-> r.targets, art |-> r.art, staged |-> r.staged, copy |-> x]
<1>1. ASSUME j = [r EXCEPT !.at = at, !.staged = staged, !.art = x]
      PROVE  j = [at |-> at, chosen |-> r.chosen, todo |-> r.todo, explicit |-> r.explicit,
                  targets |-> r.targets, art |-> x, staged |-> staged, copy |-> r.copy]
  BY <1>1 DEF Shaped
<1>2. ASSUME j = [r EXCEPT !.at = at, !.staged = staged, !.copy = x]
      PROVE  j = [at |-> at, chosen |-> r.chosen, todo |-> r.todo, explicit |-> r.explicit,
                  targets |-> r.targets, art |-> r.art, staged |-> staged, copy |-> x]
  BY <1>2 DEF Shaped
<1>3. ASSUME j = [r EXCEPT !.at = at, !.copy = x]
      PROVE  j = [at |-> at, chosen |-> r.chosen, todo |-> r.todo, explicit |-> r.explicit,
                  targets |-> r.targets, art |-> r.art, staged |-> r.staged, copy |-> x]
  BY <1>3 DEF Shaped
<1> QED BY <1>1, <1>2, <1>3

-----------------------------------------------------------------------------
(* One lemma per action *)

LEMMA StopKeeps == ASSUME WaterInv, NEW s \in Sessions, StopSession(s) PROVE WaterInv'
<1>1. /\ state' = [state EXCEPT ![s] = "completed"] /\ state[s] = "active"
      /\ UNCHANGED <<labels, lock, job, current, archive, litter, trained>>
  BY DEF StopSession
<1>2. Typed'
  BY <1>1 DEF WaterInv, Typed
<1>3. \A q \in Sessions : state'[q] = (IF q = s THEN "completed" ELSE state[q])
  BY <1>1 DEF WaterInv, Typed
<1>4. \A q \in Sessions : (state[q] # "gone" => state'[q] # "gone")
                       /\ (state[q] = "completed" => state'[q] = "completed")
  BY <1>3
<1>5. \A a : Made(a) /\ Sourced(a, state) => Sourced(a, state')
  BY <1>4 DEF Made, Artifacts, Sourced
<1>6. Stored'
  BY <1>1, <1>5 DEF WaterInv, Stored
<1>7. ASSUME NEW q \in Processes PROVE Working(job[q], state', archive, trained)
  <2>1. Working(job[q], state, archive, trained)
    BY DEF WaterInv, Jobs
  <2> QED BY <1>4, <1>5, <2>1 DEF Working
<1>8. Jobs' /\ Locked'
  BY <1>1, <1>7 DEF WaterInv, Jobs, Locked
<1> QED BY <1>2, <1>6, <1>8 DEF WaterInv

LEMMA LabelKeeps ==
  ASSUME WaterInv, NEW s \in Sessions, NEW first, NEW last, NEW l \in Labels,
         SaveLabel(s, first, last, l)
  PROVE  WaterInv'
<1> DEFINE new == [i \in DOMAIN labels[s] |-> IF i \in first..last THEN l ELSE labels[s][i]]
<1>1. /\ labels' = [labels EXCEPT ![s] = new]
      /\ UNCHANGED <<state, lock, job, current, archive, litter, trained>>
  BY DEF SaveLabel
<1>2. new \in [DOMAIN Recording[s] -> Labels]
  <2>1. labels[s] \in [DOMAIN Recording[s] -> Labels]
    BY DEF WaterInv, Typed
  <2> QED BY <2>1
<1> HIDE DEF new
<1>3. Typed'
  BY <1>1, <1>2 DEF WaterInv, Typed
<1>4. Stored' /\ Locked' /\ Jobs'
  BY <1>1 DEF WaterInv, Stored, Locked, Jobs
<1> QED BY <1>3, <1>4 DEF WaterInv

LEMMA StartTrainingKeeps ==
  ASSUME WaterInv, NEW p \in Processes, NEW asked \in SUBSET Sessions, StartTraining(p, asked)
  PROVE  WaterInv'
<1> DEFINE chosen == IF asked = {} THEN Completed ELSE asked
           explicit == asked # {}
           j == [Idle EXCEPT !.at = "read", !.chosen = chosen, !.todo = chosen,
                             !.explicit = explicit]
<1>1. /\ job' = [job EXCEPT ![p] = j] /\ lock = None /\ lock' = p /\ trained < MaxTrainings
      /\ UNCHANGED <<state, labels, current, archive, litter, trained>>
  BY DEF StartTraining
<1>2. chosen \subseteq Sessions /\ \A s \in chosen : state[s] = "completed"
  BY DEF StartTraining, Completed
<1>3. /\ Shaped(j) /\ j.at = "read" /\ j.chosen = chosen /\ j.todo = chosen /\ j.targets = {}
      /\ j.staged = None /\ j.copy = None
  <2> HIDE DEF explicit, chosen
  <2>1. j = [Idle EXCEPT !.at = "read", !.chosen = chosen, !.todo = chosen, !.explicit = explicit]
    OBVIOUS
  <2> HIDE DEF j
  <2>2. j = [at |-> "read", chosen |-> chosen, todo |-> chosen, explicit |-> explicit,
             targets |-> {}, art |-> None, staged |-> None, copy |-> None]
    BY <2>1, Begun
  <2> QED BY <2>2 DEF Shaped
<1> HIDE DEF j, chosen
<1>4. Working(j, state, archive, trained)
  BY <1>1, <1>2, <1>3 DEF Working
<1> QED BY <1>1, <1>3, <1>4, WorkKeeps

\* The targets of a session come from whole windows of its recording.
LEMMA TargetsAreGenuine ==
  ASSUME NEW s \in Sessions, NEW rowLabels
  PROVE  \A t \in TargetsWith(s, rowLabels) : Genuine(t) /\ t[1] = s
<1> SUFFICES ASSUME NEW t \in TargetsWith(s, rowLabels) PROVE Genuine(t) /\ t[1] = s
  OBVIOUS
<1>1. Scenario[s] # None
  BY DEF TargetsWith
<1>2. PICK i \in Eligible(Recording[s]) : t = <<s, i, rowLabels[i]>> /\ t[3] \in Classes
  BY <1>1 DEF TargetsWith
<1>3. t[1] = s /\ t[2] = i /\ t \in Targets
  BY <1>2 DEF Targets
<1> QED BY <1>1, <1>2, <1>3 DEF Genuine

LEMMA ReadKeeps ==
  ASSUME WaterInv, NEW p \in Processes, NEW s \in Sessions, ReadSession(p, s) PROVE WaterInv'
<1> DEFINE more == TargetsWith(s, labels[s])
           j == [job[p] EXCEPT !.todo = @ \ {s}, !.targets = @ \cup more]
<1>1. /\ job' = [job EXCEPT ![p] = j] /\ job[p].at = "read" /\ s \in job[p].todo
      /\ UNCHANGED <<state, labels, lock, current, archive, litter, trained>>
  BY DEF ReadSession, WaterInv, Typed
<1>2. Working(job[p], state, archive, trained)
  BY DEF WaterInv, Jobs
<1>3. \A t \in more : Genuine(t) /\ t[1] = s
  BY TargetsAreGenuine
<1> HIDE DEF more
<1>4. j = [at |-> job[p].at, chosen |-> job[p].chosen, todo |-> job[p].todo \ {s},
           explicit |-> job[p].explicit, targets |-> job[p].targets \cup more,
           art |-> job[p].art, staged |-> job[p].staged, copy |-> job[p].copy]
  <2> DEFINE r == job[p]
             todo == r.todo \ {s}
             targets == r.targets \cup more
  <2>1. Shaped(r) /\ j = [r EXCEPT !.todo = todo, !.targets = targets]
    BY <1>2 DEF Working
  <2> HIDE DEF j, r, todo, targets
  <2>2. j = [at |-> r.at, chosen |-> r.chosen, todo |-> todo, explicit |-> r.explicit,
             targets |-> targets, art |-> r.art, staged |-> r.staged, copy |-> r.copy]
    BY <2>1, Reading DEF Shaped
  <2> QED BY <2>2 DEF r, todo, targets
<1> HIDE DEF j
<1>5. /\ Shaped(j) /\ j.at = "read" /\ j.chosen = job[p].chosen /\ j.todo \subseteq job[p].todo
      /\ j.targets = job[p].targets \cup more
      /\ j.staged = job[p].staged /\ j.copy = job[p].copy
  BY <1>1, <1>4 DEF Shaped
<1>6. Working(j, state, archive, trained)
  BY <1>1, <1>2, <1>3, <1>5 DEF Working
<1>7. lock = p /\ lock' = p
  BY <1>1 DEF WaterInv, Locked
<1> QED BY <1>1, <1>5, <1>6, <1>7, WorkKeeps

LEMMA RejectKeeps == ASSUME WaterInv, NEW p \in Processes, RejectTraining(p) PROVE WaterInv'
<1>1. Typed' /\ Stored'
  BY DEF RejectTraining, Release, WaterInv, Typed, Stored
<1> QED BY <1>1, ReleaseKeeps DEF RejectTraining

LEMMA FailKeeps == ASSUME WaterInv, NEW p \in Processes, FailTraining(p) PROVE WaterInv'
<1>1. Typed' /\ Stored'
  BY DEF FailTraining, Release, WaterInv, Typed, Stored
<1> QED BY <1>1, ReleaseKeeps DEF FailTraining

\* The artifact that is fitted is honest, and its sources are completed sessions.
LEMMA FitKeeps == ASSUME WaterInv, NEW p \in Processes, Fit(p) PROVE WaterInv'
<1> DEFINE r == job[p]
           at == "stage"
           a == Artifact(trained', r.targets)
           j == [r EXCEPT !.at = at, !.staged = Torn, !.art = a]
<1>1. /\ job' = [job EXCEPT ![p] = j] /\ r.at = "read" /\ Accepted(p) /\ trained' = trained + 1
      /\ UNCHANGED <<state, labels, lock, current, archive, litter>>
  <2>1. job' = [job EXCEPT ![p].at = at, ![p].staged = Torn, ![p].art = a]
    BY DEF Fit
  <2> HIDE DEF a, at
  <2> QED BY <2>1 DEF Fit, WaterInv, Typed
<1>2. Working(r, state, archive, trained) /\ trained \in Nat /\ MaxTrainings \in Nat
  BY WaterAssumption DEF WaterInv, Jobs, Typed
<1>3. Made(a)
  <2>1. trained' \in 1..MaxTrainings /\ Ready(r.targets) /\ \A t \in r.targets : Genuine(t)
    BY <1>1, <1>2 DEF Working, Accepted
  <2> QED BY <2>1, ArtifactIsMade
<1>4. Sourced(a, state)
  <2>1. a.used = {t[1] : t \in r.targets}
    BY DEF Artifact, SessionsOf
  <2>2. \A t \in r.targets : state[t[1]] = "completed"
    BY <1>1, <1>2 DEF Working
  <2> QED BY <2>1, <2>2 DEF Sourced
<1> HIDE DEF a
<1>5. /\ Shaped(j) /\ j.at = "stage" /\ j.art = a /\ j.staged = Torn /\ j.copy = None
  <2>1. Shaped(r) /\ r.copy = None
    BY <1>1, <1>2 DEF Working
  <2>2. j = [r EXCEPT !.at = at, !.staged = Torn, !.art = a]
    OBVIOUS
  <2> HIDE DEF j, r, at
  <2>3. j = [at |-> at, chosen |-> r.chosen, todo |-> r.todo, explicit |-> r.explicit,
             targets |-> r.targets, art |-> a, staged |-> Torn, copy |-> r.copy]
    BY <2>1, <2>2, Staging DEF Shaped
  <2> QED BY <2>1, <2>3 DEF Shaped, at
<1> HIDE DEF j
<1>6. Working(j, state, archive, trained')
  BY <1>3, <1>4, <1>5 DEF Working
<1>7. lock = p /\ lock' = p
  BY <1>1 DEF WaterInv, Locked
<1>8. Typed' /\ Stored'
  <2>1. Stored'
    BY <1>1 DEF WaterInv, Stored
  <2>2. job' = [q \in Processes |-> job'[q]]
    <3> HIDE DEF r
    <3> QED BY <1>1 DEF WaterInv, Typed
  <2>3. trained' \in Nat
    BY <1>1, <1>2
  <2> QED BY <1>1, <2>1, <2>2, <2>3 DEF WaterInv, Typed
<1> QED BY <1>1, <1>5, <1>6, <1>7, <1>8, JobKeeps

LEMMA StageKeeps == ASSUME WaterInv, NEW p \in Processes, StageArtifact(p) PROVE WaterInv'
<1> DEFINE r == job[p]
           at == "copy"
           a == r.art
           j == [r EXCEPT !.at = at, !.staged = a, !.copy = Torn]
<1>1. /\ job' = [job EXCEPT ![p] = j] /\ r.at = "stage"
      /\ UNCHANGED <<state, labels, lock, current, archive, litter, trained>>
  <2>1. job' = [job EXCEPT ![p].at = at, ![p].staged = a, ![p].copy = Torn]
    BY DEF StageArtifact
  <2> HIDE DEF a, at
  <2> QED BY <2>1 DEF StageArtifact, WaterInv, Typed
<1>2. Working(r, state, archive, trained)
  BY DEF WaterInv, Jobs
<1>3. /\ Shaped(j) /\ j.at = "copy" /\ j.art = a /\ j.staged = a /\ j.copy = Torn
  <2>1. Shaped(r)
    BY <1>2 DEF Working
  <2> HIDE DEF a
  <2>2. j = [r EXCEPT !.at = at, !.staged = a, !.copy = Torn]
    OBVIOUS
  <2> HIDE DEF j, r, at
  <2>3. j = [at |-> at, chosen |-> r.chosen, todo |-> r.todo, explicit |-> r.explicit,
             targets |-> r.targets, art |-> r.art, staged |-> a, copy |-> Torn]
    BY <2>1, <2>2, Staging DEF Shaped
  <2> QED BY <2>3 DEF Shaped, at, a
<1> HIDE DEF j
<1>4. Working(j, state, archive, trained)
  BY <1>1, <1>2, <1>3 DEF Working
<1>5. lock = p /\ lock' = p
  BY <1>1 DEF WaterInv, Locked
<1> QED BY <1>1, <1>3, <1>4, <1>5, WorkKeeps

LEMMA CopyKeeps == ASSUME WaterInv, NEW p \in Processes, CopyArtifact(p) PROVE WaterInv'
<1> DEFINE r == job[p]
           at == "archive"
           a == r.staged
           j == [r EXCEPT !.at = at, !.copy = a]
<1>1. /\ job' = [job EXCEPT ![p] = j] /\ r.at = "copy"
      /\ UNCHANGED <<state, labels, lock, current, archive, litter, trained>>
  <2>1. job' = [job EXCEPT ![p].at = at, ![p].copy = a]
    BY DEF CopyArtifact
  <2> HIDE DEF a, at
  <2> QED BY <2>1 DEF CopyArtifact, WaterInv, Typed
<1>2. Working(r, state, archive, trained)
  BY DEF WaterInv, Jobs
<1>3. /\ Shaped(j) /\ j.at = "archive" /\ j.art = r.art /\ j.staged = a /\ j.copy = a
  <2>1. Shaped(r)
    BY <1>2 DEF Working
  <2> HIDE DEF a
  <2>2. j = [r EXCEPT !.at = at, !.copy = a]
    OBVIOUS
  <2> HIDE DEF j, r, at
  <2>3. j = [at |-> at, chosen |-> r.chosen, todo |-> r.todo, explicit |-> r.explicit,
             targets |-> r.targets, art |-> r.art, staged |-> r.staged, copy |-> a]
    BY <2>1, <2>2, Staging DEF Shaped
  <2> QED BY <2>3 DEF Shaped, at, a
<1> HIDE DEF j
<1>4. Working(j, state, archive, trained)
  BY <1>1, <1>2, <1>3 DEF Working
<1>5. lock = p /\ lock' = p
  BY <1>1 DEF WaterInv, Locked
<1> QED BY <1>1, <1>3, <1>4, <1>5, WorkKeeps

LEMMA ArchiveKeeps == ASSUME WaterInv, NEW p \in Processes, PublishArchive(p) PROVE WaterInv'
<1> DEFINE r == job[p]
           at == "publish"
           j == [r EXCEPT !.at = at, !.copy = None]
<1>1. /\ job' = [job EXCEPT ![p] = j] /\ r.at = "archive" /\ archive' = archive \cup {r.copy}
      /\ UNCHANGED <<state, labels, lock, current, litter, trained>>
  <2>1. job' = [job EXCEPT ![p].at = at, ![p].copy = None]
    BY DEF PublishArchive
  <2> HIDE DEF at
  <2> QED BY <2>1 DEF PublishArchive, WaterInv, Typed
<1>2. Working(r, state, archive, trained)
  BY DEF WaterInv, Jobs
<1>3. /\ Shaped(j) /\ j.at = "publish" /\ j.art = r.art /\ j.staged = r.staged /\ j.copy = None
  <2>1. Shaped(r)
    BY <1>2 DEF Working
  <2>2. j = [r EXCEPT !.at = at, !.copy = None]
    OBVIOUS
  <2> HIDE DEF j, r, at
  <2>3. j = [at |-> at, chosen |-> r.chosen, todo |-> r.todo, explicit |-> r.explicit,
             targets |-> r.targets, art |-> r.art, staged |-> r.staged, copy |-> None]
    BY <2>1, <2>2, Staging DEF Shaped
  <2> QED BY <2>3 DEF Shaped, at
<1> HIDE DEF j
<1>4. Working(j, state, archive', trained)
  BY <1>1, <1>2, <1>3 DEF Working
<1>5. lock = p /\ lock' = p
  BY <1>1 DEF WaterInv, Locked
<1>6. Typed' /\ Stored'
  <2>1. Made(r.copy) /\ Sourced(r.copy, state)
    BY <1>1, <1>2 DEF Working
  <2> QED BY <1>1, <2>1 DEF WaterInv, Typed, Stored
<1> QED BY <1>1, <1>3, <1>4, <1>5, <1>6, JobKeeps

LEMMA CurrentKeeps == ASSUME WaterInv, NEW p \in Processes, PublishCurrent(p) PROVE WaterInv'
<1>1. /\ current' = job[p].staged /\ job[p].at = "publish" /\ Release(p)
      /\ UNCHANGED <<state, labels, archive, litter, trained>>
  BY DEF PublishCurrent
<1>2. job[p].staged \in archive
  BY <1>1 DEF WaterInv, Jobs, Working
<1>3. Stored'
  BY <1>1, <1>2 DEF WaterInv, Stored
<1>4. Typed'
  BY <1>1 DEF WaterInv, Typed, Release
<1> QED BY <1>1, <1>3, <1>4, ReleaseKeeps

LEMMA StartDeleteKeeps ==
  ASSUME WaterInv, NEW p \in Processes, NEW s \in Sessions, StartDelete(p, s) PROVE WaterInv'
<1> DEFINE j == [Idle EXCEPT !.at = "delete", !.chosen = {s}]
<1>1. /\ job' = [job EXCEPT ![p] = j] /\ lock = None /\ lock' = p
      /\ UNCHANGED <<state, labels, current, archive, litter, trained>>
  BY DEF StartDelete
<1>2. Shaped(j) /\ j.at = "delete" /\ j.staged = None /\ j.copy = None
  <2> DEFINE chosen == {s}
  <2> HIDE DEF chosen
  <2>1. j = [Idle EXCEPT !.at = "delete", !.chosen = chosen]
    BY DEF chosen
  <2> HIDE DEF j
  <2>2. j = [at |-> "delete", chosen |-> chosen, todo |-> {}, explicit |-> FALSE,
             targets |-> {}, art |-> None, staged |-> None, copy |-> None]
    BY <2>1, Deleting
  <2> QED BY <2>2 DEF Shaped
<1> HIDE DEF j
<1>3. Working(j, state, archive, trained)
  BY <1>2 DEF Working
<1> QED BY <1>1, <1>2, <1>3, WorkKeeps

\* No session is deleted that an artifact refers to.
LEMMA FinishDeleteKeeps == ASSUME WaterInv, NEW p \in Processes, FinishDelete(p) PROVE WaterInv'
<1>1. /\ state' = [s \in Sessions |-> IF s \in job[p].chosen /\ MayDelete(s) THEN "gone" ELSE state[s]]
      /\ job[p].at = "delete" /\ Release(p)
      /\ UNCHANGED <<labels, current, archive, litter, trained>>
  BY DEF FinishDelete
<1>2. ASSUME NEW a \in archive \cup litter, Made(a) \/ a = Torn, a # Torn, Sourced(a, state)
      PROVE  Sourced(a, state')
  <2>1. ASSUME NEW s \in a.used PROVE state'[s] # "gone"
    <3>1. a \in ArtifactFiles /\ Verified(a)
      BY <1>2 DEF ArtifactFiles, Verified
    <3>2. ~MayDelete(s)
      BY <2>1, <3>1 DEF MayDelete, Referenced
    <3>3. s \in Sessions
      BY <1>2, <2>1 DEF Made, Artifacts
    <3> QED BY <1>1, <1>2, <2>1, <3>2, <3>3 DEF Sourced
  <2> QED BY <2>1 DEF Sourced
<1>3. \A a : Made(a) => a # Torn
  BY WaterAssumption DEF Made
<1>4. Stored'
  BY <1>1, <1>2, <1>3 DEF WaterInv, Stored
<1>5. Typed'
  <2>1. state' \in [Sessions -> {"active", "completed", "gone"}]
    BY <1>1 DEF WaterInv, Typed
  <2> QED BY <1>1, <2>1 DEF WaterInv, Typed, Release
<1> QED BY <1>1, <1>4, <1>5, ReleaseKeeps

\* What a crash leaves behind is torn, or an artifact whose sources are there.
LEMMA CrashKeeps == ASSUME WaterInv, NEW p \in Processes, Crash(p) PROVE WaterInv'
<1>1. /\ litter' = litter \cup ({job[p].staged, job[p].copy} \ {None})
      /\ job[p].at # "idle" /\ job' = [job EXCEPT ![p] = Idle]
      /\ lock' = IF lock = p THEN None ELSE lock
      /\ UNCHANGED <<state, labels, current, archive, trained>>
  BY DEF Crash
<1>2. lock = p /\ Release(p)
  BY <1>1 DEF WaterInv, Locked, Release
<1>3. \A a \in {job[p].staged, job[p].copy} : a \in {None, Torn} \/ (Made(a) /\ Sourced(a, state))
  BY DEF WaterInv, Jobs, Working
<1>4. Stored'
  BY <1>1, <1>3 DEF WaterInv, Stored
<1>5. Typed'
  BY <1>1 DEF WaterInv, Typed
<1> QED BY <1>1, <1>2, <1>4, <1>5, ReleaseKeeps

-----------------------------------------------------------------------------
(* The theorems *)

LEMMA WaterInit == Init => WaterInv
<1> SUFFICES ASSUME Init PROVE WaterInv
  OBVIOUS
<1>1. Typed
  BY WaterAssumption DEF Init, Typed
<1>2. \A p \in Processes : job[p] = Idle
  BY DEF Init
<1>3. Locked
  BY <1>2, IdleWorks, WaterAssumption DEF Init, Locked
<1>4. Jobs
  BY <1>2, IdleWorks DEF Jobs
<1>5. Stored
  BY DEF Init, Stored
<1> QED BY <1>1, <1>3, <1>4, <1>5 DEF WaterInv

LEMMA WaterStep == WaterInv /\ [Next]_vars => WaterInv'
<1> SUFFICES ASSUME WaterInv, [Next]_vars PROVE WaterInv'
  OBVIOUS
<1>1. CASE UNCHANGED vars
  BY <1>1 DEF vars, WaterInv, Typed, Locked, Stored, Jobs
<1>2. ASSUME NEW s \in Sessions,
             \/ StopSession(s)
             \/ \E i, j \in DOMAIN labels[s], l \in Labels : i <= j /\ SaveLabel(s, i, j, l)
      PROVE  WaterInv'
  BY <1>2, StopKeeps, LabelKeeps
<1>3. ASSUME NEW p \in Processes,
             \/ \E asked \in SUBSET Sessions : StartTraining(p, asked)
             \/ \E s \in Sessions : ReadSession(p, s) \/ StartDelete(p, s)
             \/ RejectTraining(p) \/ Fit(p)
             \/ StageArtifact(p) \/ CopyArtifact(p) \/ PublishArchive(p) \/ PublishCurrent(p)
             \/ FailTraining(p) \/ FinishDelete(p) \/ Crash(p)
      PROVE  WaterInv'
  BY <1>3, StartTrainingKeeps, ReadKeeps, StartDeleteKeeps, RejectKeeps, FitKeeps, StageKeeps,
     CopyKeeps, ArchiveKeeps, CurrentKeeps, FailKeeps, FinishDeleteKeeps, CrashKeeps
<1> QED BY <1>1, <1>2, <1>3 DEF Next

\* The inductive invariant of training, labelling, deletion and crashes holds in
\* every reachable state.
THEOREM WaterInvariance == Spec => []WaterInv
BY WaterInit, WaterStep, PTL DEF Spec

\* Every published artifact is made of what it was trained on.
LEMMA PublishedIsMade == WaterInv => \A a \in Published : Made(a) /\ Sourced(a, state)
BY DEF WaterInv, Stored, Published

\* States, labels, the lock and the published artifacts have the types that
\* simulation_store.py and simulation_model.py give them.
THEOREM WaterTypeCorrect == Spec => []TypeOK
<1>1. WaterInv => TypeOK
  <2> SUFFICES ASSUME WaterInv PROVE TypeOK
    OBVIOUS
  <2>1. \A a \in Published : a.used \subseteq Sessions /\ a.id \in 1..MaxTrainings
    BY PublishedIsMade DEF Made, Artifacts
  <2> QED BY <2>1 DEF WaterInv, Typed, Locked, TypeOK
<1> QED BY <1>1, WaterInvariance, PTL

\* No session whose rows trained an artifact that can still be found is ever
\* deleted, the current model is an archived one and no torn file is published,
\* whichever process trains, deletes or dies: simulation_artifacts.py, main.py
\* _train_custom_simulation_model(), simulation_store.py
\* delete_simulation_session().
THEOREM ModelStaysTraceable == Spec => []ModelIsTraceable
<1>1. WaterInv => ModelIsTraceable
  <2> SUFFICES ASSUME WaterInv PROVE ModelIsTraceable
    OBVIOUS
  <2>1. \A p \in Processes : \A a \in {job[p].staged, job[p].copy} :
          a \in {None, Torn} \/ Sourced(a, state)
    BY DEF WaterInv, Jobs, Working
  <2>2. \A a \in ArtifactFiles \ {Torn} : Sourced(a, state)
    BY <2>1 DEF ArtifactFiles, WaterInv, Stored
  <2>3. Torn \notin Published
    BY PublishedIsMade, WaterAssumption DEF Made
  <2>4. current # None => current \in archive
    BY DEF WaterInv, Stored
  <2> QED BY <2>2, <2>3, <2>4 DEF ModelIsTraceable, SourcesSurvive, CurrentIsArchived, Sourced
<1> QED BY <1>1, WaterInvariance, PTL

\* A published artifact was tested on whole sessions, and scenarios if there are
\* two, that it did not learn from, with both classes on both sides; a tier above
\* exploratory is true: simulation_model.py _group_holdout(),
\* simulation_service.py build_training_dataset().
THEOREM EvaluationsAreHonest == Spec => []HonestEvaluation
<1>1. WaterInv => HonestEvaluation
  <2> SUFFICES ASSUME WaterInv PROVE HonestEvaluation
    OBVIOUS
  <2>1. \A a \in Published : Honest(a)
    BY PublishedIsMade DEF Made
  <2> QED BY <2>1 DEF HonestEvaluation, HonestSplit, EvidenceIsTrue, Honest
<1> QED BY <1>1, WaterInvariance, PTL

-----------------------------------------------------------------------------
(* Windows of a recording *)

Readable(rows) ==
  /\ Len(rows) \in Nat /\ DOMAIN rows = 1..Len(rows)
  /\ \A i \in DOMAIN rows : rows[i].at \in Int
Valid(rows) == {i \in DOMAIN rows : rows[i].ok}
Before(rows, i) == {j \in Valid(rows) : Earlier(rows, j, i)}
Rank(rows, i) == Cardinality(Before(rows, i)) + 1

LEMMA RowsAreFinite ==
  ASSUME NEW rows, Readable(rows), NEW S \in SUBSET DOMAIN rows
  PROVE  IsFiniteSet(S) /\ Cardinality(S) \in Nat
<1>1. IsFiniteSet(DOMAIN rows)
  BY FS_Interval DEF Readable
<1> QED BY <1>1, FS_Subset, FS_CardinalityType

\* The order of reception is strict and total.
LEMMA ReceptionOrder ==
  ASSUME NEW rows, Readable(rows)
  PROVE  \A i, j \in Valid(rows) :
           /\ ~Earlier(rows, i, i)
           /\ Earlier(rows, i, j) \/ Earlier(rows, j, i) \/ i = j
           /\ \A k \in Valid(rows) : Earlier(rows, i, j) /\ Earlier(rows, j, k) => Earlier(rows, i, k)
<1>1. \A i \in Valid(rows) : i \in Int /\ rows[i].at \in Int
  BY DEF Readable, Valid
<1> QED BY <1>1 DEF Earlier

LEMMA RanksDiffer ==
  ASSUME NEW rows, Readable(rows), NEW i \in Valid(rows), NEW k \in Valid(rows), Earlier(rows, i, k)
  PROVE  Rank(rows, i) < Rank(rows, k)
<1> DEFINE A == Before(rows, i)
           B == Before(rows, k)
<1>1. A \cup {i} \subseteq B /\ i \notin A
  BY ReceptionOrder DEF Before
<1>2. A \subseteq DOMAIN rows /\ B \subseteq DOMAIN rows
  BY DEF Before, Valid
<1>3. IsFiniteSet(A) /\ IsFiniteSet(B) /\ Cardinality(A) \in Nat /\ Cardinality(B) \in Nat
  BY <1>2, RowsAreFinite
<1>4. Cardinality(A \cup {i}) = Cardinality(A) + 1
  BY <1>1, <1>3, FS_AddElement
<1>5. Cardinality(A \cup {i}) <= Cardinality(B)
  BY <1>1, <1>3, FS_Subset
<1> QED BY <1>3, <1>4, <1>5 DEF Rank

\* Every rank is the rank of a valid row.
LEMMA RanksAreTaken ==
  ASSUME NEW rows, Readable(rows), NEW k \in 1..Cardinality(Valid(rows))
  PROVE  \E i \in Valid(rows) : Rank(rows, i) = k
<1> DEFINE V == Valid(rows)
           n == Cardinality(V)
           f == [i \in V |-> Rank(rows, i)]
<1>1. IsFiniteSet(V) /\ n \in Nat
  BY RowsAreFinite DEF Valid
<1>2. ASSUME NEW i \in V PROVE Rank(rows, i) \in 1..n
  <2>1. Before(rows, i) \subseteq V \ {i}
    BY ReceptionOrder DEF Before
  <2>2. IsFiniteSet(V \ {i}) /\ Cardinality(V \ {i}) = n - 1
    BY <1>1, FS_RemoveElement
  <2>3. Cardinality(Before(rows, i)) \in Nat /\ Cardinality(Before(rows, i)) <= n - 1
    BY <2>1, <2>2, FS_Subset, FS_CardinalityType
  <2> QED BY <1>1, <2>3 DEF Rank
<1>3. \A i, j \in V : Rank(rows, i) = Rank(rows, j) => i = j
  <2>1. \A i \in V : Rank(rows, i) \in Nat
    BY <1>2
  <2> QED BY <2>1, RanksDiffer, ReceptionOrder
<1>4. IsFiniteSet(1..n) /\ Cardinality(1..n) = n
  BY <1>1, FS_Interval
<1> HIDE DEF n, V
<1>5. f \in Injection(V, 1..n)
  BY <1>2, <1>3 DEF Injection, IsInjective
<1>6. f \in Surjection(V, 1..n)
  BY <1>1, <1>4, <1>5, FS_Injection DEF n
<1> QED BY <1>6 DEF Surjection, n, V

LEMMA OrderedByRank ==
  ASSUME NEW rows, Readable(rows)
  PROVE  /\ Ordered(rows) \in [1..Cardinality(Valid(rows)) -> Valid(rows)]
         /\ Len(Ordered(rows)) = Cardinality(Valid(rows)) /\ Cardinality(Valid(rows)) \in Nat
         /\ \A k \in 1..Cardinality(Valid(rows)) : Rank(rows, Ordered(rows)[k]) = k
<1> DEFINE V == Valid(rows)
           n == Cardinality(V)
           order == Ordered(rows)
<1>1. order = [k \in 1..n |-> CHOOSE i \in V : Rank(rows, i) = k]
  BY DEF Ordered, Rank, Before, Valid
<1>2. n \in Nat
  BY RowsAreFinite DEF Valid
<1>3. ASSUME NEW k \in 1..n PROVE order[k] \in V /\ Rank(rows, order[k]) = k
  BY <1>1, RanksAreTaken
<1> HIDE DEF n, V, order
<1>4. order \in [1..n -> V]
  BY <1>1, <1>3
<1>5. Len(order) = n
  BY <1>2, <1>4
<1> QED BY <1>2, <1>3, <1>4, <1>5 DEF n, V, order

\* The order is the one of reception.
LEMMA OrderedIsSorted ==
  ASSUME NEW rows, Readable(rows), NEW k \in 1..Len(Ordered(rows)), NEW m \in 1..Len(Ordered(rows)), k < m
  PROVE  Earlier(rows, Ordered(rows)[k], Ordered(rows)[m])
<1> DEFINE x == Ordered(rows)[k]
           y == Ordered(rows)[m]
<1>1. x \in Valid(rows) /\ y \in Valid(rows) /\ Rank(rows, x) = k /\ Rank(rows, y) = m
  BY OrderedByRank
<1> HIDE DEF x, y
<1>2. k \in Int /\ m \in Int
  BY OrderedByRank
<1>3. ~Earlier(rows, y, x) /\ x # y
  BY <1>1, <1>2, RanksDiffer
<1> QED BY <1>1, <1>3, ReceptionOrder DEF x, y

\* Induction over the naturals, for a set.
LEMMA SetInduction ==
  ASSUME NEW S, 0 \in S, \A n \in Nat : n \in S => n + 1 \in S
  PROVE  Nat \subseteq S
<1> SUFFICES ASSUME Nat \ S # {} PROVE FALSE
  OBVIOUS
<1> DEFINE R == OpToRel(<, Nat)
           T == Nat \ S
<1>1. IsWellFoundedOn(R, Nat)
  BY NatLessThanWellFounded
<1>2. T \subseteq Nat /\ T # {}
  OBVIOUS
<1> HIDE DEF R
<1>3. PICK x \in T : \A y \in T : ~(<<y, x>> \in R)
  BY <1>1, <1>2, WFMin
<1>4. x \in Nat /\ x # 0 /\ x - 1 \in Nat
  OBVIOUS
<1>5. x - 1 \in T
  BY <1>4
<1>6. <<x - 1, x>> \in R
  <2>1. <<x - 1, x>> \in Nat \X Nat /\ x - 1 < x
    BY <1>4
  <2> QED BY <2>1 DEF R, OpToRel
<1> QED BY <1>3, <1>5, <1>6

\* Between two valid rows of one epoch every row continues the one before it.
LEMMA EpochIsUnbroken ==
  ASSUME NEW rows, Readable(rows), NEW first \in Valid(rows), NEW last \in Valid(rows), first < last,
         Epoch(rows, first) = Epoch(rows, last)
  PROVE  \A k \in first..(last - 1) : Contiguous(rows[k], rows[k + 1])
<1> DEFINE Opened(i) == {j \in 1..i : OpensEpoch(rows, j)}
<1>1. first \in Nat /\ last \in 1..Len(rows) /\ first >= 1 /\ Len(rows) \in Nat /\ last \in Nat
  BY DEF Readable, Valid
<1>2. Opened(first) \subseteq Opened(last) /\ IsFiniteSet(Opened(last))
  <2>1. 1..first \subseteq 1..last /\ IsFiniteSet(1..last)
    BY <1>1, FS_Interval
  <2>2. Opened(last) \in SUBSET (1..last)
    OBVIOUS
  <2> QED BY <2>1, <2>2, FS_Subset
<1>3. Opened(first) = Opened(last)
  <2>1. Cardinality(Opened(first)) = Cardinality(Opened(last))
    BY DEF Epoch
  <2> HIDE DEF Opened
  <2> QED BY <1>2, <2>1, FS_Subset
<1>4. \A j \in (first + 1)..last : ~OpensEpoch(rows, j)
  BY <1>1, <1>3
<1> DEFINE S == {n \in Nat : first <= last - n => rows[last - n].ok
                               /\ (n # 0 => Contiguous(rows[last - n], rows[last - n + 1]))}
<1>5. 0 \in S
  <2>1. rows[last].ok /\ last - 0 = last
    BY <1>1 DEF Valid
  <2> QED BY <2>1
<1>6. ASSUME NEW n \in Nat, n \in S PROVE n + 1 \in S
  <2> SUFFICES ASSUME first <= last - (n + 1)
               PROVE  /\ rows[last - (n + 1)].ok
                      /\ Contiguous(rows[last - (n + 1)], rows[last - (n + 1) + 1])
    OBVIOUS
  <2> DEFINE j == last - n
  <2>1. j \in (first + 1)..last /\ j # 1 /\ rows[j].ok
    BY <1>1, <1>6
  <2>2. Contiguous(rows[j - 1], rows[j])
    BY <1>4, <2>1 DEF OpensEpoch
  <2>3. last - (n + 1) = j - 1 /\ last - (n + 1) + 1 = j
    BY <1>1
  <2> HIDE DEF j
  <2> QED BY <2>2, <2>3 DEF Contiguous
<1> HIDE DEF S
<1>7. Nat \subseteq S
  BY <1>5, <1>6, SetInduction
<1>8. ASSUME NEW k \in first..(last - 1) PROVE Contiguous(rows[k], rows[k + 1])
  <2> DEFINE n == last - k
  <2>1. n \in Nat /\ n # 0 /\ last - n = k /\ first <= last - n
    BY <1>1
  <2>2. n \in S
    BY <1>7, <2>1
  <2> HIDE DEF n
  <2> QED BY <2>1, <2>2 DEF S
<1> QED BY <1>8

\* Of two valid rows of one epoch the later one was received later.
LEMMA EpochIsChronological ==
  ASSUME NEW rows, Readable(rows), NEW first \in Valid(rows), NEW last \in Valid(rows), first < last,
         Epoch(rows, first) = Epoch(rows, last)
  PROVE  rows[first].at < rows[last].at
<1>1. first \in Nat /\ last \in 1..Len(rows) /\ first >= 1 /\ Len(rows) \in Nat /\ last \in Nat
  BY DEF Readable, Valid
<1>2. \A k \in first..(last - 1) : rows[k].at < rows[k + 1].at
  <2>1. \A k \in first..(last - 1) : rows[k + 1].at - rows[k].at \in 1..MaxGap
    BY EpochIsUnbroken DEF Contiguous
  <2>2. \A k \in first..last : rows[k].at \in Int
    BY <1>1 DEF Readable
  <2>3. MaxGap \in Int
    BY WindowAssumption
  <2> QED BY <1>1, <2>1, <2>2, <2>3
<1> DEFINE S == {n \in Nat : n # 0 /\ first + n <= last => rows[first].at < rows[first + n].at}
<1>3. 0 \in S
  OBVIOUS
<1>4. ASSUME NEW n \in Nat, n \in S PROVE n + 1 \in S
  <2> SUFFICES ASSUME first + (n + 1) <= last PROVE rows[first].at < rows[first + (n + 1)].at
    OBVIOUS
  <2>1. rows[first + n].at < rows[(first + n) + 1].at
    BY <1>1, <1>2
  <2>2. first + (n + 1) = (first + n) + 1
    BY <1>1
  <2>3. rows[first].at \in Int /\ rows[first + n].at \in Int /\ rows[(first + n) + 1].at \in Int
    BY <1>1 DEF Readable
  <2>4. CASE n = 0
    BY <1>1, <2>1, <2>2, <2>4
  <2>5. CASE n # 0
    <3>1. rows[first].at < rows[first + n].at
      BY <1>1, <1>4, <2>5
    <3> QED BY <2>1, <2>2, <2>3, <3>1
  <2> QED BY <2>4, <2>5
<1> HIDE DEF S
<1>5. Nat \subseteq S
  BY <1>3, <1>4, SetInduction
<1> DEFINE n == last - first
<1>6. n \in Nat /\ n # 0 /\ first + n = last
  BY <1>1
<1>7. n \in S
  BY <1>5, <1>6
<1> HIDE DEF n
<1>8. rows[first].at < rows[first + n].at
  BY <1>1, <1>6, <1>7 DEF S
<1> QED BY <1>6, <1>8

\* A row whose window is complete ends a run of contiguous rows.
LEMMA WindowIsWhole ==
  ASSUME NEW rows, Readable(rows), NEW i \in Eligible(rows)
  PROVE  /\ i >= Window
         /\ \A k \in (i - Window + 1)..(i - 1) : Contiguous(rows[k], rows[k + 1])
<1> DEFINE order == Ordered(rows)
           V == Valid(rows)
<1>1. PICK n \in Window..Len(order) :
        /\ i = order[n]
        /\ \A m \in (n - Window + 1)..n : Epoch(rows, order[m]) = Epoch(rows, order[n])
  BY DEF Eligible
<1>2. /\ Window \in Nat /\ Window >= 2 /\ Len(order) \in Nat
      /\ \A m \in 1..Len(order) : order[m] \in V
  BY WindowAssumption, OrderedByRank
<1> DEFINE D == (n - Window + 1)..n
<1>3. D \subseteq 1..Len(order) /\ n \in D
  BY <1>2
<1>4. /\ n \in Nat /\ \A m \in D : m \in Nat /\ m <= n
      /\ IsFiniteSet(D) /\ Cardinality(D) = Window
  <2>1. n \in Nat /\ n - Window + 1 \in Int /\ \A m \in D : m \in Nat /\ m <= n
    BY <1>2
  <2>2. IsFiniteSet(D) /\ Cardinality(D) = (IF n - Window + 1 > n THEN 0 ELSE n - (n - Window + 1) + 1)
    BY <2>1, FS_Interval
  <2> HIDE DEF D
  <2> QED BY <1>2, <2>1, <2>2
<1>5. i \in V /\ i \in Nat /\ i >= 1 /\ \A m \in V : m \in Nat /\ m >= 1
  BY <1>1, <1>2, <1>3 DEF Readable, Valid
<1> HIDE DEF D, order, V
\* The rows of the window stand before the last one in the recording too.
<1>6. ASSUME NEW m \in D PROVE order[m] <= i
  <2>1. order[m] \in V /\ Epoch(rows, order[m]) = Epoch(rows, i)
    BY <1>1, <1>2, <1>3 DEF D
  <2>7. order[m] \in Nat /\ i \in Nat
    BY <1>5, <2>1
  <2>2. SUFFICES ASSUME i < order[m] PROVE FALSE
    BY <2>7
  <2>3. rows[i].at < rows[order[m]].at
    BY <1>5, <2>1, <2>2, EpochIsChronological DEF V
  <2>4. m # n /\ m < n
    BY <1>1, <1>4, <2>2, <2>7
  <2>5. Earlier(rows, order[m], i)
    BY <1>1, <1>3, <2>4, OrderedIsSorted DEF order
  <2>6. rows[i].at \in Int /\ rows[order[m]].at \in Int
    BY <1>5, <2>1 DEF Readable, Valid, V
  <2> QED BY <2>3, <2>5, <2>6 DEF Earlier
\* So the first of them is at least Window rows back.
<1>7. PICK m \in D : order[m] <= i - Window + 1
  <2> SUFFICES ASSUME \A m \in D : ~(order[m] <= i - Window + 1) PROVE FALSE
    OBVIOUS
  <2> DEFINE T == (i - Window + 2)..i
             f == [m \in D |-> order[m]]
  <2>1. f \in [D -> T]
    <3>1. \A m \in D : order[m] \in Nat
      BY <1>2, <1>3, <1>5
    <3> QED BY <1>2, <1>5, <1>6, <3>1
  <2>2. i - Window + 2 \in Int /\ i \in Int /\ Window - 1 > 0 /\ Window \in Int
    BY <1>2, <1>5
  <2>3. IsFiniteSet(T) /\ Cardinality(T) = Window - 1
    <3>1. IsFiniteSet(T) /\ Cardinality(T) = (IF i - Window + 2 > i THEN 0 ELSE i - (i - Window + 2) + 1)
      BY <2>2, FS_Interval
    <3> HIDE DEF T
    <3> QED BY <2>2, <3>1
  <2> HIDE DEF T, f
  <2>4. Cardinality(T) < Cardinality(D)
    <3>1. Cardinality(D) = Window /\ Cardinality(T) = Window - 1
      BY <1>4, <2>3, Zenon
    <3> QED BY <2>2, <3>1
  <2>5. PICK x, y \in D : x # y /\ f[x] = f[y]
    <3>1. IsFiniteSet(D) /\ IsFiniteSet(T)
      BY <1>4, <2>3, Zenon
    <3> QED BY <2>1, <2>4, <3>1, FS_PigeonHole, Zenon
  <2>6. order[x] = order[y] /\ x \in 1..Len(order) /\ y \in 1..Len(order)
    BY <1>3, <2>5 DEF f
  <2>7. x = y
    BY <2>6, OrderedByRank DEF order
  <2> QED BY <2>5, <2>7
<1>8. order[m] \in V /\ Epoch(rows, order[m]) = Epoch(rows, i) /\ order[m] \in Nat /\ order[m] >= 1
  BY <1>1, <1>2, <1>3, <1>5 DEF D
<1>9. order[m] < i /\ i >= Window
  BY <1>2, <1>5, <1>7, <1>8
<1>10. \A k \in order[m]..(i - 1) : Contiguous(rows[k], rows[k + 1])
  BY <1>5, <1>8, <1>9, EpochIsUnbroken DEF V
<1>11. (i - Window + 1)..(i - 1) \subseteq order[m]..(i - 1)
  BY <1>2, <1>5, <1>7, <1>8
<1> QED BY <1>9, <1>10, <1>11

\* A published artifact learnt from whole windows only: the rows of each follow one
\* another in the recording, also when the clock was set back during the session:
\* simulation_service.py _valid_training_rows_with_epochs(), simulation_model.py
\* _session_feature_rows().
THEOREM WindowsStayWhole == Spec => []WindowsAreWhole
<1>1. WaterInv => WindowsAreWhole
  <2> SUFFICES ASSUME WaterInv, NEW a \in Published, NEW t \in a.targets
               PROVE  /\ t[2] >= Window /\ Scenario[t[1]] # None
                      /\ \A k \in (t[2] - Window + 1)..(t[2] - 1) :
                           Contiguous(Recording[t[1]][k], Recording[t[1]][k + 1])
    BY DEF WindowsAreWhole
  <2>1. Genuine(t)
    BY PublishedIsMade DEF Made
  <2>2. t[1] \in Sessions
    BY <2>1 DEF Genuine, Targets
  <2>3. Readable(Recording[t[1]])
    BY <2>2, WaterAssumption DEF Readable
  <2> QED BY <2>1, <2>3, WindowIsWhole DEF Genuine
<1> QED BY <1>1, WaterInvariance, PTL

=============================================================================
