----------------------- MODULE OfficialPipelineProofs -----------------------
(* Proofs about OfficialPipeline, for any folders and bundles, any number of   *)
(* threads, runs and sessions, and any samples: what a model learnt is apart   *)
(* from its holdouts, what a profile or a test was made from stays, and a rise *)
(* the calibration saw is never out of the distribution; with one rescan at a  *)
(* time a model names the registration the database holds.                     *)
EXTENDS MCOfficialPipeline, FiniteSetTheorems, TLAPS

-----------------------------------------------------------------------------
(* The inductive invariant *)

FileHashes == [manifest : Bundles, file : Bundles]
Records == [hashes : FileHashes, stamp : Nat]
Items == [folder : Range(Folders), record : Records]

\* What a table that is valid with a manifest may be.
Loaded == {Contents(m, q) : m \in Bundles, q \in Bundles}

\* A rescan between two bundles; one that registers the bundle whose turn it is,
\* with what it knows of it at a step; and a training that loads, or fits.
LookJobs == [step : {"look"}, left : SUBSET DOMAIN Folders, found : Seq(Items)]
TurnJobs(steps, known) ==
  [step : steps, left : (SUBSET DOMAIN Folders) \ {{}}, found : Seq(Items), known : known]
ReadJobs == TurnJobs({"read"}, Bundles)
LookupJobs == TurnJobs({"lookup"}, FileHashes)
RecordJobs == TurnJobs({"write", "replace"}, Records)
ReloadJobs == TurnJobs({"reload"}, {None})
VerifyJobs ==
  TurnJobs({"verify"}, [seen : FileHashes \cup {None}, record : Records, manifest : Bundles])
RescanJobs == LookJobs \cup ReadJobs \cup LookupJobs \cup RecordJobs \cup ReloadJobs \cup VerifyJobs
LoadJobs ==
  [step : {"load"}, r : Runs, dataset : Datasets, sites : SitePicks, folder : Range(Folders),
   record : Records, manifest : Bundles, since : Nat]
FitJobs ==
  [step : {"fit"}, r : Runs, dataset : Datasets, sites : SitePicks, record : Records,
   data : Loaded, undisturbed : BOOLEAN]

Typed ==
  /\ disk \in [Range(Folders) -> [manifest : Bundles, table : Bundles \cup {None}] \cup {None}]
  /\ changes \in Nat /\ stamps \in Nat
  /\ registry \in [Range(Folders) -> Records \cup {None}]
  /\ tmp \in [Range(Folders) -> Records \cup {None}]
  /\ row \in [Datasets -> Items \cup {None}]
  /\ job \in [Threads -> RescanJobs \cup LoadJobs \cup FitJobs \cup {None}]
  /\ run = [r \in Runs |-> run[r]]
  /\ active \in Runs \cup {None}
  /\ session \in
       [Sessions -> [state : {"absent", "active", "completed"}, rises : Seq(Int)]]
  /\ snapshot = [s \in Sessions |-> snapshot[s]]

\* What is trained on was assessed, under the lock and for a run of its own.
Trainable(b, sites) == b \in Loaded /\ BundleValid(b) /\ Ready(b, sites)

FitsAlone ==
  \A t \in Threads : Training(t) =>
    /\ run[job[t].r].status = "absent"
    /\ At(t, "fit") => Trainable(job[t].data, job[t].sites)
    /\ \A u \in Threads : Training(u) => u = t

Models ==
  /\ \A r \in Runs : Succeeded(r) =>
       /\ Trainable(BundleOf(r), run[r].sites)
       /\ run[r].activatable => Activatable(BundleOf(r), run[r].sites)
  /\ active # None => Loads(active)

\* What a profile was made from, and its quantiles, in the states of the sessions.
Made(p) ==
  /\ p.run \in Runs /\ Loads(p.run)
  /\ p.calibration # None =>
       /\ p.calibration \in Sessions /\ InState(p.calibration, "completed")
       /\ Len(session[p.calibration].rises) >= MinCalibration
       /\ p.rises = Quantiles(session[p.calibration].rises)

Profiles ==
  /\ profile # None => Made(profile)
  /\ \A s \in Sessions : snapshot[s] # None =>
       Made(snapshot[s]) /\ ~InState(s, "absent") /\ snapshot[s].calibration # s

Tested ==
  \A x \in tests :
    /\ x.session \in Sessions /\ InState(x.session, "completed")
    /\ snapshot[x.session] # None /\ snapshot[x.session].run = x.run

PipelineInv == Typed /\ FitsAlone /\ Models /\ Profiles /\ Tested

\* With one rescan at a time a registration never changes, so what a rescan found,
\* what the database holds and what a training loads is one record.
Writing(t) == At(t, "write") \/ At(t, "replace")

Kept(item) == registry[item.folder] # None /\ registry[item.folder] = item.record

\* The data of a registration; without a change its very table.
DataOf(data, record, undisturbed) ==
  \E table \in Bundles :
    /\ data = Contents(record.hashes.manifest, table)
    /\ undisturbed => table = record.hashes.manifest

JobKeeps(t) ==
  /\ Training(t) => row[job[t].dataset] # None /\ job[t].record = row[job[t].dataset].record
  /\ At(t, "load") =>
       /\ job[t].since <= changes
       /\ changes = job[t].since =>
            disk[job[t].folder] = [manifest |-> job[t].manifest, table |-> job[t].manifest]
  /\ At(t, "fit") => DataOf(job[t].data, job[t].record, job[t].undisturbed)
  /\ At(t, "verify") => Kept([folder |-> Turn(t), record |-> job[t].known.record])
  /\ Writing(t) => registry[Turn(t)] = None
  /\ job[t] # None /\ ~Training(t) => \A i \in DOMAIN job[t].found : Kept(job[t].found[i])

OneRecord ==
  /\ \A d \in Datasets : row[d] # None => Kept(row[d])
  /\ \A t \in Threads : JobKeeps(t)
  /\ \A r \in Runs : Succeeded(r) => run[r].dataset \in Datasets
  /\ TrainedOnRegistered

RescansAlone ==
  \A t, u \in Threads :
    job[t] # None /\ ~Training(t) /\ job[u] # None /\ ~Training(u) => t = u

AloneInv == focus \in Focuses /\ (focus # "rescans" => RescansAlone /\ OneRecord)

-----------------------------------------------------------------------------
(* Ranks, extremes and quantiles *)

\* R is a strict total order of S.
Orders(R, S) ==
  /\ \A i \in S : <<i, i>> \notin R
  /\ \A i, j \in S : <<i, j>> \in R \/ <<j, i>> \in R \/ i = j
  /\ \A i, j, k \in S : <<i, j>> \in R /\ <<j, k>> \in R => <<i, k>> \in R

Smaller(i, R, S) == {j \in S : <<j, i>> \in R}

\* In a strict total order of a finite set every rank is somebody's.
LEMMA RanksAreTaken ==
  ASSUME NEW S, IsFiniteSet(S), NEW R, Orders(R, S), NEW rank \in 1..Cardinality(S)
  PROVE  \E i \in S : Cardinality(Smaller(i, R, S)) + 1 = rank
<1> DEFINE n == Cardinality(S)
           before(i) == Smaller(i, R, S)
           f == [i \in S |-> Cardinality(before(i)) + 1]
<1>1. n \in Nat
  BY FS_CardinalityType
<1>2. ASSUME NEW i \in S
      PROVE  /\ IsFiniteSet(before(i)) /\ Cardinality(before(i)) \in Nat
             /\ Cardinality(before(i)) <= n - 1
  <2>1. before(i) \subseteq S \ {i}
    BY DEF Orders, Smaller
  <2> HIDE DEF before
  <2>2. IsFiniteSet(S \ {i}) /\ Cardinality(S \ {i}) = n - 1
    BY FS_RemoveElement
  <2>3. IsFiniteSet(before(i)) /\ Cardinality(before(i)) <= Cardinality(S \ {i})
    BY <2>1, <2>2, FS_Subset
  <2> QED BY <2>2, <2>3, FS_CardinalityType
<1>3. ASSUME NEW i \in S, NEW k \in S, <<i, k>> \in R
      PROVE  Cardinality(before(i)) < Cardinality(before(k))
  <2>1. before(i) \cup {i} \subseteq before(k) /\ i \notin before(i)
    BY <1>3 DEF Orders, Smaller
  <2> HIDE DEF before
  <2>2. Cardinality(before(i) \cup {i}) = Cardinality(before(i)) + 1
    BY <1>2, <2>1, FS_AddElement
  <2>3. Cardinality(before(i) \cup {i}) <= Cardinality(before(k))
    BY <1>2, <2>1, FS_Subset
  <2> QED BY <1>2, <2>2, <2>3
<1>4. \A i \in S : f[i] = Cardinality(before(i)) + 1
  OBVIOUS
<1> HIDE DEF before, n, f
<1>5. \A i \in S : f[i] \in 1..n
  BY <1>1, <1>2, <1>4
<1>6. ASSUME NEW i \in S, NEW k \in S, f[i] = f[k] PROVE i = k
  <2>1. ~(Cardinality(before(i)) < Cardinality(before(k)))
        /\ ~(Cardinality(before(k)) < Cardinality(before(i)))
    BY <1>2, <1>4, <1>6
  <2> QED BY <1>3, <2>1 DEF Orders
<1>7. IsFiniteSet(1..n) /\ Cardinality(1..n) = n
  BY <1>1, FS_Interval
<1>8. f = [i \in S |-> f[i]]
  BY DEF f
<1>9. f \in Injection(S, 1..n)
  BY <1>5, <1>6, <1>8 DEF Injection, IsInjective
<1>10. f \in Surjection(S, 1..n)
  BY <1>7, <1>9, FS_Injection DEF n
<1>11. PICK i \in S : f[i] = rank
  BY <1>10 DEF Surjection, n
<1> QED BY <1>4, <1>11 DEF before

\* The extremes of a finite set of integers.
LEMMA ExtremesExist ==
  ASSUME NEW S \in SUBSET Int, IsFiniteSet(S), S # {}
  PROVE  /\ Lowest(S) \in S /\ \A x \in S : Lowest(S) <= x
         /\ Highest(S) \in S /\ \A x \in S : x <= Highest(S)
<1>0. \A i \in S : i \in Int
  OBVIOUS
<1>1. 1 \in 1..Cardinality(S)
  BY FS_CardinalityType, FS_EmptySet
<1>3. \E i \in S : \A x \in S : i <= x
  <2> DEFINE R == {p \in S \X S : p[1] < p[2]}
  <2>1. PICK i \in S : Cardinality(Smaller(i, R, S)) + 1 = 1
    <3>1. \A i, j \in S : <<i, j>> \in R <=> i < j
      OBVIOUS
    <3> HIDE DEF R
    <3>2. Orders(R, S)
      BY <1>0, <3>1 DEF Orders
    <3> QED BY <1>1, <3>2, RanksAreTaken
  <2>2. Smaller(i, R, S) = {}
    <3>1. IsFiniteSet(Smaller(i, R, S))
      BY FS_Subset DEF Smaller
    <3> HIDE DEF R
    <3>2. Cardinality(Smaller(i, R, S)) = 0
      BY <2>1, <3>1, FS_CardinalityType
    <3> QED BY <3>1, <3>2, FS_EmptySet
  <2>3. \A j \in S : ~(j < i)
    BY <2>2 DEF Smaller
  <2> QED BY <2>3
<1>4. \E i \in S : \A x \in S : x <= i
  <2> DEFINE R == {p \in S \X S : p[2] < p[1]}
  <2>1. PICK i \in S : Cardinality(Smaller(i, R, S)) + 1 = 1
    <3>1. \A i, j \in S : <<i, j>> \in R <=> j < i
      OBVIOUS
    <3> HIDE DEF R
    <3>2. Orders(R, S)
      BY <1>0, <3>1 DEF Orders
    <3> QED BY <1>1, <3>2, RanksAreTaken
  <2>2. Smaller(i, R, S) = {}
    <3>1. IsFiniteSet(Smaller(i, R, S))
      BY FS_Subset DEF Smaller
    <3> HIDE DEF R
    <3>2. Cardinality(Smaller(i, R, S)) = 0
      BY <2>1, <3>1, FS_CardinalityType
    <3> QED BY <3>1, <3>2, FS_EmptySet
  <2>3. \A j \in S : ~(i < j)
    BY <2>2 DEF Smaller
  <2> QED BY <2>3
<1> QED BY <1>3, <1>4 DEF Lowest, Highest

\* Sorting keeps the length, and takes every value from the sequence.
LEMMA AscendingKeeps ==
  ASSUME NEW s \in Seq(Int)
  PROVE  /\ Ascending(s) \in [1..Len(s) -> Int]
         /\ \A k \in 1..Len(s) : \E i \in 1..Len(s) : Ascending(s)[k] = s[i]
<1> DEFINE D == DOMAIN s
           below(i) == {j \in D : s[j] < s[i] \/ (s[j] = s[i] /\ j < i)}
           R == {p \in D \X D : s[p[1]] < s[p[2]] \/ (s[p[1]] = s[p[2]] /\ p[1] < p[2])}
           index(k) == CHOOSE i \in D : Cardinality(below(i)) + 1 = k
<1>1. D = 1..Len(s) /\ \A i \in D : i \in Int /\ s[i] \in Int
  OBVIOUS
<1>2. IsFiniteSet(D) /\ Cardinality(D) = Len(s)
  <2> DEFINE n == Len(s)
  <2>1. n \in Nat
    OBVIOUS
  <2> HIDE DEF n
  <2>2. IsFiniteSet(1..n) /\ Cardinality(1..n) = n
    BY <2>1, FS_Interval
  <2> QED BY <1>1, <2>2 DEF n
<1>3. \A i, j \in D : <<i, j>> \in R <=> s[i] < s[j] \/ (s[i] = s[j] /\ i < j)
  OBVIOUS
<1>4. Ascending(s) = [k \in D |-> s[index(k)]]
  BY DEF Ascending
<1>5. \A i \in D : below(i) = Smaller(i, R, D)
  BY <1>3 DEF Smaller
<1> HIDE DEF R, below
<1>6. Orders(R, D)
  <2> HIDE DEF D
  <2>1. \A i \in D : <<i, i>> \notin R
    BY <1>1, <1>3
  <2>2. ASSUME NEW i \in D, NEW j \in D PROVE <<i, j>> \in R \/ <<j, i>> \in R \/ i = j
    <3>1. i \in Int /\ j \in Int /\ s[i] \in Int /\ s[j] \in Int
      BY <1>1
    <3>2. \/ s[i] < s[j] \/ (s[i] = s[j] /\ i < j)
          \/ s[j] < s[i] \/ (s[j] = s[i] /\ j < i)
          \/ i = j
      BY <3>1
    <3> QED BY <1>3, <3>2
  <2>3. ASSUME NEW i \in D, NEW j \in D, NEW k \in D, <<i, j>> \in R, <<j, k>> \in R
        PROVE  <<i, k>> \in R
    <3>1. /\ i \in Int /\ j \in Int /\ k \in Int
          /\ s[i] \in Int /\ s[j] \in Int /\ s[k] \in Int
      BY <1>1
    <3>2. /\ s[i] < s[j] \/ (s[i] = s[j] /\ i < j)
          /\ s[j] < s[k] \/ (s[j] = s[k] /\ j < k)
      BY <1>3, <2>3
    <3>3. s[i] < s[k] \/ (s[i] = s[k] /\ i < k)
      BY <3>1, <3>2
    <3> QED BY <1>3, <3>3
  <2> QED BY <2>1, <2>2, <2>3 DEF Orders
<1>7. ASSUME NEW k \in D PROVE index(k) \in D
  <2>1. k \in 1..Cardinality(D)
    BY <1>1, <1>2
  <2> HIDE DEF D
  <2>2. PICK i \in D : Cardinality(Smaller(i, R, D)) + 1 = k
    BY <1>2, <1>6, <2>1, RanksAreTaken
  <2>3. Cardinality(below(i)) + 1 = k
    BY <1>5, <2>2
  <2> QED BY <2>3
<1> HIDE DEF index, D
<1>8. Ascending(s) \in [D -> Int] /\ \A k \in D : Ascending(s)[k] = s[index(k)]
  BY <1>1, <1>4, <1>7
<1> QED BY <1>1, <1>7, <1>8

\* A quantile lies between the bounds of the values.
LEMMA QuantileWithin ==
  ASSUME NEW n \in Nat \ {0}, NEW q \in [1..n -> Int], NEW k \in {1, 19},
         NEW low \in Int, NEW high \in Int, \A i \in 1..n : low <= q[i] /\ q[i] <= high
  PROVE  /\ Quantile20(q, k) \in Int
         /\ 20 * low <= Quantile20(q, k) /\ Quantile20(q, k) <= 20 * high
<1> DEFINE position == (n - 1) * k
           i == position \div 20 + 1
           part == position % 20
<1>1. Len(q) = n
  OBVIOUS
<1>2. position \in Nat /\ position <= 19 * (n - 1)
  OBVIOUS
<1>3. /\ i \in 1..n /\ part \in 0..19
      /\ part # 0 => i + 1 \in 1..n
  BY <1>2
<1>4. Quantile20(q, k) = IF part = 0 THEN 20 * q[i] ELSE (20 - part) * q[i] + part * q[i + 1]
  <2>1. position \div 20 + 2 = i + 1
    BY <1>2
  <2> QED BY <1>1, <2>1 DEF Quantile20
<1> HIDE DEF position, i, part
<1>5. CASE part = 0
  BY <1>3, <1>4, <1>5
<1>6. CASE part # 0
  <2> DEFINE x == q[i]
             y == q[i + 1]
             a == 20 - part
  <2>1. x \in Int /\ y \in Int /\ low <= x /\ x <= high /\ low <= y /\ y <= high
    BY <1>3, <1>6
  <2>2. a \in Nat /\ part \in Nat /\ a + part = 20
    BY <1>3
  <2>3. Quantile20(q, k) = a * x + part * y
    BY <1>4, <1>6
  <2> HIDE DEF x, y, a
  <2>4. a * low <= a * x /\ a * x <= a * high
    BY <2>1, <2>2
  <2>5. part * low <= part * y /\ part * y <= part * high
    BY <2>1, <2>2
  <2>6. a * low + part * low = 20 * low /\ a * high + part * high = 20 * high
    BY <2>2
  <2>7. /\ a * x \in Int /\ part * y \in Int /\ a * low \in Int /\ part * low \in Int
        /\ a * high \in Int /\ part * high \in Int
    BY <2>1, <2>2
  <2> QED BY <2>3, <2>4, <2>5, <2>6, <2>7
<1> QED BY <1>5, <1>6

\* So do both quantiles of a sequence that is not empty.
LEMMA QuantilesWithin ==
  ASSUME NEW s \in Seq(Int), s # <<>>, NEW low \in Int, NEW high \in Int,
         \A i \in 1..Len(s) : low <= s[i] /\ s[i] <= high
  PROVE  /\ Quantiles(s)[1] \in Int /\ Quantiles(s)[2] \in Int
         /\ 20 * low <= Quantiles(s)[1] /\ Quantiles(s)[2] <= 20 * high
<1> DEFINE q == Ascending(s)
           n == Len(s)
<1>1. n \in Nat \ {0}
  OBVIOUS
<1>2. q \in [1..n -> Int] /\ \A k \in 1..n : low <= q[k] /\ q[k] <= high
  BY AscendingKeeps
<1> HIDE DEF q, n
<1>3. /\ Quantile20(q, 1) \in Int /\ Quantile20(q, 19) \in Int
      /\ 20 * low <= Quantile20(q, 1) /\ Quantile20(q, 19) <= 20 * high
  BY <1>1, <1>2, QuantileWithin
<1> QED BY <1>3 DEF Quantiles, q

-----------------------------------------------------------------------------
(* Jobs *)

\* What a job is, by its step.
LEMMA JobShape ==
  ASSUME Typed, NEW t \in Threads
  PROVE  /\ At(t, "look") => job[t] \in LookJobs
         /\ At(t, "read") => job[t] \in ReadJobs
         /\ At(t, "lookup") => job[t] \in LookupJobs
         /\ At(t, "write") \/ At(t, "replace") => job[t] \in RecordJobs
         /\ At(t, "reload") => job[t] \in ReloadJobs
         /\ At(t, "verify") => job[t] \in VerifyJobs
         /\ At(t, "load") => job[t] \in LoadJobs
         /\ At(t, "fit") => job[t] \in FitJobs
BY DEF Typed, At, RescanJobs, LookJobs, TurnJobs, ReadJobs, LookupJobs, RecordJobs, ReloadJobs,
       VerifyJobs, LoadJobs, FitJobs

LEMMA RescanSteps == ASSUME NEW j \in RescanJobs PROVE j.step \notin {"load", "fit"}
BY DEF RescanJobs, LookJobs, TurnJobs, ReadJobs, LookupJobs, RecordJobs, ReloadJobs, VerifyJobs

\* A rescan that has bundles left has one whose turn it is.
LEMMA TurnIsFolder ==
  ASSUME NEW t, job[t].left \in SUBSET DOMAIN Folders, job[t].left # {}
  PROVE  Turn(t) \in Range(Folders) /\ Lowest(job[t].left) \in DOMAIN Folders
<1> DEFINE n == Len(Folders)
<1>1. n \in Nat /\ DOMAIN Folders = 1..n
  BY PipelineAssumption
<1> HIDE DEF n
<1>2. job[t].left \in SUBSET Int /\ IsFiniteSet(job[t].left)
  <2>1. IsFiniteSet(1..n)
    BY <1>1, FS_Interval
  <2>2. 1..n \subseteq Int
    OBVIOUS
  <2> QED BY <1>1, <2>1, <2>2, FS_Subset
<1>3. Lowest(job[t].left) \in job[t].left
  BY <1>2, ExtremesExist
<1> QED BY <1>3 DEF Turn, Range

LEMMA TurnShape ==
  ASSUME NEW t, NEW steps, NEW known, job[t] \in TurnJobs(steps, known)
  PROVE  /\ job[t].known \in known /\ job[t].found \in Seq(Items)
         /\ job[t].left \in (SUBSET DOMAIN Folders) \ {{}} /\ Turn(t) \in Range(Folders)
<1>1. /\ job[t].known \in known /\ job[t].found \in Seq(Items)
      /\ job[t].left \in (SUBSET DOMAIN Folders) \ {{}}
  BY DEF TurnJobs
<1>2. job[t].left \in SUBSET DOMAIN Folders /\ job[t].left # {}
  BY <1>1
<1> QED BY <1>1, <1>2, TurnIsFolder

\* The job of a rescan that goes on with a bundle.
LEMMA RegisteringJob ==
  ASSUME NEW t, NEW steps, NEW step \in steps, NEW Known, NEW known \in Known,
         job[t].left \in (SUBSET DOMAIN Folders) \ {{}}, job[t].found \in Seq(Items),
         Registering(t, step, known)
  PROVE  \E j \in TurnJobs(steps, Known) :
           /\ Goto(t, j) /\ j.step = step /\ j.left = job[t].left /\ j.found = job[t].found
           /\ j.known = known
<1> DEFINE j == [step |-> step, left |-> job[t].left, found |-> job[t].found, known |-> known]
<1>1. j \in TurnJobs(steps, Known)
  BY DEF TurnJobs
<1>2. /\ j.step = step /\ j.left = job[t].left /\ j.found = job[t].found /\ j.known = known
  OBVIOUS
<1>3. Goto(t, j)
  BY DEF Registering
<1> HIDE DEF j
<1> QED BY <1>1, <1>2, <1>3

\* A step of a rescan concerns its own job only, which is no training.
LEMMA RescanKeeps ==
  ASSUME PipelineInv, Typed', UNCHANGED <<run, active, device>>,
         NEW t \in Threads, NEW j \in RescanJobs \cup {None}, Goto(t, j)
  PROVE  PipelineInv'
<1>1. \A u \in Threads : job'[u] = IF u = t THEN j ELSE job[u]
  BY DEF PipelineInv, Typed, Goto
<1>2. \A u \in Threads : Training(u)' => Training(u) /\ job'[u] = job[u]
  BY <1>1, RescanSteps DEF Training, At
<1>3. FitsAlone'
  BY <1>2 DEF PipelineInv, FitsAlone, Training, At
<1>4. Models'
  BY DEF PipelineInv, Models, Succeeded, Loads, BundleOf
<1>5. Profiles' /\ Tested'
  BY DEF PipelineInv, Profiles, Tested, Made, Loads, Succeeded, InState, device
<1> QED BY <1>3, <1>4, <1>5 DEF PipelineInv

\* One that changes no file and no row.
LEMMA JobKeepsInv ==
  ASSUME PipelineInv, NEW t \in Threads, NEW j \in RescanJobs \cup {None}, Goto(t, j),
         UNCHANGED <<files, row, run, active, device>>
  PROVE  PipelineInv'
<1>1. Typed'
  BY DEF PipelineInv, Typed, Goto, files, device
<1> QED BY <1>1, RescanKeeps

LEMMA ChangeKeeps == ASSUME PipelineInv, NEW f \in Range(Folders), Change(f) PROVE PipelineInv'
<1>1. Typed'
  BY DEF PipelineInv, Typed, Change, device
<1>2. FitsAlone'
  BY DEF PipelineInv, FitsAlone, Change, Training, At
<1>3. Models'
  BY DEF PipelineInv, Models, Succeeded, Loads, BundleOf, Change
<1>4. Profiles' /\ Tested'
  BY DEF PipelineInv, Profiles, Tested, Made, Loads, Succeeded, InState, device, Change
<1> QED BY <1>1, <1>2, <1>3, <1>4 DEF PipelineInv

LEMMA DiscoverKeeps == ASSUME PipelineInv, NEW t \in Threads, Discover(t) PROVE PipelineInv'
<1> DEFINE j == [step |-> "look", left |-> {i \in DOMAIN Folders : disk[Folders[i]] # None},
                 found |-> <<>>]
<1>1. j \in RescanJobs
  BY DEF LookJobs, RescanJobs
<1>2. Goto(t, j) /\ UNCHANGED <<files, row, run, active, device>>
  BY DEF Discover
<1> HIDE DEF j
<1> QED BY <1>1, <1>2, JobKeepsInv

\* What a rescan found it appends to what it has.
LEMMA FoundJob ==
  ASSUME NEW t, job[t].left \in (SUBSET DOMAIN Folders) \ {{}}, job[t].found \in Seq(Items),
         NEW f \in Range(Folders), NEW record \in Records, Found(t, f, record)
  PROVE  \E j \in LookJobs :
           /\ Goto(t, j) /\ j.step = "look"
           /\ j.found = Append(job[t].found, [folder |-> f, record |-> record])
<1> DEFINE item == [folder |-> f, record |-> record]
           rest == job[t].left \ {Lowest(job[t].left)}
           more == Append(job[t].found, item)
           j == [step |-> "look", left |-> rest, found |-> more]
<1>1. item \in Items
  BY DEF Items
<1>2. more \in Seq(Items)
  <2> HIDE DEF item
  <2> QED BY <1>1
<1>3. rest \in SUBSET DOMAIN Folders
  OBVIOUS
<1>4. Goto(t, j)
  BY DEF Found
<1> HIDE DEF rest, more
<1>5. j \in LookJobs /\ j.step = "look" /\ j.found = more
  BY <1>2, <1>3 DEF LookJobs
<1> HIDE DEF j
<1> QED BY <1>4, <1>5 DEF more

LEMMA IdleKeeps ==
  ASSUME PipelineInv, NEW t \in Threads, Idle(t), UNCHANGED <<files, row, run, active, device>>
  PROVE  PipelineInv'
BY JobKeepsInv DEF Idle

LEMMA LookKeeps == ASSUME PipelineInv, NEW t \in Threads, Look(t) PROVE PipelineInv'
<1> DEFINE f == Turn(t)
<1>1. Typed /\ job[t] \in LookJobs /\ job[t].left # {}
  BY JobShape DEF PipelineInv, Look
<1>2. job[t].left \in (SUBSET DOMAIN Folders) \ {{}} /\ job[t].found \in Seq(Items)
  BY <1>1 DEF LookJobs
<1>3. f \in Range(Folders)
  BY <1>2, TurnIsFolder
<1>4. UNCHANGED <<files, row, run, active, device>>
  BY DEF Look
<1>5. CASE Hashed(f) /\ Registering(t, "read", disk[f].manifest)
  <2>1. disk[f].manifest \in Bundles
    BY <1>1, <1>3, <1>5 DEF Typed, Hashed, Intact
  <2>2. PICK j \in ReadJobs : Goto(t, j)
    BY <1>2, <1>5, <2>1, RegisteringJob DEF ReadJobs
  <2> QED BY <1>4, <2>2, JobKeepsInv DEF RescanJobs
<1>6. CASE Idle(t)
  BY <1>4, <1>6, IdleKeeps
<1> QED BY <1>5, <1>6 DEF Look

LEMMA ReadRowsKeeps == ASSUME PipelineInv, NEW t \in Threads, ReadRows(t) PROVE PipelineInv'
<1> DEFINE f == Turn(t)
           hashes == Hashes(f, job[t].known)
<1>1. Typed /\ job[t] \in TurnJobs({"read"}, Bundles)
  BY JobShape DEF PipelineInv, ReadRows, ReadJobs
<1>2. /\ job[t].known \in Bundles /\ job[t].found \in Seq(Items)
      /\ job[t].left \in (SUBSET DOMAIN Folders) \ {{}} /\ f \in Range(Folders)
  BY <1>1, TurnShape
<1>3. UNCHANGED <<files, row, run, active, device>>
  BY DEF ReadRows
<1>4. CASE RowsRead(f, job[t].known) /\ Registering(t, "lookup", hashes)
  <2>1. hashes \in FileHashes
    BY <1>1, <1>2, <1>4 DEF Typed, RowsRead, Hashes, FileHashes
  <2> HIDE DEF hashes
  <2>2. PICK j \in LookupJobs : Goto(t, j)
    BY <1>2, <1>4, <2>1, RegisteringJob DEF LookupJobs
  <2> QED BY <1>3, <2>2, JobKeepsInv DEF RescanJobs
<1>5. CASE Idle(t)
  BY <1>3, <1>5, IdleKeeps
<1> QED BY <1>4, <1>5 DEF ReadRows

LEMMA LookupKeeps == ASSUME PipelineInv, NEW t \in Threads, Lookup(t) PROVE PipelineInv'
<1> DEFINE record == [hashes |-> job[t].known, stamp |-> stamps + 1]
<1>1. Typed /\ job[t] \in TurnJobs({"lookup"}, FileHashes)
  BY JobShape DEF PipelineInv, Lookup, LookupJobs
<1>2. /\ job[t].known \in FileHashes /\ job[t].found \in Seq(Items)
      /\ job[t].left \in (SUBSET DOMAIN Folders) \ {{}}
  BY <1>1, TurnShape
<1>3. /\ Registering(t, "write", record) /\ stamps' = stamps + 1
      /\ UNCHANGED <<disk, changes, registry, tmp, row, run, active, device>>
  BY DEF Lookup
<1>4. record \in Records
  BY <1>1, <1>2 DEF Records, Typed
<1> HIDE DEF record
<1>5. PICK j \in RecordJobs : Goto(t, j)
  BY <1>2, <1>3, <1>4, RegisteringJob DEF RecordJobs
<1>6. j \in RescanJobs
  BY DEF RescanJobs
<1>7. Typed'
  BY <1>1, <1>3, <1>5, <1>6 DEF Typed, Goto, device
<1> QED BY <1>3, <1>5, <1>6, <1>7, RescanKeeps

LEMMA WriteKeeps == ASSUME PipelineInv, NEW t \in Threads, WriteRecord(t) PROVE PipelineInv'
<1> DEFINE j == [job[t] EXCEPT !.step = "replace"]
<1>1. Typed /\ job[t] \in TurnJobs({"write", "replace"}, Records)
  BY JobShape DEF PipelineInv, WriteRecord, RecordJobs
<1>2. j \in TurnJobs({"write", "replace"}, Records)
  BY <1>1 DEF TurnJobs
<1>3. /\ Goto(t, j) /\ tmp' = [tmp EXCEPT ![Turn(t)] = job[t].known]
      /\ UNCHANGED <<disk, changes, registry, stamps, row, run, active, device>>
  BY DEF WriteRecord
<1> HIDE DEF j
<1>4. job[t].known \in Records /\ Turn(t) \in Range(Folders)
  BY <1>1, TurnShape
<1>5. j \in RescanJobs
  BY <1>2 DEF RescanJobs, RecordJobs
<1>6. Typed'
  BY <1>1, <1>3, <1>4, <1>5 DEF Typed, Goto, device
<1> QED BY <1>3, <1>5, <1>6, RescanKeeps

LEMMA ReplaceKeeps == ASSUME PipelineInv, NEW t \in Threads, ReplaceRecord(t) PROVE PipelineInv'
<1>1. Typed /\ job[t] \in TurnJobs({"write", "replace"}, Records)
  BY JobShape DEF PipelineInv, ReplaceRecord, RecordJobs
<1>2. /\ job[t].left \in (SUBSET DOMAIN Folders) \ {{}} /\ job[t].found \in Seq(Items)
      /\ Turn(t) \in Range(Folders)
  BY <1>1, TurnShape
<1>3. UNCHANGED <<disk, changes, stamps, row, run, active, device>>
  BY DEF ReplaceRecord
<1>4. CASE tmp[Turn(t)] = None
  <2>1. Idle(t) /\ UNCHANGED <<files, row, run, active, device>>
    BY <1>3, <1>4 DEF ReplaceRecord, files
  <2> QED BY <2>1, IdleKeeps
<1>5. CASE tmp[Turn(t)] # None
  <2>1. /\ Registering(t, "reload", None)
        /\ registry' = [registry EXCEPT ![Turn(t)] = tmp[Turn(t)]]
        /\ tmp' = [tmp EXCEPT ![Turn(t)] = None]
    BY <1>5 DEF ReplaceRecord
  <2>2. PICK j \in ReloadJobs : Goto(t, j)
    BY <1>2, <2>1, RegisteringJob DEF ReloadJobs
  <2>3. j \in RescanJobs
    BY DEF RescanJobs
  <2>4. Typed'
    BY <1>1, <1>2, <1>3, <1>5, <2>1, <2>2, <2>3 DEF Typed, Goto, device
  <2> QED BY <1>3, <2>2, <2>3, <2>4, RescanKeeps
<1> QED BY <1>4, <1>5

\* A rescan that loads a registration has one in its folder.
LEMMA LoadingJob ==
  ASSUME Typed, NEW t \in Threads, At(t, "reload") \/ At(t, "lookup")
  PROVE  /\ job[t].known \in FileHashes \cup {None} /\ job[t].found \in Seq(Items)
         /\ job[t].left \in (SUBSET DOMAIN Folders) \ {{}} /\ Turn(t) \in Range(Folders)
<1>1. CASE At(t, "reload")
  <2>1. job[t] \in TurnJobs({"reload"}, {None})
    BY <1>1, JobShape DEF ReloadJobs
  <2>2. job[t].known \in {None}
    BY <2>1, TurnShape
  <2> QED BY <2>1, <2>2, TurnShape
<1>2. CASE At(t, "lookup")
  <2>1. job[t] \in TurnJobs({"lookup"}, FileHashes)
    BY <1>2, JobShape DEF LookupJobs
  <2>2. job[t].known \in FileHashes
    BY <2>1, TurnShape
  <2> QED BY <2>1, <2>2, TurnShape
<1> QED BY <1>1, <1>2

LEMMA LoadKeeps == ASSUME PipelineInv, NEW t \in Threads, Load(t) PROVE PipelineInv'
<1> DEFINE f == Turn(t)
           known == [seen |-> job[t].known, record |-> registry[f], manifest |-> disk[f].manifest]
<1>1. Typed /\ (At(t, "reload") \/ At(t, "lookup"))
  BY DEF PipelineInv, Load
<1>2. /\ job[t].known \in FileHashes \cup {None} /\ job[t].found \in Seq(Items)
      /\ job[t].left \in (SUBSET DOMAIN Folders) \ {{}} /\ f \in Range(Folders)
  BY <1>1, LoadingJob
<1>3. UNCHANGED <<files, row, run, active, device>>
  BY DEF Load
<1>4. CASE registry[f] # None /\ Hashed(f) /\ Registering(t, "verify", known)
  <2>1. registry[f] \in Records /\ disk[f].manifest \in Bundles
    BY <1>1, <1>2, <1>4 DEF Typed, Hashed, Intact
  <2>2. known \in [seen : FileHashes \cup {None}, record : Records, manifest : Bundles]
    BY <1>2, <2>1
  <2> HIDE DEF known
  <2>3. PICK j \in VerifyJobs : Goto(t, j)
    BY <1>2, <1>4, <2>2, RegisteringJob DEF VerifyJobs
  <2> QED BY <1>3, <2>3, JobKeepsInv DEF RescanJobs
<1>5. CASE Idle(t)
  BY <1>3, <1>5, IdleKeeps
<1> QED BY <1>4, <1>5 DEF Load

LEMMA VerifyingJob ==
  ASSUME Typed, NEW t \in Threads, At(t, "verify")
  PROVE  /\ job[t].known.record \in Records /\ job[t].found \in Seq(Items)
         /\ job[t].left \in (SUBSET DOMAIN Folders) \ {{}} /\ Turn(t) \in Range(Folders)
<1> DEFINE Known == [seen : FileHashes \cup {None}, record : Records, manifest : Bundles]
<1>1. job[t] \in TurnJobs({"verify"}, Known)
  BY JobShape DEF VerifyJobs
<1> HIDE DEF Known
<1>2. job[t].known \in Known
  BY <1>1, TurnShape
<1>3. job[t].known.record \in Records
  BY <1>2 DEF Known
<1> QED BY <1>1, <1>3, TurnShape

LEMMA VerifyKeeps == ASSUME PipelineInv, NEW t \in Threads, Verify(t) PROVE PipelineInv'
<1>1. Typed /\ At(t, "verify") /\ UNCHANGED <<files, row, run, active, device>>
  BY DEF PipelineInv, Verify
<1>2. CASE Found(t, Turn(t), job[t].known.record)
  <2>1. PICK j \in LookJobs : Goto(t, j)
    BY <1>1, <1>2, VerifyingJob, FoundJob
  <2> QED BY <1>1, <2>1, JobKeepsInv DEF RescanJobs
<1>3. CASE Idle(t)
  BY <1>1, <1>3, IdleKeeps
<1> QED BY <1>2, <1>3 DEF Verify

LEMMA UpsertKeeps == ASSUME PipelineInv, NEW t \in Threads, Upsert(t) PROVE PipelineInv'
<1>1. Typed /\ job[t] \in LookJobs /\ UNCHANGED <<files, run, active, device>>
  BY JobShape DEF PipelineInv, Upsert
<1>2. CASE job[t].found = <<>>
  <2>1. Idle(t) /\ UNCHANGED row
    BY <1>2 DEF Upsert
  <2> QED BY <1>1, <2>1, IdleKeeps
<1>3. CASE job[t].found # <<>>
  <2> DEFINE item == Head(job[t].found)
             d == DatasetOf[item.folder]
             rest == Tail(job[t].found)
             j == [job[t] EXCEPT !.found = rest]
  <2>1. job[t].found \in Seq(Items)
    BY <1>1 DEF LookJobs
  <2>2. item \in Items /\ rest \in Seq(Items)
    BY <1>3, <2>1
  <2>3. d \in Datasets
    BY <2>2 DEF Items, Datasets
  <2>4. Goto(t, j) /\ row' = [row EXCEPT ![d] = IF @ = None THEN item ELSE @]
    BY <1>3 DEF Upsert
  <2> HIDE DEF item, d, rest
  <2>5. j \in RescanJobs
    BY <1>1, <2>2 DEF LookJobs, RescanJobs
  <2> HIDE DEF j
  <2>6. row' \in [Datasets -> Items \cup {None}]
    BY <1>1, <2>2, <2>3, <2>4 DEF Typed
  <2>7. Typed'
    BY <1>1, <2>4, <2>5, <2>6 DEF Typed, Goto, device, files
  <2> QED BY <1>1, <2>4, <2>5, <2>7, RescanKeeps
<1> QED BY <1>2, <1>3


-----------------------------------------------------------------------------
(* Training and activation *)

\* A thread that begins to load, or to fit what it loaded, is alone.
LEMMA TrainingKeeps ==
  ASSUME PipelineInv, NEW t \in Threads, NEW j \in LoadJobs \cup FitJobs, Goto(t, j),
         run[j.r].status = "absent", \A u \in Threads : Training(u) => u = t,
         j.step = "fit" => Trainable(j.data, j.sites),
         UNCHANGED <<files, row, run, active, device>>
  PROVE  PipelineInv'
<1>1. Typed'
  BY DEF PipelineInv, Typed, Goto, files, device
<1>2. job' = [u \in Threads |-> IF u = t THEN j ELSE job[u]]
  BY DEF PipelineInv, Typed, Goto
<1>3. FitsAlone'
  BY <1>2 DEF FitsAlone, Training, At
<1>4. Models'
  BY DEF PipelineInv, Models, Succeeded, Loads, BundleOf
<1>5. Profiles' /\ Tested'
  BY DEF PipelineInv, Profiles, Tested, Made, Loads, Succeeded, InState, device
<1> QED BY <1>1, <1>3, <1>4, <1>5 DEF PipelineInv

\* The job of a training that loads its dataset.
LEMMA BeginJob ==
  ASSUME Typed, NEW t \in Threads, NEW r \in Runs, NEW d \in Datasets, NEW sites \in SitePicks,
         TrainBegin(t, r, d, sites)
  PROVE  \E j \in LoadJobs :
           /\ Goto(t, j) /\ j.step = "load" /\ j.r = r /\ j.dataset = d /\ j.sites = sites
           /\ j.folder = row[d].folder /\ j.record = registry[row[d].folder]
           /\ j.manifest = disk[row[d].folder].manifest /\ j.since = changes
<1> DEFINE f == row[d].folder
           record == registry[f]
           manifest == disk[f].manifest
           j == [step |-> "load", r |-> r, dataset |-> d, sites |-> sites, folder |-> f,
                 record |-> record, manifest |-> manifest, since |-> changes]
<1>1. row[d] \in Items /\ registry[f] # None /\ disk[f] # None /\ Goto(t, j)
  BY DEF Typed, TrainBegin, Hashed, Intact
<1>2. f \in Range(Folders)
  BY <1>1 DEF Items
<1>3. record \in Records /\ manifest \in Bundles /\ changes \in Nat
  BY <1>1, <1>2 DEF Typed
<1> HIDE DEF f, record, manifest
<1>4. j \in LoadJobs
  BY <1>2, <1>3 DEF LoadJobs
<1>5. /\ j.step = "load" /\ j.r = r /\ j.dataset = d /\ j.sites = sites
      /\ j.folder = f /\ j.record = record /\ j.manifest = manifest /\ j.since = changes
  OBVIOUS
<1> HIDE DEF j
<1> QED BY <1>1, <1>4, <1>5 DEF f, record, manifest

LEMMA TrainBeginKeeps ==
  ASSUME PipelineInv, NEW t \in Threads, NEW r \in Runs, NEW d \in Datasets, NEW sites \in SitePicks,
         TrainBegin(t, r, d, sites)
  PROVE  PipelineInv'
<1>1. PICK j \in LoadJobs : Goto(t, j) /\ j.step = "load" /\ j.r = r
  BY BeginJob DEF PipelineInv
<1>2. /\ \A u \in Threads : ~Training(u)
      /\ run[r].status = "absent" /\ UNCHANGED <<files, row, run, active, device>>
  BY DEF TrainBegin, Unlocked
<1> QED BY <1>1, <1>2, TrainingKeeps

\* The job of a training that fits what it loaded.
LEMMA FitJob ==
  ASSUME Typed, NEW t \in Threads, At(t, "load"),
         RowsRead(job[t].folder, job[t].manifest),
         Goto(t, [step |-> "fit", r |-> job[t].r, dataset |-> job[t].dataset,
                  sites |-> job[t].sites, record |-> job[t].record,
                  data |-> Contents(job[t].manifest, disk[job[t].folder].table),
                  undisturbed |-> changes = job[t].since])
  PROVE  /\ disk[job[t].folder].table \in Bundles
         /\ \E j \in FitJobs :
              /\ Goto(t, j) /\ j.step = "fit" /\ j.r = job[t].r /\ j.dataset = job[t].dataset
              /\ j.sites = job[t].sites /\ j.record = job[t].record
              /\ j.data = Contents(job[t].manifest, disk[job[t].folder].table)
              /\ j.undisturbed = (changes = job[t].since)
<1> DEFINE k == job[t]
           data == Contents(k.manifest, disk[k.folder].table)
           still == changes = k.since
           j == [step |-> "fit", r |-> k.r, dataset |-> k.dataset, sites |-> k.sites,
                 record |-> k.record, data |-> data, undisturbed |-> still]
<1>1. k \in LoadJobs
  BY JobShape
<1>2. /\ k.r \in Runs /\ k.dataset \in Datasets /\ k.sites \in SitePicks
      /\ k.folder \in Range(Folders) /\ k.record \in Records /\ k.manifest \in Bundles
  BY <1>1 DEF LoadJobs
<1>3. disk[k.folder].table \in Bundles
  BY <1>2 DEF Typed, RowsRead
<1>4. data \in Loaded /\ still \in BOOLEAN
  BY <1>2, <1>3 DEF Loaded
<1>5. Goto(t, j)
  OBVIOUS
<1> HIDE DEF data, still, k
<1>6. j \in FitJobs
  BY <1>2, <1>4 DEF FitJobs
<1>7. /\ j.step = "fit" /\ j.r = k.r /\ j.dataset = k.dataset /\ j.sites = k.sites
      /\ j.record = k.record /\ j.data = data /\ j.undisturbed = still
  OBVIOUS
<1> HIDE DEF j
<1> QED BY <1>3, <1>5, <1>6, <1>7 DEF k, data, still

LEMMA TrainLoadKeeps == ASSUME PipelineInv, NEW t \in Threads, TrainLoad(t) PROVE PipelineInv'
<1> DEFINE k == job[t]
           data == Contents(k.manifest, disk[k.folder].table)
<1>1. Typed /\ At(t, "load") /\ UNCHANGED <<files, row, run, active, device>>
  BY DEF PipelineInv, TrainLoad
<1>2. CASE /\ Registered(k.folder, k.manifest, k.record) /\ Ready(data, k.sites)
           /\ Goto(t, [step |-> "fit", r |-> k.r, dataset |-> k.dataset, sites |-> k.sites,
                       record |-> k.record, data |-> data, undisturbed |-> changes = k.since])
  <2>1. RowsRead(k.folder, k.manifest) /\ BundleValid(data)
    BY <1>2 DEF Registered, RowsRead
  <2>2. PICK j \in FitJobs : Goto(t, j) /\ j.r = k.r /\ j.sites = k.sites /\ j.data = data
    BY <1>1, <1>2, <2>1, FitJob
  <2>3. j.data \in Loaded
    BY DEF FitJobs
  <2>4. run[k.r].status = "absent" /\ \A u \in Threads : Training(u) => u = t
    BY <1>1 DEF PipelineInv, FitsAlone, Training
  <2> HIDE DEF data
  <2>5. Trainable(j.data, j.sites)
    BY <1>2, <2>1, <2>2, <2>3 DEF Trainable
  <2> QED BY <1>1, <2>2, <2>4, <2>5, TrainingKeeps
<1>3. CASE Idle(t)
  BY <1>1, <1>3, IdleKeeps
<1> QED BY <1>1, <1>2, <1>3 DEF TrainLoad

\* The end of a training concerns its own run, which nothing refers to yet.
LEMMA RunEnds ==
  ASSUME PipelineInv, NEW t \in Threads, At(t, "fit"), NEW a,
         run' = [run EXCEPT ![job[t].r] = a], Goto(t, None),
         a.status \in {"failed", "succeeded"},
         a.status = "succeeded" =>
           /\ Trainable(a.data, a.sites)
           /\ a.activatable => Activatable(a.data, a.sites),
         UNCHANGED <<files, row, active, device>>
  PROVE  PipelineInv'
<1> DEFINE q == job[t].r
<1>1. q \in Runs
  BY JobShape DEF PipelineInv, FitJobs
<1>2. run[q].status = "absent" /\ \A u \in Threads : Training(u) => u = t
  BY DEF PipelineInv, FitsAlone, Training
<1>3. Goto(t, None) /\ run' = [run EXCEPT ![q] = a]
  OBVIOUS
<1> HIDE DEF q
<1>4. \A r \in Runs : run'[r] = IF r = q THEN a ELSE run[r]
  BY <1>1, <1>3 DEF PipelineInv, Typed
<1>5. Typed'
  BY <1>3 DEF PipelineInv, Typed, Goto, files, device
<1>6. \A u \in Threads : ~Training(u)'
  BY <1>2, <1>3 DEF PipelineInv, Typed, Goto, Training, At
<1>7. \A r \in Runs : Loads(r) => Loads(r)'
  BY <1>2, <1>4 DEF Loads, Succeeded
<1>8. active \in Runs \cup {None}
  BY DEF PipelineInv, Typed
<1>9. Models'
  <2>1. ASSUME NEW r \in Runs, Succeeded(r)'
        PROVE  (/\ Trainable(BundleOf(r), run[r].sites)
                /\ run[r].activatable => Activatable(BundleOf(r), run[r].sites))'
    BY <1>4, <2>1 DEF PipelineInv, Models, Succeeded, BundleOf
  <2> QED BY <1>7, <1>8, <2>1 DEF PipelineInv, Models
<1>10. Profiles' /\ Tested'
  BY <1>7 DEF PipelineInv, Profiles, Tested, Made, InState, device
<1> QED BY <1>5, <1>6, <1>9, <1>10 DEF PipelineInv, FitsAlone

LEMMA RunFails ==
  ASSUME PipelineInv, NEW t \in Threads, At(t, "fit"),
         run' = [run EXCEPT ![job[t].r] = Failed], Goto(t, None),
         UNCHANGED <<files, row, active, device>>
  PROVE  PipelineInv'
<1>1. Failed.status = "failed"
  BY DEF Failed
<1>2. Failed.status \in {"failed", "succeeded"} /\ Failed.status # "succeeded"
  BY <1>1
<1> QED BY <1>2, RunEnds

LEMMA TrainEndKeeps == ASSUME PipelineInv, NEW t \in Threads, TrainEnd(t) PROVE PipelineInv'
<1> DEFINE j == job[t]
           artifact == [status |-> "succeeded", dataset |-> j.dataset, record |-> j.record,
                        data |-> j.data, undisturbed |-> j.undisturbed,
                        sites |-> j.sites, activatable |-> Activatable(j.data, j.sites)]
<1>1. At(t, "fit") /\ Goto(t, None) /\ UNCHANGED <<files, row, active, device>>
  BY DEF TrainEnd, Idle
<1>2. Trainable(j.data, j.sites)
  BY <1>1 DEF PipelineInv, FitsAlone, Training
<1>3. CASE run' = [run EXCEPT ![j.r] = Failed]
  BY <1>1, <1>3, RunFails
<1>4. CASE run' = [run EXCEPT ![j.r] = artifact]
  <2>1. /\ artifact.status = "succeeded" /\ artifact.data = j.data /\ artifact.sites = j.sites
        /\ artifact.activatable => Activatable(j.data, j.sites)
    OBVIOUS
  <2> HIDE DEF artifact
  <2> QED BY <1>1, <1>2, <1>4, <2>1, RunEnds
<1> QED BY <1>3, <1>4 DEF TrainEnd

LEMMA CrashKeeps == ASSUME PipelineInv, NEW t \in Threads, Crash(t) PROVE PipelineInv'
<1>1. Goto(t, None) /\ UNCHANGED <<files, row, active, device>>
  BY DEF Crash, Idle
<1>2. CASE At(t, "fit")
  BY <1>1, <1>2, RunFails DEF Crash
<1>3. CASE ~At(t, "fit")
  BY <1>1, <1>3, IdleKeeps DEF Crash, Idle
<1> QED BY <1>2, <1>3

LEMMA ActivateKeeps == ASSUME PipelineInv, NEW r \in Runs, Activate(r) PROVE PipelineInv'
<1>1. /\ active' = r /\ Loads(r)
      /\ UNCHANGED <<files, row, job, run, device>>
  BY DEF Activate
<1>2. Typed'
  BY <1>1 DEF PipelineInv, Typed, files, device
<1>3. FitsAlone'
  BY <1>1 DEF PipelineInv, FitsAlone, Training, At
<1>4. Models'
  BY <1>1 DEF PipelineInv, Models, Succeeded, Loads, BundleOf
<1>5. Profiles' /\ Tested'
  BY <1>1 DEF PipelineInv, Profiles, Tested, Made, Loads, Succeeded, InState, device
<1> QED BY <1>2, <1>3, <1>4, <1>5 DEF PipelineInv

-----------------------------------------------------------------------------
(* The device *)

\* What concerns the device leaves jobs and models alone.
LEMMA DeviceKeeps ==
  ASSUME PipelineInv, UNCHANGED <<files, row, job, run, active>>,
         session' \in
           [Sessions -> [state : {"absent", "active", "completed"}, rises : Seq(Int)]],
         snapshot' = [s \in Sessions |-> snapshot'[s]], Profiles', Tested'
  PROVE  PipelineInv'
<1>1. Typed'
  BY DEF PipelineInv, Typed, files
<1>2. FitsAlone'
  BY DEF PipelineInv, FitsAlone, Training, At
<1>3. Models'
  BY DEF PipelineInv, Models, Succeeded, Loads, BundleOf
<1> QED BY <1>1, <1>2, <1>3 DEF PipelineInv

\* A saved profile is of the active model, which every other state keeps.
LEMMA SaveKeeps ==
  ASSUME PipelineInv, NEW p, profile' = p, Made(p),
         UNCHANGED <<files, row, job, run, active, session, snapshot, tests>>
  PROVE  PipelineInv'
<1>1. Profiles' /\ Tested'
  BY DEF PipelineInv, Profiles, Tested, Made, Loads, Succeeded, InState
<1>2. /\ session' \in
           [Sessions -> [state : {"absent", "active", "completed"}, rises : Seq(Int)]]
      /\ snapshot' = [s \in Sessions |-> snapshot'[s]]
  BY DEF PipelineInv, Typed
<1> QED BY <1>1, <1>2, DeviceKeeps

LEMMA SaveFormalKeeps ==
  ASSUME PipelineInv, NEW site, NEW s \in Sessions, SaveFormal(site, s)
  PROVE  PipelineInv'
<1> DEFINE rises == Quantiles(session[s].rises)
           official == MappingReference(BundleOf(active), site)
           map == FormalMapping(official, rises)
           p == [run |-> active, site |-> site, calibration |-> s,
                 official |-> official, rises |-> rises, map |-> map]
<1>1. /\ Loads(active) /\ InState(s, "completed") /\ Len(session[s].rises) >= MinCalibration
      /\ profile' = p /\ UNCHANGED <<files, row, job, run, active, session, snapshot, tests>>
  BY DEF SaveFormal, HasContext
<1>2. active \in Runs
  BY <1>1 DEF PipelineInv, Typed, Loads, Succeeded
<1>3. p.run = active /\ p.calibration = s /\ p.rises = Quantiles(session[s].rises)
  <2> HIDE DEF official, map
  <2> QED OBVIOUS
<1> HIDE DEF p
<1>4. Made(p)
  BY <1>1, <1>2, <1>3 DEF Made
<1> QED BY <1>1, <1>4, SaveKeeps

LEMMA SaveExploratoryKeeps ==
  ASSUME PipelineInv, NEW site, NEW manual, SaveExploratory(site, manual)
  PROVE  PipelineInv'
<1> DEFINE map == ManualMapping(manual[1], manual[2])
           p == [run |-> active, site |-> site, calibration |-> None, map |-> map]
<1>1. /\ Loads(active)
      /\ profile' = p /\ UNCHANGED <<files, row, job, run, active, session, snapshot, tests>>
  BY DEF SaveExploratory, HasContext
<1>2. active \in Runs
  BY <1>1 DEF PipelineInv, Typed, Loads, Succeeded
<1> HIDE DEF map
<1>3. p.run = active /\ p.calibration = None
  OBVIOUS
<1> HIDE DEF p
<1>4. Made(p)
  BY <1>1, <1>2, <1>3 DEF Made
<1> QED BY <1>1, <1>4, SaveKeeps

LEMMA DeleteProfileKeeps == ASSUME PipelineInv, DeleteProfile PROVE PipelineInv'
<1>1. profile' = None /\ UNCHANGED <<files, row, job, run, active, session, snapshot, tests>>
  BY DEF DeleteProfile
<1>2. Profiles' /\ Tested'
  BY <1>1 DEF PipelineInv, Profiles, Tested, Made, Loads, Succeeded, InState
<1>3. /\ session' \in
           [Sessions -> [state : {"absent", "active", "completed"}, rises : Seq(Int)]]
      /\ snapshot' = [s \in Sessions |-> snapshot'[s]]
  BY <1>1 DEF PipelineInv, Typed
<1> QED BY <1>1, <1>2, <1>3, DeviceKeeps


-----------------------------------------------------------------------------
(* Sessions and tests *)

LEMMA StartKeeps ==
  ASSUME PipelineInv, NEW s \in Sessions, NEW official \in BOOLEAN, Start(s, official)
  PROVE  PipelineInv'
<1>1. PICK rises \in RisePool :
        session' = [session EXCEPT ![s] = [state |-> "active", rises |-> rises]]
  BY DEF Start
<1> DEFINE new == [state |-> "active", rises |-> rises]
           frozen == IF official THEN profile ELSE None
<1>2. /\ InState(s, "absent") /\ session' = [session EXCEPT ![s] = new]
      /\ snapshot' = [snapshot EXCEPT ![s] = frozen]
      /\ UNCHANGED <<files, row, job, run, active, profile, tests>>
  BY <1>1 DEF Start
<1>3. new \in [state : {"absent", "active", "completed"}, rises : Seq(Int)]
  BY PipelineAssumption
<1>4. new.state = "active" /\ (frozen # None => frozen = profile)
  OBVIOUS
<1> HIDE DEF new, frozen
<1>5. /\ session' = [u \in Sessions |-> IF u = s THEN new ELSE session[u]]
      /\ snapshot' = [u \in Sessions |-> IF u = s THEN frozen ELSE snapshot[u]]
  BY <1>2 DEF PipelineInv, Typed
<1>6. session' \in [Sessions -> [state : {"absent", "active", "completed"}, rises : Seq(Int)]]
  BY <1>3, <1>5 DEF PipelineInv, Typed
<1>7. snapshot' = [u \in Sessions |-> snapshot'[u]]
  BY <1>5
<1>8. \A u \in Sessions : InState(u, "completed") => u # s /\ session'[u] = session[u]
  BY <1>2, <1>5 DEF InState
<1>9. ASSUME NEW p, Made(p) PROVE Made(p)' /\ p.calibration # s
  <2>1. Made(p)'
    BY <1>2, <1>8, <1>9 DEF Made, Loads, Succeeded, InState
  <2>2. p.calibration # s
    BY <1>8, <1>9, PipelineAssumption DEF Made
  <2> QED BY <2>1, <2>2
<1>10. Profiles'
  <2>1. ASSUME NEW u \in Sessions, snapshot'[u] # None
        PROVE  (Made(snapshot[u]) /\ ~InState(u, "absent") /\ snapshot[u].calibration # u)'
    <3>1. CASE u = s
      <4>1. snapshot'[u] = profile /\ Made(profile)
        BY <1>4, <1>5, <2>1, <3>1 DEF PipelineInv, Profiles
      <4> QED BY <1>2, <1>4, <1>5, <1>9, <3>1, <4>1 DEF InState, Made
    <3>2. CASE u # s
      <4>1. snapshot'[u] = snapshot[u] /\ session'[u] = session[u]
        BY <1>5, <3>2
      <4> QED BY <1>9, <2>1, <4>1 DEF PipelineInv, Profiles, InState, Made
    <3> QED BY <3>1, <3>2
  <2> QED BY <1>2, <1>9, <2>1 DEF PipelineInv, Profiles, Made
<1>11. Tested'
  BY <1>2, <1>5, <1>8 DEF PipelineInv, Tested, InState
<1> QED BY <1>2, <1>6, <1>7, <1>10, <1>11, DeviceKeeps

LEMMA StopKeeps == ASSUME PipelineInv, NEW s \in Sessions, Stop(s) PROVE PipelineInv'
<1> DEFINE new == [session[s] EXCEPT !.state = "completed"]
<1>1. session[s] \in [state : {"absent", "active", "completed"}, rises : Seq(Int)]
  BY DEF PipelineInv, Typed
<1>2. /\ new \in [state : {"absent", "active", "completed"}, rises : Seq(Int)]
      /\ new.state = "completed" /\ new.rises = session[s].rises
  BY <1>1
<1>3. /\ session' = [session EXCEPT ![s] = new] /\ InState(s, "active")
      /\ UNCHANGED <<files, row, job, run, active, profile, snapshot, tests>>
  BY DEF Stop
<1> HIDE DEF new
<1>4. session' = [u \in Sessions |-> IF u = s THEN new ELSE session[u]]
  BY <1>3 DEF PipelineInv, Typed
<1>5. /\ session' \in [Sessions -> [state : {"absent", "active", "completed"}, rises : Seq(Int)]]
      /\ snapshot' = [u \in Sessions |-> snapshot'[u]]
  BY <1>2, <1>3, <1>4 DEF PipelineInv, Typed
<1>6. \A u \in Sessions :
        /\ session'[u].rises = session[u].rises
        /\ InState(u, "completed") => InState(u, "completed")'
        /\ ~InState(u, "absent") => ~InState(u, "absent")'
  BY <1>2, <1>4 DEF InState
<1>7. ASSUME NEW p, Made(p) PROVE Made(p)'
  BY <1>3, <1>6, <1>7 DEF Made, Loads, Succeeded
<1>8. Profiles'
  BY <1>3, <1>6, <1>7 DEF PipelineInv, Profiles, Made
<1>9. Tested'
  BY <1>3, <1>6 DEF PipelineInv, Tested
<1> QED BY <1>3, <1>5, <1>8, <1>9, DeviceKeeps

LEMMA DeleteSessionKeeps ==
  ASSUME PipelineInv, NEW s \in Sessions, DeleteSession(s)
  PROVE  PipelineInv'
<1>1. /\ ~ReferencedBy(s)
      /\ session' = [session EXCEPT ![s] = Nothing]
      /\ snapshot' = [snapshot EXCEPT ![s] = None]
      /\ UNCHANGED <<files, row, job, run, active, profile, tests>>
  BY DEF DeleteSession
<1>2. Nothing \in [state : {"absent", "active", "completed"}, rises : Seq(Int)]
  BY DEF Nothing
<1>3. /\ session' = [u \in Sessions |-> IF u = s THEN Nothing ELSE session[u]]
      /\ snapshot' = [u \in Sessions |-> IF u = s THEN None ELSE snapshot[u]]
  BY <1>1 DEF PipelineInv, Typed
<1>4. /\ session' \in [Sessions -> [state : {"absent", "active", "completed"}, rises : Seq(Int)]]
      /\ snapshot' = [u \in Sessions |-> snapshot'[u]]
  BY <1>2, <1>3 DEF PipelineInv, Typed
<1>5. ASSUME NEW p, Made(p), p.calibration # s PROVE Made(p)'
  BY <1>1, <1>3, <1>5 DEF Made, Loads, Succeeded, InState
<1>6. /\ profile # None => profile.calibration # s
      /\ \A u \in Sessions : snapshot[u] # None => snapshot[u].calibration # s
      /\ \A x \in tests : x.session # s
  BY <1>1 DEF ReferencedBy
<1>7. profile # None => Made(profile)'
  BY <1>1, <1>5, <1>6 DEF PipelineInv, Profiles
<1>8. ASSUME NEW u \in Sessions, snapshot'[u] # None
      PROVE  (Made(snapshot[u]) /\ ~InState(u, "absent") /\ snapshot[u].calibration # u)'
  <2>1. u # s /\ snapshot'[u] = snapshot[u] /\ session'[u] = session[u]
    BY <1>3, <1>8
  <2> QED BY <1>5, <1>6, <1>8, <2>1 DEF PipelineInv, Profiles, InState, Made
<1>9. Profiles'
  BY <1>1, <1>7, <1>8 DEF Profiles, Made
<1>10. Tested'
  BY <1>1, <1>3, <1>6 DEF PipelineInv, Tested, InState
<1> QED BY <1>1, <1>4, <1>9, <1>10, DeviceKeeps

\* A test is of the frozen profile; what it reports is out of the distribution of
\* the model's water levels.
LEMMA TestRecord ==
  ASSUME NEW s \in Sessions, Test(s)
  PROVE  \E x :
           /\ tests' = tests \cup {x} /\ x.session = s /\ x.run = snapshot[s].run
           /\ \A rise \in x.ood :
                /\ \E i \in DOMAIN session[s].rises : rise = session[s].rises[i]
                /\ OutOfDistribution(snapshot[s].map,
                     LevelRange(BundleOf(snapshot[s].run), run[snapshot[s].run].sites), rise)
<1> DEFINE p == snapshot[s]
           q == session[s].rises
           evaluated == {q[i] : i \in {j \in DOMAIN q : j <= MaxEvaluated}}
           range == LevelRange(BundleOf(p.run), run[p.run].sites)
           ood == {e \in evaluated : OutOfDistribution(p.map, range, e)}
           x == [session |-> s, run |-> p.run, evaluated |-> evaluated, ood |-> ood]
<1>1. tests' = tests \cup {x}
  BY DEF Test
<1>2. \A rise \in ood :
        (\E i \in DOMAIN q : rise = q[i]) /\ OutOfDistribution(p.map, range, rise)
  OBVIOUS
<1> HIDE DEF ood, evaluated
<1>3. x.session = s /\ x.run = p.run /\ x.ood = ood
  OBVIOUS
<1> HIDE DEF x
<1> QED BY <1>1, <1>2, <1>3

LEMMA TestKeeps == ASSUME PipelineInv, NEW s \in Sessions, Test(s) PROVE PipelineInv'
<1>1. /\ InState(s, "completed") /\ snapshot[s] # None
      /\ UNCHANGED <<files, row, job, run, active, profile, session, snapshot>>
  BY DEF Test
<1>2. PICK x : tests' = tests \cup {x} /\ x.session = s /\ x.run = snapshot[s].run
  BY TestRecord
<1>3. /\ session' \in [Sessions -> [state : {"absent", "active", "completed"}, rises : Seq(Int)]]
      /\ snapshot' = [u \in Sessions |-> snapshot'[u]]
  BY <1>1 DEF PipelineInv, Typed
<1>4. Profiles'
  BY <1>1 DEF PipelineInv, Profiles, Made, Loads, Succeeded, InState
<1>5. Tested'
  BY <1>1, <1>2 DEF PipelineInv, Tested, InState
<1> QED BY <1>1, <1>3, <1>4, <1>5, DeviceKeeps

-----------------------------------------------------------------------------
(* The invariant, and what follows from it *)

LEMMA PipelineInit == Init => PipelineInv
<1> SUFFICES ASSUME Init PROVE PipelineInv
  OBVIOUS
<1>1. Typed
  <2>1. Nothing \in [state : {"absent", "active", "completed"}, rises : Seq(Int)]
    BY DEF Nothing
  <2>2. disk \in [Range(Folders) -> [manifest : Bundles, table : Bundles \cup {None}] \cup {None}]
    BY DEF Init
  <2> QED BY <2>1, <2>2 DEF Init, Typed
<1>2. FitsAlone /\ Models
  BY DEF Init, FitsAlone, Models, Training, At, Succeeded
<1>3. Profiles /\ Tested
  BY DEF Init, Profiles, Tested
<1> QED BY <1>1, <1>2, <1>3 DEF PipelineInv

LEMMA PipelineStep == PipelineInv /\ [Next]_vars => PipelineInv'
<1> SUFFICES ASSUME PipelineInv, [Next]_vars PROVE PipelineInv'
  OBVIOUS
<1>1. CASE UNCHANGED vars
  BY <1>1 DEF vars, files, device, PipelineInv, Typed, FitsAlone, Models, Profiles, Tested,
              Made, Loads, Succeeded, BundleOf, InState, Training, At
<1>2. ASSUME NEW f \in Range(Folders), Change(f) PROVE PipelineInv'
  BY <1>2, ChangeKeeps
<1>3. ASSUME NEW t \in Threads, Rescan(t) PROVE PipelineInv'
  BY <1>3, DiscoverKeeps, LookKeeps, ReadRowsKeeps, LookupKeeps, WriteKeeps, ReplaceKeeps,
     LoadKeeps, VerifyKeeps, UpsertKeeps DEF Rescan
<1>4. ASSUME NEW t \in Threads, TrainLoad(t) \/ TrainEnd(t) \/ Crash(t) PROVE PipelineInv'
  BY <1>4, TrainLoadKeeps, TrainEndKeeps, CrashKeeps
<1>5. ASSUME NEW t \in Threads, NEW r \in Runs, NEW d \in Datasets, NEW sites \in SitePicks,
             TrainBegin(t, r, d, sites)
      PROVE  PipelineInv'
  BY <1>5, TrainBeginKeeps
<1>6. ASSUME NEW r \in Runs, Activate(r) PROVE PipelineInv'
  BY <1>6, ActivateKeeps
<1>7. ASSUME NEW site, NEW s \in Sessions, SaveFormal(site, s) PROVE PipelineInv'
  BY <1>7, SaveFormalKeeps
<1>8. ASSUME NEW site, NEW manual \in ManualPool, SaveExploratory(site, manual) PROVE PipelineInv'
  BY <1>8, SaveExploratoryKeeps
<1>9. ASSUME DeleteProfile PROVE PipelineInv'
  BY <1>9, DeleteProfileKeeps
<1>10. ASSUME NEW s \in Sessions, NEW official \in BOOLEAN, Start(s, official) PROVE PipelineInv'
  BY <1>10, StartKeeps
<1>11. ASSUME NEW s \in Sessions, Stop(s) \/ DeleteSession(s) \/ Test(s) PROVE PipelineInv'
  BY <1>11, StopKeeps, DeleteSessionKeeps, TestKeeps
<1> QED BY <1>1, <1>2, <1>3, <1>4, <1>5, <1>6, <1>7, <1>8, <1>9, <1>10, <1>11 DEF Next

\* Jobs and files are of their types, trainings are alone and assessed, models
\* passed their assessment, and profiles, frozen profiles and tests have what they
\* were made from.
THEOREM PipelineInvariance == Spec => []PipelineInv
BY PipelineInit, PipelineStep, PTL DEF Spec

\* Provenance: the calibration session and the model of a profile, of a frozen
\* profile and of a test stay (simulation_store.py delete_simulation_session()).
THEOREM ProvenanceStays == Spec => []ProvenanceIsKept
<1>1. PipelineInv => ProvenanceIsKept
  BY DEF PipelineInv, Profiles, Tested, Made, ProvenanceIsKept
<1> QED BY <1>1, PipelineInvariance, PTL

\* Data that was loaded has what the manifests and the tables of the pool have.
LEMMA LoadedData ==
  ASSUME NEW b \in Loaded
  PROVE  /\ b.gap \in Int /\ b.horizon \in Int /\ IsFiniteSet(b.rows)
         /\ \A s \in Splits : b.splits[s][1] \in Int /\ b.splits[s][2] \in Int
         /\ \A r \in b.rows : r.at \in Int
<1>1. PICK m \in Bundles, q \in Bundles : b = Contents(m, q)
  BY DEF Loaded
<1>2. b.gap = m.gap /\ b.horizon = m.horizon /\ b.splits = m.splits /\ b.rows = q.rows
  BY <1>1 DEF Contents
<1> QED BY <1>2, PipelineAssumption

\* Between rows of two splits of data that validates lies the horizon, and so no
\* hour is one that labels of both are about.
LEMMA SplitsAreApart ==
  ASSUME NEW b \in Loaded, BundleValid(b), NEW sites,
         NEW s \in Splits, NEW u \in Splits, b.splits[u][1] - b.splits[s][2] >= b.gap,
         NEW x \in RowsOf(b, s, sites), NEW y \in RowsOf(b, u, sites),
         NEW h \in LabelHours(b, x)
  PROVE  h <= y.at /\ h \notin LabelHours(b, y)
<1>1. /\ b.gap \in Int /\ b.horizon \in Int /\ x.at \in Int /\ y.at \in Int
      /\ b.splits[s][2] \in Int /\ b.splits[u][1] \in Int
  BY LoadedData DEF RowsOf
<1>2. x.at <= b.splits[s][2] /\ b.splits[u][1] <= y.at /\ b.gap >= b.horizon
  BY DEF RowsOf, Within, BundleValid, ManifestValid
<1>3. h \in Int /\ h <= x.at + b.horizon
  BY <1>1 DEF LabelHours
<1>4. h <= y.at
  BY <1>1, <1>2, <1>3
<1> QED BY <1>1, <1>3, <1>4 DEF LabelHours

\* The validation lies between the training and the test.
LEMMA SplitsInOrder ==
  ASSUME NEW b \in Loaded, BundleValid(b)
  PROVE  /\ b.splits["validation"][1] - b.splits["train"][2] >= b.gap
         /\ b.splits["frozen_test"][1] - b.splits["validation"][2] >= b.gap
         /\ b.splits["frozen_test"][1] - b.splits["train"][2] >= b.gap
<1>1. b.gap \in Int /\ \A s \in Splits : b.splits[s][1] \in Int /\ b.splits[s][2] \in Int
  BY LoadedData
<1>2. /\ b.gap > 0
      /\ \A s \in Splits : b.splits[s][1] < b.splits[s][2]
      /\ b.splits["validation"][1] - b.splits["train"][2] >= b.gap
      /\ b.splits["frozen_test"][1] - b.splits["validation"][2] >= b.gap
  BY DEF BundleValid, ManifestValid, ManifestShape
<1>3. {"train", "validation", "frozen_test"} = Splits
  BY DEF Splits
<1> QED BY <1>1, <1>2, <1>3

\* No storm has an extreme hour in two splits of a bundle that is ready.
LEMMA StormsAreApart ==
  ASSUME NEW b, NEW sites, Ready(b, sites),
         NEW s \in Splits, NEW u \in Splits, s # u,
         NEW x \in RowsOf(b, s, sites), NEW y \in RowsOf(b, u, sites), x.storm = y.storm
  PROVE  x.storm = None
<1>1. x.storm # None => x.storm \in EventStorms(RowsOf(b, s, sites)) \cap EventStorms(RowsOf(b, u, sites))
  BY DEF EventStorms
<1> QED BY <1>1 DEF Ready, StormsOverlap

\* No hour that a label of an earlier split is about is one that a label of a later
\* split is about, or lies after a row of it; no storm is in two splits, and the
\* model that is active could be compared with the threshold at every site
\* (official_dataset.py validation and assessment, main.py
\* create_official_training_run()).
THEOREM HoldoutsStayUnseen == Spec => []HoldoutsAreUnseen
<1>1. ASSUME PipelineInv, NEW r \in Runs, Succeeded(r)
      PROVE  LET b == BundleOf(r)
                 sites == run[r].sites
                 Apart(s, u) ==
                   \A x \in RowsOf(b, s, sites), y \in RowsOf(b, u, sites) :
                     /\ \A h \in LabelHours(b, x) : h <= y.at /\ h \notin LabelHours(b, y)
                     /\ x.storm = y.storm => x.storm = None
             IN  /\ Apart("train", "validation") /\ Apart("train", "frozen_test")
                 /\ Apart("validation", "frozen_test")
                 /\ r = active =>
                      \A site \in sites, s \in Holdouts : BothClasses(RowsOf(b, s, {site}))
  <2> DEFINE b == BundleOf(r)
             sites == run[r].sites
  <2>1. b \in Loaded /\ BundleValid(b) /\ Ready(b, sites)
    BY <1>1 DEF PipelineInv, Models, Trainable
  <2>2. r = active => FairBaseline(b, sites)
    BY <1>1 DEF PipelineInv, Models, Loads, Succeeded, Activatable
  <2> HIDE DEF b, sites
  <2>3. ASSUME NEW s \in Splits, NEW u \in Splits, s # u,
               b.splits[u][1] - b.splits[s][2] >= b.gap
        PROVE  \A x \in RowsOf(b, s, sites), y \in RowsOf(b, u, sites) :
                 /\ \A h \in LabelHours(b, x) : h <= y.at /\ h \notin LabelHours(b, y)
                 /\ x.storm = y.storm => x.storm = None
    BY <2>1, <2>3, SplitsAreApart, StormsAreApart
  <2>4. "train" \in Splits /\ "validation" \in Splits /\ "frozen_test" \in Splits
    BY DEF Splits
  <2> QED BY <2>1, <2>2, <2>3, <2>4, SplitsInOrder DEF FairBaseline, b, sites
<1>2. PipelineInv => HoldoutsAreUnseen
  BY <1>1 DEF HoldoutsAreUnseen
<1> QED BY <1>2, PipelineInvariance, PTL


-----------------------------------------------------------------------------
(* The distribution *)

\* The train levels of a site a model was trained for are there, and are among the
\* levels of all its sites.
LEMMA SiteLevelsWithin ==
  ASSUME NEW b, NEW sites, Trainable(b, sites), NEW site \in sites
  PROVE  LET range == LevelRange(b, sites)
         IN  /\ range[1] \in Int /\ range[2] \in Int
             /\ SiteLevels(b, site) \in Seq(Int) /\ SiteLevels(b, site) # <<>>
             /\ \A i \in 1..Len(SiteLevels(b, site)) :
                  range[1] <= SiteLevels(b, site)[i] /\ SiteLevels(b, site)[i] <= range[2]
<1> DEFINE All == RowsOf(b, "train", sites)
           Own == RowsOf(b, "train", {site})
           levels == {r.level : r \in All}
           n == Cardinality(Own)
           q == SetToSeq(Own)
<1>1. IsFiniteSet(b.rows)
  BY LoadedData DEF Trainable
<1>2. All \subseteq b.rows /\ Own \subseteq All
  BY DEF RowsOf
<1>3. Own # {}
  <2>1. "train" \in Splits
    BY DEF Splits
  <2>2. site \in {r.site : r \in All}
    BY <2>1 DEF Trainable, Ready
  <2>3. PICK r \in All : r.site = site
    BY <2>2
  <2> QED BY <2>3 DEF RowsOf
<1>4. \A r \in All : r.level \in Int
  BY <1>2, OfficialDataAssumption DEF Trainable, BundleValid, TableValid
<1>5. levels \in SUBSET Int /\ levels # {}
  BY <1>2, <1>3, <1>4
<1>6. IsFiniteSet(All) /\ IsFiniteSet(Own)
  BY <1>1, <1>2, FS_Subset
<1> HIDE DEF All, Own
<1>7. IsFiniteSet(levels)
  <2> DEFINE f == [r \in All |-> r.level]
  <2>1. f \in Surjection(All, levels)
    BY DEF Surjection
  <2> QED BY <1>6, <2>1, FS_Surjection
<1>8. n \in Nat \ {0} /\ ExistsBijection(1..n, Own)
  BY <1>3, <1>6, FS_CardinalityType, FS_EmptySet
<1>9. q \in [1..n -> Own]
  <2>1. PICK f \in [1..n -> Own] : IsInjective(f)
    BY <1>8 DEF ExistsBijection, Bijection, Injection
  <2> QED BY <2>1 DEF SetToSeq
<1> DEFINE s == SiteLevels(b, site)
           low == Lowest(levels)
           high == Highest(levels)
<1>10. s = [i \in 1..n |-> q[i].level]
  <2> HIDE DEF q, n
  <2>1. DOMAIN q = 1..n
    BY <1>9
  <2> QED BY <2>1 DEF SiteLevels, q, Own
<1>11. \A x \in levels : x \in Int /\ low <= x /\ x <= high
  <2> HIDE DEF levels
  <2> QED BY <1>5, <1>7, ExtremesExist
<1>12. low \in Int /\ high \in Int
  <2> HIDE DEF levels
  <2> QED BY <1>5, <1>7, ExtremesExist
<1>13. \A i \in 1..n : q[i].level \in levels
  <2> HIDE DEF q, n
  <2> QED BY <1>2, <1>9
<1>14. LevelRange(b, sites)[1] = low /\ LevelRange(b, sites)[2] = high
  BY DEF LevelRange, All
<1> HIDE DEF q, n, s, low, high, levels
<1>15. s \in [1..n -> Int] /\ \A i \in 1..n : low <= s[i] /\ s[i] <= high
  BY <1>10, <1>11, <1>13
<1>16. s \in Seq(Int) /\ Len(s) = n
  BY <1>8, <1>15
<1>17. s # <<>>
  BY <1>8, <1>16
<1> QED BY <1>12, <1>14, <1>15, <1>16, <1>17 DEF s

\* The quantiles of the calibration are mapped to those of the site, and what lies
\* between the former to between the latter.
LEMMA MappedWithin ==
  ASSUME NEW o1 \in Int, NEW o2 \in Int, NEW q1 \in Int, NEW q2 \in Int,
         NEW low \in Int, NEW high \in Int, NEW rise \in Int,
         20 * low <= o1, o2 <= 20 * high, o2 - o1 > 0, q1 < q2,
         q1 <= 20 * rise, 20 * rise <= q2
  PROVE  /\ 20 * (q2 - q1) * low <= (o1 * (q2 - q1) - (o2 - o1) * q1) + 20 * (o2 - o1) * rise
         /\ (o1 * (q2 - q1) - (o2 - o1) * q1) + 20 * (o2 - o1) * rise <= 20 * (q2 - q1) * high
<1> DEFINE num == o2 - o1
           den == q2 - q1
           t == 20 * rise - q1
<1>1. num \in Nat /\ den \in Nat /\ t \in Nat /\ t <= den
  OBVIOUS
<1>2. (o1 * den - num * q1) + 20 * num * rise = o1 * den + num * t
  OBVIOUS
<1>3. o1 * den + num * den = o2 * den
  OBVIOUS
<1>4. 20 * den * low = (20 * low) * den /\ 20 * den * high = (20 * high) * den
  OBVIOUS
<1> HIDE DEF num, den, t
<1>5. 0 <= num * t /\ num * t <= num * den
  BY <1>1
<1>6. (20 * low) * den <= o1 * den /\ o2 * den <= (20 * high) * den
  BY <1>1
<1>7. /\ o1 * den \in Int /\ o2 * den \in Int /\ num * t \in Int /\ num * den \in Int
      /\ (20 * low) * den \in Int /\ (20 * high) * den \in Int
  BY <1>1
<1>8. /\ 20 * den * low <= o1 * den + num * t
      /\ o1 * den + num * t <= 20 * den * high
  BY <1>3, <1>4, <1>5, <1>6, <1>7
<1> QED BY <1>2, <1>8 DEF num, den


\* The quantiles of a sequence that is not empty are integers.
LEMMA QuantilesAreIntegers ==
  ASSUME NEW s \in Seq(Int), s # <<>>
  PROVE  Quantiles(s)[1] \in Int /\ Quantiles(s)[2] \in Int
<1> DEFINE n == Len(s)
           S == {s[i] : i \in 1..n}
           f == [i \in 1..n |-> s[i]]
<1>1. n \in Nat \ {0} /\ \A i \in 1..n : s[i] \in Int
  OBVIOUS
<1>2. IsFiniteSet(S)
  <2>1. IsFiniteSet(1..n)
    <3> HIDE DEF n
    <3> QED BY <1>1, FS_Interval
  <2>2. f \in Surjection(1..n, S)
    BY DEF Surjection
  <2> QED BY <2>1, <2>2, FS_Surjection
<1>3. S \in SUBSET Int /\ S # {} /\ \A i \in 1..n : s[i] \in S
  BY <1>1
<1> DEFINE low == Lowest(S)
           high == Highest(S)
<1> HIDE DEF S
<1>4. low \in Int /\ high \in Int /\ \A x \in S : low <= x /\ x <= high
  BY <1>2, <1>3, ExtremesExist
<1> HIDE DEF low, high
<1> QED BY <1>3, <1>4, QuantilesWithin

\* A profile that loads maps what its calibration saw into the model's levels.
LEMMA CalibrationIsWithin ==
  ASSUME PipelineInv, NEW p, Made(p), p.calibration # None, ProfileLoads(p), NEW rise \in Int,
         Within(Quantiles(session[p.calibration].rises), 20 * rise)
  PROVE  ~OutOfDistribution(p.map, LevelRange(BundleOf(p.run), run[p.run].sites), rise)
<1> DEFINE b == BundleOf(p.run)
           sites == run[p.run].sites
           range == LevelRange(b, sites)
           levels == SiteLevels(b, p.site)
           s == session[p.calibration].rises
           o == Quantiles(levels)
           q == Quantiles(s)
<1>1. Trainable(b, sites) /\ p.site \in sites
  BY DEF PipelineInv, Models, Made, Loads, ProfileLoads
<1>2. /\ range[1] \in Int /\ range[2] \in Int /\ levels \in Seq(Int) /\ levels # <<>>
      /\ \A i \in 1..Len(levels) : range[1] <= levels[i] /\ levels[i] <= range[2]
  BY <1>1, SiteLevelsWithin
<1>3. /\ o[1] \in Int /\ o[2] \in Int
      /\ 20 * range[1] <= o[1] /\ o[2] <= 20 * range[2]
  <2> HIDE DEF range, levels
  <2> QED BY <1>2, QuantilesWithin
<1>4. s \in Seq(Int) /\ s # <<>>
  BY OfficialDataAssumption DEF PipelineInv, Typed, Made
<1>5. q[1] \in Int /\ q[2] \in Int
  BY <1>4, QuantilesAreIntegers
<1>6. p.official = o /\ p.rises = q
  BY DEF ProfileLoads, Made, MappingReference
<1>7. q[1] < q[2] /\ p.map = FormalMapping(o, q) /\ p.map.num > 0
  BY <1>6 DEF ProfileLoads
<1>8. q[1] <= 20 * rise /\ 20 * rise <= q[2]
  BY DEF Within
<1> HIDE DEF b, sites, range, levels, s, o, q
<1>9. /\ p.map.num = o[2] - o[1] /\ p.map.den = q[2] - q[1]
      /\ p.map.base = o[1] * (q[2] - q[1]) - (o[2] - o[1]) * q[1]
  BY <1>7 DEF FormalMapping
<1>10. /\ 20 * (q[2] - q[1]) * range[1]
            <= (o[1] * (q[2] - q[1]) - (o[2] - o[1]) * q[1]) + 20 * (o[2] - o[1]) * rise
       /\ (o[1] * (q[2] - q[1]) - (o[2] - o[1]) * q[1]) + 20 * (o[2] - o[1]) * rise
            <= 20 * (q[2] - q[1]) * range[2]
  <2>1. o[2] - o[1] > 0
    BY <1>7, <1>9
  <2> QED BY <1>2, <1>3, <1>5, <1>7, <1>8, <2>1, MappedWithin
<1>11. ~OutOfDistribution(p.map, range, rise)
  BY <1>9, <1>10 DEF OutOfDistribution, Within
<1> QED BY <1>11 DEF range, b, sites

\* What a test that was made says of its calibration stays.
LEMMA TestsStay ==
  ASSUME PipelineInv, NEW x \in tests, [Next]_vars
  PROVE  LET c == snapshot[x.session].calibration
         IN  snapshot'[x.session] = snapshot[x.session]
             /\ (c # None => session'[c].rises = session[c].rises)
<1> DEFINE c == snapshot[x.session].calibration
<1>1. x.session \in Sessions /\ InState(x.session, "completed") /\ snapshot[x.session] # None
  BY DEF PipelineInv, Tested
<1>2. c # None => c \in Sessions /\ InState(c, "completed")
  BY <1>1 DEF PipelineInv, Profiles, Made
<1>3. session = [s \in Sessions |-> session[s]] /\ snapshot = [s \in Sessions |-> snapshot[s]]
  BY DEF PipelineInv, Typed
<1>4. CASE UNCHANGED <<session, snapshot>>
  BY <1>4
<1>5. ASSUME NEW s \in Sessions, NEW official \in BOOLEAN, Start(s, official)
      PROVE  snapshot'[x.session] = snapshot[x.session]
             /\ (c # None => session'[c].rises = session[c].rises)
  <2>1. InState(s, "absent") /\ \A u \in Sessions : u # s =>
          session'[u] = session[u] /\ snapshot'[u] = snapshot[u]
    BY <1>3, <1>5 DEF Start
  <2>2. x.session # s /\ (c # None => c # s)
    BY <1>1, <1>2, <2>1 DEF InState
  <2> QED BY <1>1, <1>2, <2>1, <2>2
<1>6. ASSUME NEW s \in Sessions, Stop(s)
      PROVE  snapshot'[x.session] = snapshot[x.session]
             /\ (c # None => session'[c].rises = session[c].rises)
  <2>1. InState(s, "active") /\ UNCHANGED snapshot
        /\ \A u \in Sessions : u # s => session'[u] = session[u]
    BY <1>3, <1>6 DEF Stop
  <2>2. c # None => c # s
    BY <1>2, <2>1 DEF InState
  <2> QED BY <1>2, <2>1, <2>2
<1>7. ASSUME NEW s \in Sessions, DeleteSession(s)
      PROVE  snapshot'[x.session] = snapshot[x.session]
             /\ (c # None => session'[c].rises = session[c].rises)
  <2>1. ~ReferencedBy(s) /\ \A u \in Sessions : u # s =>
          session'[u] = session[u] /\ snapshot'[u] = snapshot[u]
    BY <1>3, <1>7 DEF DeleteSession
  <2>2. x.session # s /\ (c # None => c # s)
    BY <1>1, <2>1 DEF ReferencedBy
  <2> QED BY <1>1, <1>2, <2>1, <2>2
<1>8. ASSUME NEW t \in Threads, Rescan(t) \/ TrainLoad(t) \/ TrainEnd(t) \/ Crash(t)
      PROVE  UNCHANGED <<session, snapshot>>
  BY <1>8 DEF Rescan, Discover, Look, ReadRows, Lookup, WriteRecord, ReplaceRecord, Load, Verify,
     Upsert, TrainLoad, TrainEnd, Crash, device
<1>9. ASSUME NEW t, NEW r, NEW d, NEW sites, TrainBegin(t, r, d, sites)
      PROVE  UNCHANGED <<session, snapshot>>
  BY <1>9 DEF TrainBegin, device
<1>10. ASSUME NEW s, NEW site, SaveFormal(site, s) PROVE UNCHANGED <<session, snapshot>>
  BY <1>10 DEF SaveFormal
<1>11. ASSUME NEW manual, NEW site, SaveExploratory(site, manual) PROVE UNCHANGED <<session, snapshot>>
  BY <1>11 DEF SaveExploratory
<1>12. ASSUME NEW f, Change(f) PROVE UNCHANGED <<session, snapshot>>
  BY <1>12 DEF Change, device
<1>13. ASSUME NEW r, Activate(r) PROVE UNCHANGED <<session, snapshot>>
  BY <1>13 DEF Activate, device
<1>14. ASSUME NEW s, Test(s) PROVE UNCHANGED <<session, snapshot>>
  BY <1>14 DEF Test
<1>15. DeleteProfile \/ UNCHANGED vars => UNCHANGED <<session, snapshot>>
  BY DEF DeleteProfile, vars, device
<1> HIDE DEF c
<1>16. snapshot'[x.session] = snapshot[x.session] /\ (c # None => session'[c].rises = session[c].rises)
  BY <1>4, <1>5, <1>6, <1>7, <1>8, <1>9, <1>10, <1>11, <1>12, <1>13, <1>14, <1>15 DEF Next
<1> QED BY <1>16 DEF c

\* What a step adds to the tests is a test.
LEMMA TestsGrow ==
  ASSUME [Next]_vars
  PROVE  tests' = tests \/ \E s \in Sessions : Test(s)
<1>1. ASSUME NEW t \in Threads, Rescan(t) \/ TrainLoad(t) \/ TrainEnd(t) \/ Crash(t)
      PROVE  UNCHANGED tests
  BY <1>1 DEF Rescan, Discover, Look, ReadRows, Lookup, WriteRecord, ReplaceRecord, Load, Verify,
     Upsert, TrainLoad, TrainEnd, Crash, device
<1>2. ASSUME NEW t, NEW r, NEW d, NEW sites, TrainBegin(t, r, d, sites) PROVE UNCHANGED tests
  BY <1>2 DEF TrainBegin, device
<1>3. ASSUME NEW s, NEW site, SaveFormal(site, s) PROVE UNCHANGED tests
  BY <1>3 DEF SaveFormal
<1>4. ASSUME NEW manual, NEW site, SaveExploratory(site, manual) PROVE UNCHANGED tests
  BY <1>4 DEF SaveExploratory
<1>5. ASSUME NEW f, Change(f) PROVE UNCHANGED tests
  BY <1>5 DEF Change, device
<1>6. ASSUME NEW r, Activate(r) PROVE UNCHANGED tests
  BY <1>6 DEF Activate, device
<1>7. ASSUME NEW s, NEW official, Start(s, official) \/ Stop(s) \/ DeleteSession(s)
      PROVE  UNCHANGED tests
  BY <1>7 DEF Start, Stop, DeleteSession
<1>8. DeleteProfile \/ UNCHANGED vars => UNCHANGED tests
  BY DEF DeleteProfile, vars, device
<1> QED BY <1>1, <1>2, <1>3, <1>4, <1>5, <1>6, <1>7, <1>8 DEF Next

LEMMA DistributionStep ==
  PipelineInv /\ CalibratedIsInDistribution /\ [Next]_vars => CalibratedIsInDistribution'
<1> SUFFICES ASSUME PipelineInv, CalibratedIsInDistribution, [Next]_vars,
                    NEW x \in tests', (snapshot[x.session].calibration)' # None,
                    NEW rise \in x.ood
             PROVE  ~Within(Quantiles((session[snapshot[x.session].calibration].rises)'), 20 * rise)
  BY DEF CalibratedIsInDistribution
<1>1. CASE x \in tests
  <2>1. snapshot'[x.session] = snapshot[x.session]
        /\ session'[snapshot[x.session].calibration].rises = session[snapshot[x.session].calibration].rises
    BY <1>1, TestsStay
  <2> QED BY <1>1, <2>1 DEF CalibratedIsInDistribution
<1>2. CASE x \notin tests
  <2>1. PICK s \in Sessions : Test(s)
    BY <1>2, TestsGrow
  <2>2. PICK y :
           /\ tests' = tests \cup {y} /\ y.session = s /\ y.run = snapshot[s].run
           /\ \A e \in y.ood :
                /\ \E i \in DOMAIN session[s].rises : e = session[s].rises[i]
                /\ OutOfDistribution(snapshot[s].map,
                     LevelRange(BundleOf(snapshot[s].run), run[snapshot[s].run].sites), e)
    BY <2>1, TestRecord
  <2>3. x = y
    BY <1>2, <2>2
  <2>4. UNCHANGED <<session, snapshot>> /\ ProfileLoads(snapshot[s]) /\ snapshot[s] # None
    BY <2>1 DEF Test
  <2>5. Made(snapshot[s])
    BY <2>4 DEF PipelineInv, Profiles
  <2>6. session[s].rises \in Seq(Int)
    BY DEF PipelineInv, Typed
  <2>7. rise \in Int
    BY <2>2, <2>3, <2>6
  <2> QED BY <2>2, <2>3, <2>4, <2>5, <2>7, CalibrationIsWithin
<1> QED BY <1>1, <1>2

\* A rise the calibration saw between its quantiles is never reported as out of the
\* distribution of the water level (sensor_proxy_model.py, main.py
\* create_sensor_external_test_run()).
THEOREM CalibratedStaysInDistribution == Spec => []CalibratedIsInDistribution
<1>1. Init => CalibratedIsInDistribution
  BY DEF Init, CalibratedIsInDistribution
<1> QED BY <1>1, PipelineInvariance, DistributionStep, PTL DEF Spec


-----------------------------------------------------------------------------
(* One rescan at a time *)

\* The instances but "rescans" have one rescan at a time.
LEMMA AloneRescans == focus \in Focuses /\ Focused /\ focus # "rescans" => RescansAlone
<1> SUFFICES ASSUME focus \in Focuses, Focused, focus # "rescans" PROVE RescansAlone
  OBVIOUS
<1>1. CASE focus = "one rescan"
  BY <1>1 DEF Focused, OneRescan, RescansAlone
<1>2. CASE focus = "data" \/ focus = "device"
  <2>1. \A t \in Threads : job[t] # None => t = First(Threads)
    BY <1>2 DEF Focused, Data, Devices
  <2> QED BY <2>1 DEF RescansAlone
<1> QED BY <1>1, <1>2 DEF Focuses

\* What is kept, when registrations, rows, jobs and models do not change.
LEMMA RecordsStay ==
  ASSUME OneRecord, UNCHANGED <<disk, changes, registry, row, job, run>>
  PROVE  OneRecord'
BY DEF OneRecord, JobKeeps, DataOf, Kept, Writing, Training, At, Turn, TrainedOnRegistered, Succeeded

\* A change of the files disturbs what loads.
LEMMA ChangeKeepsRecords ==
  ASSUME PipelineInv, OneRecord, NEW f, Change(f) PROVE OneRecord'
<1>1. changes' = changes + 1 /\ UNCHANGED <<registry, row, job, run>>
  BY DEF Change
<1>2. ASSUME NEW t \in Threads PROVE JobKeeps(t)'
  <2>1. At(t, "load") => job[t].since \in Nat /\ changes \in Nat /\ job[t].since <= changes
    BY JobShape DEF PipelineInv, Typed, LoadJobs, OneRecord, JobKeeps
  <2>2. At(t, "load") => job[t].since <= changes' /\ changes' # job[t].since
    BY <1>1, <2>1
  <2>3. JobKeeps(t)
    BY DEF OneRecord
  <2> QED BY <1>1, <2>2, <2>3 DEF JobKeeps, DataOf, Kept, Writing, Training, At, Turn
<1>3. TrainedOnRegistered' /\ (\A r \in Runs : Succeeded(r) => run[r].dataset \in Datasets)'
  BY <1>1 DEF OneRecord, TrainedOnRegistered, Succeeded
<1>4. \A d \in Datasets : row'[d] # None => Kept(row[d])'
  BY <1>1 DEF OneRecord, Kept
<1> QED BY <1>2, <1>3, <1>4 DEF OneRecord

\* A job that does not change, while files, registrations and rows do not.
LEMMA OthersKeep ==
  ASSUME NEW u, JobKeeps(u), job'[u] = job[u], UNCHANGED <<disk, changes, registry, row>>
  PROVE  JobKeeps(u)'
BY DEF JobKeeps, DataOf, Kept, Writing, Training, At, Turn

\* What a job of a rescan must be.
RescanKept(t, j) ==
  /\ j.step \in {"write", "replace"} => j.left = job[t].left /\ registry[Turn(t)] = None
  /\ j.step = "verify" =>
       j.left = job[t].left /\ Kept([folder |-> Turn(t), record |-> j.known.record])
  /\ \A i \in DOMAIN j.found : Kept(j.found[i])

\* A step of a rescan that registers nothing.
LEMMA RescanKeepsRecords ==
  ASSUME PipelineInv, OneRecord, UNCHANGED <<disk, changes, registry, row, run>>,
         NEW t \in Threads, NEW j \in RescanJobs \cup {None}, Goto(t, j),
         j # None => RescanKept(t, j)
  PROVE  OneRecord'
<1>1. \A u \in Threads : job'[u] = IF u = t THEN j ELSE job[u]
  BY DEF PipelineInv, Typed, Goto
<1>2. \A d \in Datasets : row'[d] # None => Kept(row[d])'
  BY DEF OneRecord, Kept
<1>3. ASSUME NEW u \in Threads PROVE JobKeeps(u)'
  <2>1. CASE u = t
    <3>1. job'[t] = j
      BY <1>1
    <3>2. ~Training(t)'
      BY <3>1, RescanSteps DEF Training, At
    <3>3. ~At(t, "load")' /\ ~At(t, "fit")'
      BY <3>2 DEF Training
    <3>4. j # None => \A i \in DOMAIN j.found : Kept(j.found[i])'
      BY DEF RescanKept, Kept
    <3>5. (At(t, "verify") => Kept([folder |-> Turn(t), record |-> job[t].known.record]))'
      <4>1. CASE At(t, "verify")'
        <5>1. j # None /\ j.step = "verify" /\ job'[t].known = j.known
          BY <3>1, <4>1 DEF At
        <5>2. j.left = job[t].left /\ Kept([folder |-> Turn(t), record |-> j.known.record])
          BY <5>1 DEF RescanKept
        <5>3. Turn(t)' = Turn(t)
          BY <3>1, <5>2 DEF Turn
        <5> QED BY <5>1, <5>2, <5>3 DEF Kept
      <4> QED BY <4>1
    <3>6. (Writing(t) => registry[Turn(t)] = None)'
      <4>1. CASE Writing(t)'
        <5>1. j # None /\ j.step \in {"write", "replace"}
          BY <3>1, <4>1 DEF At, Writing
        <5>2. j.left = job[t].left /\ registry[Turn(t)] = None
          BY <5>1 DEF RescanKept
        <5>3. Turn(t)' = Turn(t)
          BY <3>1, <5>2 DEF Turn
        <5> QED BY <5>2, <5>3
      <4> QED BY <4>1
    <3>7. (job[t] # None => \A i \in DOMAIN job[t].found : Kept(job[t].found[i]))'
      BY <3>1, <3>4 DEF Kept
    <3> QED BY <2>1, <3>2, <3>3, <3>5, <3>6, <3>7 DEF JobKeeps
  <2>2. CASE u # t
    BY <1>1, <2>2, OthersKeep DEF OneRecord
  <2> QED BY <2>1, <2>2
<1>4. TrainedOnRegistered' /\ (\A r \in Runs : Succeeded(r) => run[r].dataset \in Datasets)'
  BY DEF OneRecord, TrainedOnRegistered, Succeeded
<1> QED BY <1>2, <1>3, <1>4 DEF OneRecord

LEMMA IdleKeepsRecords ==
  ASSUME PipelineInv, OneRecord, NEW t \in Threads, Idle(t),
         UNCHANGED <<disk, changes, registry, row, run>>
  PROVE  OneRecord'
BY RescanKeepsRecords DEF Idle

\* What a rescan found is kept while it goes on with a bundle.
LEMMA GoesOnKept ==
  ASSUME PipelineInv, OneRecord, NEW t \in Threads, job[t] # None, ~Training(t),
         job[t].left \in (SUBSET DOMAIN Folders) \ {{}}, job[t].found \in Seq(Items),
         NEW step, NEW known, Registering(t, step, known), UNCHANGED <<disk, changes, registry, row, run>>,
         [step |-> step, left |-> job[t].left, found |-> job[t].found, known |-> known] \in RescanJobs,
         step \in {"write", "replace"} => registry[Turn(t)] = None,
         step = "verify" => Kept([folder |-> Turn(t), record |-> known.record])
  PROVE  OneRecord'
<1> DEFINE j == [step |-> step, left |-> job[t].left, found |-> job[t].found, known |-> known]
<1>1. /\ j.step = step /\ j.left = job[t].left /\ j.found = job[t].found /\ j.known = known
  OBVIOUS
<1>2. Goto(t, j) /\ j \in RescanJobs
  BY DEF Registering
<1> HIDE DEF j
<1>3. \A i \in DOMAIN job[t].found : Kept(job[t].found[i])
  BY DEF OneRecord, JobKeeps
<1>4. RescanKept(t, j)
  BY <1>1, <1>3 DEF RescanKept
<1> QED BY <1>2, <1>4, RescanKeepsRecords

LEMMA LookKeepsRecords ==
  ASSUME PipelineInv, OneRecord, NEW t \in Threads, Look(t) PROVE OneRecord'
<1> DEFINE f == Turn(t)
<1>1. /\ At(t, "look") /\ job[t].left # {} /\ Typed
      /\ UNCHANGED <<disk, changes, registry, row, run>>
  BY DEF Look, files, PipelineInv
<1>2. job[t].left \in (SUBSET DOMAIN Folders) \ {{}} /\ job[t].found \in Seq(Items)
  BY <1>1, JobShape DEF LookJobs
<1>3. f \in Range(Folders)
  BY <1>2, TurnIsFolder
<1>4. CASE Hashed(f) /\ Registering(t, "read", disk[f].manifest)
  <2>1. disk[f].manifest \in Bundles
    BY <1>1, <1>3, <1>4 DEF Typed, Hashed, Intact
  <2>2. [step |-> "read", left |-> job[t].left, found |-> job[t].found,
         known |-> disk[f].manifest] \in RescanJobs
    BY <1>2, <2>1 DEF RescanJobs, ReadJobs, TurnJobs
  <2>3. job[t] # None /\ ~Training(t)
    BY <1>1 DEF At, Training
  <2> QED BY <1>1, <1>2, <1>4, <2>2, <2>3, GoesOnKept
<1>5. CASE Idle(t)
  BY <1>1, <1>5, IdleKeepsRecords
<1> QED BY <1>4, <1>5 DEF Look

LEMMA ReadRowsKeepsRecords ==
  ASSUME PipelineInv, OneRecord, NEW t \in Threads, ReadRows(t) PROVE OneRecord'
<1> DEFINE f == Turn(t)
           hashes == Hashes(f, job[t].known)
<1>1. /\ At(t, "read") /\ Typed /\ job[t] \in TurnJobs({"read"}, Bundles)
      /\ UNCHANGED <<disk, changes, registry, row, run>>
  BY JobShape DEF ReadRows, files, PipelineInv, ReadJobs
<1>2. /\ job[t].known \in Bundles /\ job[t].found \in Seq(Items)
      /\ job[t].left \in (SUBSET DOMAIN Folders) \ {{}} /\ f \in Range(Folders)
  BY <1>1, TurnShape
<1>3. CASE RowsRead(f, job[t].known) /\ Registering(t, "lookup", hashes)
  <2>1. hashes \in FileHashes
    BY <1>1, <1>2, <1>3 DEF Typed, RowsRead, Hashes, FileHashes
  <2> HIDE DEF hashes
  <2>2. [step |-> "lookup", left |-> job[t].left, found |-> job[t].found, known |-> hashes]
          \in RescanJobs
    BY <1>2, <2>1 DEF RescanJobs, LookupJobs, TurnJobs
  <2>3. job[t] # None /\ ~Training(t)
    BY <1>1 DEF At, Training
  <2> QED BY <1>1, <1>2, <1>3, <2>2, <2>3, GoesOnKept
<1>4. CASE Idle(t)
  BY <1>1, <1>4, IdleKeepsRecords
<1> QED BY <1>3, <1>4 DEF ReadRows

LEMMA LookupKeepsRecords ==
  ASSUME PipelineInv, OneRecord, NEW t \in Threads, Lookup(t) PROVE OneRecord'
<1> DEFINE record == [hashes |-> job[t].known, stamp |-> stamps + 1]
<1>1. /\ At(t, "lookup") /\ Typed /\ registry[Turn(t)] = None
      /\ Registering(t, "write", record) /\ UNCHANGED <<disk, changes, registry, row, run>>
  BY DEF Lookup, PipelineInv
<1>2. /\ job[t].known \in FileHashes /\ job[t].found \in Seq(Items)
      /\ job[t].left \in (SUBSET DOMAIN Folders) \ {{}}
  BY <1>1, JobShape, TurnShape DEF LookupJobs
<1>3. record \in Records
  BY <1>1, <1>2 DEF Records, Typed
<1> HIDE DEF record
<1>4. [step |-> "write", left |-> job[t].left, found |-> job[t].found, known |-> record]
        \in RescanJobs
  BY <1>2, <1>3 DEF RescanJobs, RecordJobs, TurnJobs
<1>5. job[t] # None /\ ~Training(t)
  BY <1>1 DEF At, Training
<1> QED BY <1>1, <1>2, <1>4, <1>5, GoesOnKept

LEMMA WriteKeepsRecords ==
  ASSUME PipelineInv, OneRecord, NEW t \in Threads, WriteRecord(t) PROVE OneRecord'
<1> DEFINE j == [job[t] EXCEPT !.step = "replace"]
<1>1. /\ At(t, "write") /\ Goto(t, j) /\ UNCHANGED <<disk, changes, registry, row, run>>
      /\ job[t] \in TurnJobs({"write", "replace"}, Records)
  BY JobShape DEF WriteRecord, RecordJobs, PipelineInv
<1>2. /\ j \in RescanJobs /\ j.step = "replace" /\ j.left = job[t].left /\ j.found = job[t].found
  BY <1>1 DEF RescanJobs, RecordJobs, TurnJobs
<1> HIDE DEF j
<1>3. ~Training(t) /\ job[t] # None /\ Writing(t)
  BY <1>1 DEF At, Training, Writing
<1>4. registry[Turn(t)] = None /\ \A i \in DOMAIN job[t].found : Kept(job[t].found[i])
  BY <1>3 DEF OneRecord, JobKeeps
<1>5. RescanKept(t, j)
  BY <1>2, <1>4 DEF RescanKept
<1> QED BY <1>1, <1>2, <1>5, RescanKeepsRecords

\* With one rescan at a time a registration takes the place of none.
LEMMA ReplaceKeepsRecords ==
  ASSUME PipelineInv, RescansAlone, OneRecord, NEW t \in Threads, ReplaceRecord(t)
  PROVE  OneRecord'
<1> DEFINE f == Turn(t)
<1>1. At(t, "replace") /\ UNCHANGED <<disk, changes, row, run>>
  BY DEF ReplaceRecord
<1>2. ~Training(t) /\ job[t] # None /\ Writing(t)
  BY <1>1 DEF At, Training, Writing
<1>3. /\ job[t].found \in Seq(Items) /\ job[t].left \in (SUBSET DOMAIN Folders) \ {{}}
  BY <1>1, JobShape, TurnShape DEF RecordJobs, PipelineInv
<1>4. registry[f] = None /\ \A i \in DOMAIN job[t].found : Kept(job[t].found[i])
  BY <1>2 DEF OneRecord, JobKeeps
<1>5. CASE tmp[f] = None
  BY <1>1, <1>5, IdleKeepsRecords DEF ReplaceRecord
<1>6. CASE tmp[f] # None
  <2>1. Registering(t, "reload", None) /\ registry' = [registry EXCEPT ![f] = tmp[f]]
    BY <1>6 DEF ReplaceRecord
  <2>2. PICK j : Goto(t, j) /\ j.step = "reload" /\ j.found = job[t].found
    <3> DEFINE k == [step |-> "reload", left |-> job[t].left, found |-> job[t].found,
                     known |-> None]
    <3>1. k.step = "reload" /\ k.found = job[t].found
      OBVIOUS
    <3>2. Goto(t, k)
      BY <2>1 DEF Registering
    <3> HIDE DEF k
    <3> QED BY <3>1, <3>2
  <2> HIDE DEF f
  <2>3. \A u \in Threads : job'[u] = IF u = t THEN j ELSE job[u]
    BY <2>2 DEF PipelineInv, Typed, Goto
  <2>4. \A item \in Items : Kept(item) => Kept(item)'
    BY <1>4, <2>1 DEF PipelineInv, Typed, Kept, Items
  <2>5. \A d \in Datasets : row'[d] # None => Kept(row[d])'
    BY <1>1, <2>4 DEF PipelineInv, Typed, OneRecord, Kept
  <2>6. ASSUME NEW u \in Threads PROVE JobKeeps(u)'
    <3>1. CASE u = t
      <4>1. \A i \in DOMAIN job[t].found : job[t].found[i] \in Items
        BY <1>3
      <4>2. job'[u] = j
        BY <2>3, <3>1
      <4>3. ~Training(u)' /\ ~Writing(u)' /\ ~At(u, "verify")' /\ ~At(u, "load")' /\ ~At(u, "fit")'
        BY <2>2, <4>2 DEF At, Training, Writing
      <4>4. (\A i \in DOMAIN job[u].found : Kept(job[u].found[i]))'
        <5>1. job'[u].found = job[t].found
          BY <2>2, <4>2
        <5>2. \A i \in DOMAIN job[t].found :
                /\ registry'[job[t].found[i].folder] # None
                /\ registry'[job[t].found[i].folder] = job[t].found[i].record
          BY <1>4, <2>4, <4>1 DEF Kept
        <5> QED BY <5>1, <5>2 DEF Kept
      <4> QED BY <4>3, <4>4 DEF JobKeeps
    <3>2. CASE u # t
      <4>1. job'[u] = job[u] /\ (job[u] = None \/ Training(u))
        BY <1>2, <2>3, <3>2 DEF RescansAlone
      <4>2. ~Writing(u) /\ ~At(u, "verify")
        BY <4>1 DEF Training, Writing, At
      <4>3. JobKeeps(u)
        BY DEF OneRecord
      <4> QED BY <1>1, <4>1, <4>2, <4>3 DEF JobKeeps, DataOf, Writing, Training, At
    <3> QED BY <3>1, <3>2
  <2>7. TrainedOnRegistered' /\ (\A r \in Runs : Succeeded(r) => run[r].dataset \in Datasets)'
    BY <1>1 DEF OneRecord, TrainedOnRegistered, Succeeded
  <2> QED BY <2>5, <2>6, <2>7 DEF OneRecord
<1> QED BY <1>5, <1>6

\* What is loaded is the registration that is there.
LEMMA LoadKeepsRecords ==
  ASSUME PipelineInv, OneRecord, NEW t \in Threads, Load(t) PROVE OneRecord'
<1> DEFINE f == Turn(t)
           known == [seen |-> job[t].known, record |-> registry[f], manifest |-> disk[f].manifest]
<1>1. /\ At(t, "reload") \/ At(t, "lookup")
      /\ Typed /\ UNCHANGED <<disk, changes, registry, row, run>>
  BY DEF Load, files, PipelineInv
<1>2. /\ job[t].known \in FileHashes \cup {None} /\ job[t].found \in Seq(Items)
      /\ job[t].left \in (SUBSET DOMAIN Folders) \ {{}} /\ f \in Range(Folders)
  BY <1>1, LoadingJob
<1>3. CASE registry[f] # None /\ Hashed(f) /\ Registering(t, "verify", known)
  <2>1. registry[f] \in Records /\ disk[f].manifest \in Bundles
    BY <1>1, <1>2, <1>3 DEF Typed, Hashed, Intact
  <2>2. known \in [seen : FileHashes \cup {None}, record : Records, manifest : Bundles]
    BY <1>2, <2>1
  <2>3. Kept([folder |-> f, record |-> known.record])
    BY <1>3 DEF Kept
  <2> HIDE DEF known
  <2>4. [step |-> "verify", left |-> job[t].left, found |-> job[t].found, known |-> known]
          \in RescanJobs
    BY <1>2, <2>2 DEF RescanJobs, VerifyJobs, TurnJobs
  <2>5. job[t] # None /\ ~Training(t)
    BY <1>1 DEF At, Training
  <2> QED BY <1>1, <1>2, <1>3, <2>3, <2>4, <2>5, GoesOnKept
<1>4. CASE Idle(t)
  BY <1>1, <1>4, IdleKeepsRecords
<1> QED BY <1>3, <1>4 DEF Load

\* What a rescan found last is kept like the rest.
LEMMA VerifyKeepsRecords ==
  ASSUME PipelineInv, OneRecord, NEW t \in Threads, Verify(t) PROVE OneRecord'
<1> DEFINE item == [folder |-> Turn(t), record |-> job[t].known.record]
           found == job[t].found
           more == Append(found, item)
<1>1. At(t, "verify") /\ Typed /\ UNCHANGED <<disk, changes, registry, row, run>>
  BY DEF Verify, files, PipelineInv
<1>2. job[t] # None /\ ~Training(t)
  BY <1>1 DEF At, Training
<1>3. Kept(item) /\ \A i \in DOMAIN found : Kept(found[i])
  BY <1>1, <1>2 DEF OneRecord, JobKeeps
<1>4. CASE Found(t, Turn(t), job[t].known.record)
  <2>1. found \in Seq(Items)
    BY <1>1, VerifyingJob
  <2>2. PICK j \in LookJobs : Goto(t, j) /\ j.step = "look" /\ j.found = more
    BY <1>1, <1>4, VerifyingJob, FoundJob
  <2>3. j \in RescanJobs
    BY DEF RescanJobs
  <2> HIDE DEF item, found
  <2>4. \A i \in DOMAIN more : Kept(more[i])
    <3>1. \A i \in 1..Len(found) + 1 : more[i] = IF i = Len(found) + 1 THEN item ELSE found[i]
      BY <2>1
    <3>2. DOMAIN more = 1..Len(found) + 1 /\ DOMAIN found = 1..Len(found) /\ Len(found) \in Nat
      BY <2>1
    <3> QED BY <1>3, <3>1, <3>2
  <2> HIDE DEF more
  <2>5. RescanKept(t, j)
    BY <2>2, <2>4 DEF RescanKept
  <2> QED BY <1>1, <2>2, <2>3, <2>5, RescanKeepsRecords
<1>5. CASE Idle(t)
  BY <1>1, <1>5, IdleKeepsRecords
<1> QED BY <1>4, <1>5 DEF Verify

\* A row is made of what the rescan found, and no row is remade.
LEMMA UpsertKeepsRecords ==
  ASSUME PipelineInv, OneRecord, NEW t \in Threads, Upsert(t) PROVE OneRecord'
<1>1. At(t, "look") /\ UNCHANGED <<disk, changes, registry, run>>
  BY DEF Upsert, files
<1>2. job[t] \in LookJobs
  BY <1>1, JobShape DEF PipelineInv
<1>3. CASE job[t].found = <<>>
  BY <1>1, <1>3, IdleKeepsRecords DEF Upsert
<1>4. CASE job[t].found # <<>>
  <2> DEFINE found == job[t].found
             item == Head(found)
             d == DatasetOf[item.folder]
             rest == Tail(found)
             j == [job[t] EXCEPT !.found = rest]
  <2>1. found \in Seq(Items) /\ found # <<>>
    BY <1>2, <1>4 DEF LookJobs
  <2>2. \A i \in DOMAIN found : Kept(found[i])
    BY <1>1 DEF OneRecord, JobKeeps, Training, At
  <2>3. Kept(item)
    <3>1. item = found[1] /\ 1 \in DOMAIN found
      BY <2>1
    <3> QED BY <2>2, <3>1
  <2>4. \A i \in DOMAIN rest : Kept(rest[i])
    <3>1. \A i \in DOMAIN rest : rest[i] = found[i + 1] /\ i + 1 \in DOMAIN found
      BY <2>1
    <3> HIDE DEF rest, found
    <3> QED BY <2>2, <3>1
  <2>5. Goto(t, j) /\ row' = [row EXCEPT ![d] = IF @ = None THEN item ELSE @]
    BY <1>4 DEF Upsert
  <2> HIDE DEF found, item, rest, d
  <2>6. j.step = "look" /\ j.found = rest
    BY <1>2 DEF LookJobs
  <2> HIDE DEF j
  <2>7. \A u \in Threads : job'[u] = IF u = t THEN j ELSE job[u]
    BY <2>5 DEF PipelineInv, Typed, Goto
  <2>8. \A e \in Datasets : row'[e] = row[e] \/ (row[e] = None /\ row'[e] = item)
    BY <2>5 DEF PipelineInv, Typed
  <2>9. \A e \in Datasets : row[e] # None => row'[e] = row[e]
    BY <2>8
  <2>10. \A e \in Datasets : row'[e] # None => Kept(row[e])'
    BY <1>1, <2>3, <2>8 DEF OneRecord, Kept
  <2>11. ASSUME NEW u \in Threads PROVE JobKeeps(u)'
    <3>1. CASE u = t
      <4>1. job'[u] = j
        BY <2>7, <3>1
      <4>2. ~Training(u)' /\ ~Writing(u)' /\ ~At(u, "verify")' /\ ~At(u, "load")' /\ ~At(u, "fit")'
        BY <2>6, <4>1 DEF At, Training, Writing
      <4>3. (\A i \in DOMAIN job[u].found : Kept(job[u].found[i]))'
        BY <1>1, <2>4, <2>6, <4>1 DEF Kept
      <4> QED BY <4>2, <4>3 DEF JobKeeps
    <3>2. CASE u # t
      <4>1. job'[u] = job[u] /\ JobKeeps(u)
        BY <2>7, <3>2 DEF OneRecord
      <4>2. Training(u) => job[u].dataset \in Datasets
        BY JobShape DEF PipelineInv, Training, LoadJobs, FitJobs
      <4>3. Training(u) => row'[job[u].dataset] = row[job[u].dataset]
        BY <2>9, <4>1, <4>2 DEF JobKeeps
      <4> QED BY <1>1, <4>1, <4>3 DEF JobKeeps, DataOf, Kept, Writing, Training, At, Turn
    <3> QED BY <3>1, <3>2
  <2>12. TrainedOnRegistered' /\ (\A r \in Runs : Succeeded(r) => run[r].dataset \in Datasets)'
    <3>1. \A r \in Runs : Succeeded(r) => run[r].dataset \in Datasets
      BY DEF OneRecord
    <3> QED BY <1>1, <2>9, <3>1 DEF OneRecord, TrainedOnRegistered, Succeeded
  <2> QED BY <2>10, <2>11, <2>12 DEF OneRecord
<1> QED BY <1>3, <1>4

\* What a training knows must hold when it goes on, and all else stays.
LEMMA TrainingKeepsRecords ==
  ASSUME PipelineInv, OneRecord, NEW t \in Threads, NEW j, Goto(t, j),
         j.step \in {"load", "fit"}, row[j.dataset] # None, j.record = row[j.dataset].record,
         j.step = "load" =>
           /\ j.since <= changes
           /\ changes = j.since =>
                disk[j.folder] = [manifest |-> j.manifest, table |-> j.manifest],
         j.step = "fit" => DataOf(j.data, j.record, j.undisturbed),
         UNCHANGED <<files, row, run>>
  PROVE  OneRecord'
<1>1. \A u \in Threads : job'[u] = IF u = t THEN j ELSE job[u]
  BY DEF PipelineInv, Typed, Goto
<1>2. \A e \in Datasets : row'[e] # None => Kept(row[e])'
  BY DEF OneRecord, Kept, files
<1>3. ASSUME NEW u \in Threads PROVE JobKeeps(u)'
  <2>1. CASE u = t
    <3>1. job'[u] = j
      BY <1>1, <2>1
    <3>2. /\ job'[u] # None => Training(u)'
          /\ ~Writing(u)' /\ ~At(u, "verify")'
      BY <3>1 DEF Training, Writing, At
    <3> QED BY <3>1, <3>2 DEF JobKeeps, DataOf, At, files
  <2>2. CASE u # t
    BY <1>1, <2>2, OthersKeep DEF OneRecord, files
  <2> QED BY <2>1, <2>2
<1>4. TrainedOnRegistered' /\ (\A q \in Runs : Succeeded(q) => run[q].dataset \in Datasets)'
  BY DEF OneRecord, TrainedOnRegistered, Succeeded
<1> QED BY <1>2, <1>3, <1>4 DEF OneRecord

\* A training loads the registration its row names, and a table with its hash.
LEMMA TrainBeginKeepsRecords ==
  ASSUME PipelineInv, OneRecord, NEW t \in Threads, NEW r \in Runs, NEW d \in Datasets,
         NEW sites \in SitePicks, TrainBegin(t, r, d, sites)
  PROVE  OneRecord'
<1> DEFINE f == row[d].folder
<1>1. row[d] # None /\ Hashed(f) /\ UNCHANGED <<files, row, run>>
  BY DEF TrainBegin
<1>2. PICK j \in LoadJobs :
        /\ Goto(t, j) /\ j.step = "load" /\ j.dataset = d /\ j.folder = f
        /\ j.record = registry[f] /\ j.manifest = disk[f].manifest /\ j.since = changes
  BY BeginJob DEF PipelineInv
<1>3. j.record = row[d].record
  BY <1>1, <1>2 DEF OneRecord, Kept
<1>4. disk[f] = [manifest |-> disk[f].manifest, table |-> disk[f].manifest]
  <2>1. row[d] \in Items
    BY <1>1 DEF PipelineInv, Typed
  <2>2. f \in Range(Folders)
    BY <2>1 DEF Items
  <2>3. disk[f] \in [manifest : Bundles, table : Bundles \cup {None}]
        /\ disk[f].table = disk[f].manifest
    BY <1>1, <2>2 DEF PipelineInv, Typed, Hashed, Intact
  <2> QED BY <2>3
<1>5. changes \in Nat
  BY DEF PipelineInv, Typed
<1> HIDE DEF f
<1>6. j.since <= changes
  BY <1>2, <1>5
<1> QED BY <1>1, <1>2, <1>3, <1>4, <1>6, TrainingKeepsRecords

\* What it reads are rows for the manifest that is registered; the rows of the
\* table that was hashed, when nothing changed since.
LEMMA TrainLoadKeepsRecords ==
  ASSUME PipelineInv, OneRecord, NEW t \in Threads, TrainLoad(t) PROVE OneRecord'
<1> DEFINE k == job[t]
           data == Contents(k.manifest, disk[k.folder].table)
<1>1. At(t, "load") /\ Training(t) /\ UNCHANGED <<files, row, run>>
  BY DEF TrainLoad, Training
<1>2. /\ row[k.dataset] # None /\ k.record = row[k.dataset].record
      /\ changes = k.since => disk[k.folder] = [manifest |-> k.manifest, table |-> k.manifest]
  BY <1>1 DEF OneRecord, JobKeeps
<1>3. CASE /\ Registered(k.folder, k.manifest, k.record)
           /\ Goto(t, [step |-> "fit", r |-> k.r, dataset |-> k.dataset, sites |-> k.sites,
                       record |-> k.record, data |-> data, undisturbed |-> changes = k.since])
  <2>1. RowsRead(k.folder, k.manifest) /\ k.record.hashes = Hashes(k.folder, k.manifest)
    BY <1>3 DEF Registered
  <2>2. /\ disk[k.folder].table \in Bundles
        /\ \E j \in FitJobs :
             /\ Goto(t, j) /\ j.step = "fit" /\ j.dataset = k.dataset /\ j.record = k.record
             /\ j.data = data /\ j.undisturbed = (changes = k.since)
    BY <1>1, <1>3, <2>1, FitJob DEF PipelineInv
  <2>3. PICK j \in FitJobs :
          /\ Goto(t, j) /\ j.step = "fit" /\ j.dataset = k.dataset /\ j.record = k.record
          /\ j.data = data /\ j.undisturbed = (changes = k.since)
    BY <2>2
  <2>4. k.record.hashes.manifest = k.manifest
    BY <2>1 DEF Hashes
  <2>5. changes = k.since => disk[k.folder].table = k.manifest
    BY <1>2
  <2>6. DataOf(j.data, j.record, j.undisturbed)
    BY <2>2, <2>3, <2>4, <2>5 DEF DataOf
  <2> HIDE DEF k, data
  <2> QED BY <1>1, <1>2, <2>3, <2>6, TrainingKeepsRecords
<1>4. CASE Idle(t)
  BY <1>1, <1>4, IdleKeepsRecords DEF files
<1> QED BY <1>3, <1>4 DEF TrainLoad

\* Its model names what it loaded.
LEMMA RunEndsOnRecord ==
  ASSUME PipelineInv, OneRecord, NEW t \in Threads, At(t, "fit"), Goto(t, None), NEW a,
         run' = [run EXCEPT ![job[t].r] = a], UNCHANGED <<files, row>>,
         a.status = "succeeded" =>
           /\ a.dataset = job[t].dataset /\ a.record = job[t].record
           /\ a.data = job[t].data /\ a.undisturbed = job[t].undisturbed
  PROVE  OneRecord'
<1> DEFINE q == job[t].r
           d == job[t].dataset
<1>1. q \in Runs /\ d \in Datasets
  BY JobShape DEF PipelineInv, FitJobs
<1>2. /\ row[d] # None /\ job[t].record = row[d].record
      /\ DataOf(job[t].data, job[t].record, job[t].undisturbed)
  BY DEF OneRecord, JobKeeps, Training
<1>3. \A r \in Runs : run'[r] = IF r = q THEN a ELSE run[r]
  BY <1>1 DEF PipelineInv, Typed
<1>4. \A u \in Threads : job'[u] = IF u = t THEN None ELSE job[u]
  BY DEF PipelineInv, Typed, Goto
<1> HIDE DEF q, d
<1>5. \A e \in Datasets : row'[e] # None => Kept(row[e])'
  BY DEF OneRecord, Kept, files
<1>6. ASSUME NEW u \in Threads PROVE JobKeeps(u)'
  <2>1. CASE u = t
    BY <1>4, <2>1 DEF JobKeeps, Training, Writing, At
  <2>2. CASE u # t
    BY <1>4, <2>2, OthersKeep DEF OneRecord, files
  <2> QED BY <2>1, <2>2
<1>7. ASSUME NEW r \in Runs, Succeeded(r)'
      PROVE  (/\ run[r].dataset \in Datasets /\ row[run[r].dataset] # None
              /\ run[r].record = row[run[r].dataset].record
              /\ DataOf(run[r].data, run[r].record, run[r].undisturbed))'
  <2>1. CASE r = q
    BY <1>1, <1>2, <1>3, <1>7, <2>1 DEF Succeeded, d, DataOf
  <2>2. CASE r # q
    BY <1>3, <1>7, <2>2 DEF OneRecord, TrainedOnRegistered, Succeeded, DataOf
  <2> QED BY <2>1, <2>2
<1>8. TrainedOnRegistered' /\ (\A r \in Runs : Succeeded(r) => run[r].dataset \in Datasets)'
  BY <1>7 DEF TrainedOnRegistered, DataOf
<1> QED BY <1>5, <1>6, <1>8 DEF OneRecord

LEMMA TrainEndKeepsRecords ==
  ASSUME PipelineInv, OneRecord, NEW t \in Threads, TrainEnd(t) PROVE OneRecord'
<1> DEFINE j == job[t]
           artifact == [status |-> "succeeded", dataset |-> j.dataset, record |-> j.record,
                        data |-> j.data, undisturbed |-> j.undisturbed,
                        sites |-> j.sites, activatable |-> Activatable(j.data, j.sites)]
<1>1. At(t, "fit") /\ Goto(t, None) /\ UNCHANGED <<files, row>>
  BY DEF TrainEnd, Idle
<1>2. CASE run' = [run EXCEPT ![j.r] = Failed]
  <2>1. Failed.status # "succeeded"
    BY DEF Failed
  <2> QED BY <1>1, <1>2, <2>1, RunEndsOnRecord
<1>3. CASE run' = [run EXCEPT ![j.r] = artifact]
  <2>1. /\ artifact.dataset = j.dataset /\ artifact.record = j.record
        /\ artifact.data = j.data /\ artifact.undisturbed = j.undisturbed
    OBVIOUS
  <2> HIDE DEF artifact
  <2> QED BY <1>1, <1>3, <2>1, RunEndsOnRecord
<1> QED BY <1>2, <1>3 DEF TrainEnd

LEMMA CrashKeepsRecords ==
  ASSUME PipelineInv, OneRecord, NEW t \in Threads, Crash(t) PROVE OneRecord'
<1>1. Idle(t) /\ UNCHANGED <<files, row>>
  BY DEF Crash
<1>2. CASE At(t, "fit")
  <2>1. Failed.status # "succeeded" /\ run' = [run EXCEPT ![job[t].r] = Failed]
    BY <1>2 DEF Failed, Crash
  <2> QED BY <1>1, <1>2, <2>1, RunEndsOnRecord DEF Idle
<1>3. CASE ~At(t, "fit")
  BY <1>1, <1>3, IdleKeepsRecords DEF Crash, files
<1> QED BY <1>2, <1>3

LEMMA DiscoverKeepsRecords ==
  ASSUME PipelineInv, OneRecord, NEW t \in Threads, Discover(t) PROVE OneRecord'
<1> DEFINE j == [step |-> "look", left |-> {i \in DOMAIN Folders : disk[Folders[i]] # None},
                 found |-> <<>>]
<1>1. Goto(t, j) /\ UNCHANGED <<disk, changes, registry, row, run>>
  BY DEF Discover, files
<1>2. j \in RescanJobs /\ j.step = "look" /\ j.found = <<>> /\ DOMAIN j.found = {}
  BY DEF RescanJobs, LookJobs
<1> HIDE DEF j
<1>3. RescanKept(t, j)
  BY <1>2 DEF RescanKept
<1> QED BY <1>1, <1>2, <1>3, RescanKeepsRecords

LEMMA RecordsStep ==
  ASSUME PipelineInv, RescansAlone, OneRecord, [Next]_vars PROVE OneRecord'
<1>1. UNCHANGED vars => OneRecord'
  BY RecordsStay DEF vars, files
<1>2. ASSUME NEW t \in Threads, Rescan(t) PROVE OneRecord'
  BY <1>2, DiscoverKeepsRecords, LookKeepsRecords, ReadRowsKeepsRecords, LookupKeepsRecords,
     WriteKeepsRecords, ReplaceKeepsRecords, LoadKeepsRecords, VerifyKeepsRecords,
     UpsertKeepsRecords DEF Rescan
<1>3. ASSUME NEW t \in Threads, TrainLoad(t) \/ TrainEnd(t) \/ Crash(t) PROVE OneRecord'
  BY <1>3, TrainLoadKeepsRecords, TrainEndKeepsRecords, CrashKeepsRecords
<1>4. ASSUME NEW t \in Threads, NEW r \in Runs, NEW d \in Datasets, NEW sites \in SitePicks,
             TrainBegin(t, r, d, sites)
      PROVE  OneRecord'
  BY <1>4, TrainBeginKeepsRecords
<1>5. ASSUME NEW f, Change(f) PROVE OneRecord'
  BY <1>5, ChangeKeepsRecords
<1>6. ASSUME NEW r, Activate(r) PROVE OneRecord'
  BY <1>6, RecordsStay DEF Activate, files
<1>7. ASSUME NEW s, NEW site, SaveFormal(site, s) PROVE OneRecord'
  BY <1>7, RecordsStay DEF SaveFormal, files
<1>8. ASSUME NEW manual, NEW site, SaveExploratory(site, manual) PROVE OneRecord'
  BY <1>8, RecordsStay DEF SaveExploratory, files
<1>9. DeleteProfile => OneRecord'
  BY RecordsStay DEF DeleteProfile, files
<1>10. ASSUME NEW s, NEW official, Start(s, official) \/ Stop(s) \/ DeleteSession(s) \/ Test(s)
       PROVE  OneRecord'
  BY <1>10, RecordsStay DEF Start, Stop, DeleteSession, Test, files
<1> QED BY <1>1, <1>2, <1>3, <1>4, <1>5, <1>6, <1>7, <1>8, <1>9, <1>10 DEF Next

\* With one rescan at a time every model names the registration that the database
\* holds for its dataset and was trained with its manifest, and with its rows unless
\* an operator changed files while the table was read twice (experiment_store.py
\* upsert_official_dataset(), official_dataset.py load_registered_official_dataset()).
THEOREM AloneTrainsOnRegistered == MCSpec => []AloneTrainedOnRegistered
<1>1. MCInit => PipelineInv /\ AloneInv
  <2> SUFFICES ASSUME MCInit PROVE PipelineInv /\ AloneInv
    OBVIOUS
  <2>1. Init /\ focus \in Focuses /\ Focused
    BY DEF MCInit
  <2>2. OneRecord
    BY <2>1 DEF Init, OneRecord, JobKeeps, TrainedOnRegistered, Succeeded, Training, At, Writing
  <2> QED BY <2>1, <2>2, PipelineInit, AloneRescans DEF AloneInv
<1>2. PipelineInv /\ AloneInv /\ [MCNext]_<<vars, focus>> => (PipelineInv /\ AloneInv)'
  <2> SUFFICES ASSUME PipelineInv, AloneInv, [MCNext]_<<vars, focus>>
               PROVE  PipelineInv' /\ AloneInv'
    OBVIOUS
  <2>1. [Next]_vars /\ UNCHANGED focus
    BY DEF MCNext
  <2>2. PipelineInv'
    BY <2>1, PipelineStep
  <2>3. (focus # "rescans" => RescansAlone)'
    <3>1. CASE MCNext
      <4>1. (focus \in Focuses /\ Focused /\ focus # "rescans" => RescansAlone)'
        BY AloneRescans, PTL
      <4> QED BY <3>1, <4>1 DEF MCNext, AloneInv
    <3>2. CASE UNCHANGED <<vars, focus>>
      BY <3>2 DEF AloneInv, vars, RescansAlone, Training, At
    <3> QED BY <3>1, <3>2
  <2>4. focus # "rescans" => OneRecord'
    BY <2>1, RecordsStep DEF AloneInv
  <2> QED BY <2>1, <2>2, <2>3, <2>4 DEF AloneInv
<1>3. AloneInv => AloneTrainedOnRegistered
  BY DEF AloneInv, OneRecord, AloneTrainedOnRegistered
<1> QED BY <1>1, <1>2, <1>3, PTL DEF MCSpec
=============================================================================
