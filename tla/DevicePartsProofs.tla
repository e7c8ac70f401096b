--------------------------- MODULE DevicePartsProofs ---------------------------
(* Proofs about the parts the sensing loop relies on: the persistent sequence, *)
(* for every block size and every sequence space that is a multiple of it; the *)
(* driver of the echo sensor, for every timing that configurationValid()       *)
(* accepts; and the camera, for every number of passes in a frame's interval.  *)
(* At the end the loop itself, for every clock, limit and gap: types, the      *)
(* freshness of water reports through any silence of the echo, and what backs  *)
(* the green light.                                                            *)
EXTENDS MCDeviceParts, WellFoundedInduction, TLAPS

-----------------------------------------------------------------------------
(* The persistent sequence *)

\* A block that starts inside the space ends inside it, above its start, and
\* is at most BlockSize long.
LEMMA BlockEndBounds ==
  ASSUME NEW v \in Nat, v < SpaceSize
  PROVE  /\ BlockEnd(v) \in 0 .. SpaceSize
         /\ v < BlockEnd(v)
         /\ BlockEnd(v) - v <= BlockSize
         /\ BlockSize <= BlockEnd(v)
  BY SizesAssumption DEF BlockEnd

\* The cast to uint32 keeps a number of the sequence space.
LEMMA CastInSpace ==
  ASSUME NEW v \in Nat, v < SpaceSize
  PROVE  v % SpaceSize = v
  BY SizesAssumption

\* Appending a number above every element of log keeps it increasing, and
\* keeps every element below a bound that is above the new one.
LEMMA AppendAbove ==
  ASSUME NEW s \in Seq(0 .. SpaceSize - 1), NEW v \in 0 .. SpaceSize - 1,
         \A i \in DOMAIN s : s[i] < v,
         \A i, j \in DOMAIN s : i < j => s[i] < s[j],
         NEW t, t = Append(s, v)
  PROVE  /\ t \in Seq(0 .. SpaceSize - 1)
         /\ \A i, j \in DOMAIN t : i < j => t[i] < t[j]
         /\ \A b \in Nat : v < b => \A i \in DOMAIN t : t[i] < b
  <1>1. /\ t \in Seq(0 .. SpaceSize - 1)
        /\ DOMAIN t = 1 .. Len(s) + 1
        /\ \A i \in 1 .. Len(s) : t[i] = s[i]
        /\ t[Len(s) + 1] = v
        /\ DOMAIN s = 1 .. Len(s)
        /\ Len(s) \in Nat
    OBVIOUS
  <1>2. \A i \in 1 .. Len(s) : s[i] \in Nat
    BY SizesAssumption
  <1>3. ASSUME NEW i \in DOMAIN t, NEW j \in DOMAIN t, i < j
        PROVE  t[i] < t[j]
    <2>1. CASE j = Len(s) + 1
      BY <1>1, <1>3, <2>1
    <2>2. CASE j # Len(s) + 1
      BY <1>1, <1>3, <2>2
    <2>. QED
      BY <2>1, <2>2
  <1>4. ASSUME NEW b \in Nat, v < b, NEW i \in DOMAIN t
        PROVE  t[i] < b
    BY <1>1, <1>2, <1>4, SizesAssumption
  <1>. QED
    BY <1>1, <1>3, <1>4

THEOREM InitIInv == Init => IInv
  BY SizesAssumption DEF Init, IInv, TypeOK, NeverReissued, Boundary

\* next() hands out v when everything issued is below v and v is inside the
\* range [v, end) whose end is durable.
LEMMA IssueKeepsOrder ==
  ASSUME TypeOK, NeverReissued, NEW v \in Nat, v < SpaceSize, IssueFrom(v),
         \A i \in DOMAIN log : log[i] < v
  PROVE  /\ log' \in Seq(0 .. SpaceSize - 1)
         /\ NeverReissued'
         /\ \A b \in Nat : v < b => \A i \in DOMAIN log' : log'[i] < b
         /\ log' = Append(log, v)
         /\ nextValue' = v + 1
         /\ state' = IF v + 1 >= SpaceSize THEN "exhausted" ELSE "ready"
  <1>1. log' = Append(log, v)
    BY CastInSpace DEF IssueFrom
  <1>2. v \in 0 .. SpaceSize - 1
    BY SizesAssumption
  <1>. QED
    BY <1>1, <1>2, AppendAbove DEF IssueFrom, TypeOK, NeverReissued

THEOREM NextIInv == IInv /\ [Next]_vars => IInv'
  <1> SUFFICES ASSUME IInv, [Next]_vars
               PROVE  IInv'
    OBVIOUS
  <1> USE SizesAssumption DEF IInv
  <1>1. CASE Begin
    <2>1. CASE FailStorage
      BY <1>1, <2>1 DEF Begin, FailStorage, flash, TypeOK, NeverReissued, Boundary
    <2>2. CASE ~ FailStorage
      <3>1. /\ state \in {"uninitialized", "storage_failure"} /\ pc = "idle"
            /\ UNCHANGED <<nvs, nvsUntil, log>>
            /\ nextValue' = 0 /\ reservedUntil' = 0
            /\ \/ /\ nvsUntil >= SpaceSize /\ state' = "exhausted"
                  /\ UNCHANGED <<pc, caller, first>>
               \/ /\ nvsUntil < SpaceSize /\ state' = "uninitialized"
                  /\ pc' = "write" /\ caller' = "begin" /\ first' = nvsUntil
        BY <1>1, <2>2 DEF Begin, flash, TypeOK, Boundary
      <3>. QED
        BY <3>1 DEF TypeOK, NeverReissued, Boundary
    <2>. QED
      BY <2>1, <2>2
  <1>2. CASE NextInBlock
    <2>1. /\ pc = "idle" /\ state = "ready" /\ nextValue < reservedUntil
          /\ IssueFrom(nextValue)
          /\ UNCHANGED <<nvs, nvsUntil, reservedUntil, pc, caller, first>>
      BY <1>2 DEF NextInBlock, flash
    <2>2. /\ nextValue \in Nat /\ nextValue < SpaceSize /\ nextValue < nvsUntil
          /\ \A i \in DOMAIN log : log[i] < nextValue
          /\ reservedUntil = nvsUntil
      BY <2>1 DEF TypeOK, Boundary
    <2>3. /\ log' \in Seq(0 .. SpaceSize - 1)
          /\ NeverReissued'
          /\ \A b \in Nat : nextValue < b => \A i \in DOMAIN log' : log'[i] < b
          /\ nextValue' = nextValue + 1
          /\ state' = IF nextValue + 1 >= SpaceSize THEN "exhausted" ELSE "ready"
      BY <2>1, <2>2, IssueKeepsOrder
    <2>4. TypeOK'
      BY <2>1, <2>2, <2>3 DEF TypeOK
    <2>5. Boundary'
      <3>1. nvsUntil \in Nat /\ nextValue + 1 \in Nat
        BY DEF TypeOK
      <3>2. /\ \A i \in DOMAIN log' : log'[i] < nvsUntil'
            /\ \A i \in DOMAIN log' : log'[i] < nextValue'
        BY <2>1, <2>2, <2>3, <3>1
      <3>. QED
        BY <2>1, <2>2, <2>3, <3>2 DEF TypeOK, Boundary
    <2>. QED
      BY <2>3, <2>4, <2>5
  <1>3. CASE NextReserve
    <2>1. /\ pc = "idle" /\ state = "ready" /\ nextValue >= reservedUntil
          /\ EnterReserve(reservedUntil, "next")
          /\ nvs' = nvs /\ nvsUntil' = nvsUntil /\ nextValue' = nextValue
          /\ reservedUntil' = reservedUntil /\ log' = log
      BY <1>3 DEF NextReserve, flash
    <2>2. /\ reservedUntil = nvsUntil /\ nextValue = reservedUntil
          /\ \A i \in DOMAIN log : log[i] < nextValue
      BY <2>1 DEF TypeOK, Boundary
    <2>3. NeverReissued'
      BY <2>1 DEF NeverReissued
    <2>4. CASE reservedUntil >= SpaceSize
      <3>1. state' = "exhausted" /\ pc' = pc /\ caller' = caller /\ first' = first
            /\ nvsUntil = SpaceSize
        BY <2>1, <2>2, <2>4 DEF EnterReserve, TypeOK
      <3>2. TypeOK'
        BY <2>1, <3>1 DEF TypeOK
      <3>3. Boundary'
        BY <2>1, <3>1 DEF Boundary
      <3>. QED
        BY <2>3, <3>2, <3>3
    <2>5. CASE reservedUntil < SpaceSize
      <3>1. pc' = "write" /\ caller' = "next" /\ first' = reservedUntil /\ state' = state
        BY <2>1, <2>5 DEF EnterReserve, TypeOK
      <3>2. TypeOK'
        BY <2>1, <3>1 DEF TypeOK
      <3>3. Boundary'
        BY <2>1, <2>2, <2>5, <3>1 DEF Boundary
      <3>. QED
        BY <2>3, <3>2, <3>3
    <2>. QED
      BY <2>1, <2>4, <2>5 DEF TypeOK
  <1>4. CASE ReserveWrite
    <2>1. /\ first \in Nat /\ first < SpaceSize /\ pc = "write" /\ first = nvsUntil
      BY <1>4 DEF ReserveWrite, TypeOK, Boundary
    <2>2. /\ BlockEnd(first) \in 0 .. SpaceSize
          /\ first < BlockEnd(first)
          /\ BlockEnd(first) - first <= BlockSize
          /\ BlockSize <= BlockEnd(first)
      BY <2>1, BlockEndBounds
    <2>3. \A i \in DOMAIN log : log[i] \in Nat
      BY DEF TypeOK
    <2>4. UNCHANGED <<caller, first, log>>
      BY <1>4 DEF ReserveWrite
    <2>5. /\ TypeOK' /\ NeverReissued'
      BY <1>4, <2>1, <2>2 DEF ReserveWrite, FailStorage, flash, ram, TypeOK, NeverReissued
    <2>6. \A i \in DOMAIN log : log[i] < BlockEnd(first)
      BY <2>1, <2>2, <2>3 DEF Boundary
    <2>7. BlockEnd(first)' = BlockEnd(first)
      BY <2>4 DEF BlockEnd
    <2>8. CASE FailStorage
      BY <1>4, <2>1, <2>2, <2>4, <2>5, <2>6, <2>8 DEF ReserveWrite, FailStorage, flash, Boundary, TypeOK
    <2>9. CASE ~ FailStorage
      <3>1. /\ nvs' = "valid" /\ nvsUntil' = BlockEnd(first) /\ pc' = "verify"
            /\ UNCHANGED <<state, nextValue, reservedUntil>>
        BY <1>4, <2>9 DEF ReserveWrite, ram
      <3>. QED
        BY <2>1, <2>2, <2>4, <2>5, <2>6, <2>7, <3>1 DEF TypeOK, Boundary
    <2>. QED
      BY <2>8, <2>9
  <1>5. CASE ReserveVerify
    <2>1. /\ pc = "verify" /\ UNCHANGED <<nvs, nvsUntil, caller, first>>
      BY <1>5 DEF ReserveVerify, flash
    <2>2. /\ first \in Nat /\ first < SpaceSize /\ nvsUntil = BlockEnd(first)
          /\ \A i \in DOMAIN log : log[i] < first
          /\ state # "exhausted"
      BY <2>1 DEF TypeOK, Boundary
    <2>3. /\ nvsUntil \in 0 .. SpaceSize
          /\ first < nvsUntil
          /\ nvsUntil - first <= BlockSize
      BY <2>2, BlockEndBounds
    <2>4. CASE FailStorage /\ UNCHANGED log
      BY <2>1, <2>4 DEF FailStorage, TypeOK, NeverReissued, Boundary
    <2>5. CASE ~ (FailStorage /\ UNCHANGED log)
      <3>1. reservedUntil' = nvsUntil /\ pc' = "idle"
        BY <1>5, <2>5 DEF ReserveVerify
      <3>2. CASE caller = "next"
        <4>1. IssueFrom(first)
          BY <1>5, <2>5, <3>2 DEF ReserveVerify
        <4>2. /\ log' \in Seq(0 .. SpaceSize - 1)
              /\ NeverReissued'
              /\ \A b \in Nat : first < b => \A i \in DOMAIN log' : log'[i] < b
              /\ nextValue' = first + 1
              /\ state' = IF first + 1 >= SpaceSize THEN "exhausted" ELSE "ready"
          BY <2>2, <4>1, IssueKeepsOrder
        <4>3. TypeOK'
          BY <2>1, <2>2, <2>3, <3>1, <4>2 DEF TypeOK
        <4>4. /\ \A i \in DOMAIN log' : log'[i] < nvsUntil'
              /\ \A i \in DOMAIN log' : log'[i] < nextValue'
          BY <2>1, <2>2, <2>3, <4>2
        <4>5. Boundary'
          BY <2>1, <2>2, <2>3, <3>1, <4>2, <4>4 DEF TypeOK, Boundary
        <4>. QED
          BY <4>2, <4>3, <4>5
      <3>3. CASE caller # "next"
        <4>1. nextValue' = first /\ state' = "ready" /\ UNCHANGED log
          BY <1>5, <2>5, <3>3 DEF ReserveVerify
        <4>. QED
          BY <2>1, <2>2, <2>3, <3>1, <4>1 DEF TypeOK, NeverReissued, Boundary
      <3>. QED
        BY <3>2, <3>3
    <2>. QED
      BY <2>4, <2>5
  <1>6. CASE Crash
    BY <1>6 DEF Crash, flash, TypeOK, NeverReissued, Boundary
  <1>7. CASE Damage
    <2>1. BlockEnd(first)' = BlockEnd(first)
      BY <1>7 DEF Damage, BlockEnd
    <2>. QED
      BY <1>7, <2>1 DEF Damage, ram, TypeOK, NeverReissued, Boundary
  <1>8. CASE UNCHANGED vars
    <2>1. BlockEnd(first)' = BlockEnd(first)
      BY <1>8 DEF vars, BlockEnd
    <2>. QED
      BY <1>8, <2>1 DEF vars, TypeOK, NeverReissued, Boundary
  <1>. QED
    BY <1>1, <1>2, <1>3, <1>4, <1>5, <1>6, <1>7, <1>8 DEF Next

\* The inductive invariant holds of every behaviour.
THEOREM Invariance == Spec => []IInv
  BY InitIInv, NextIInv, PTL DEF Spec

\* Type correctness of the allocator (persistent_sequence.cpp).
THEOREM TypeCorrect == Spec => []TypeOK
  BY Invariance, PTL DEF IInv

\* No number is returned twice, over any number of resets, failed writes and
\* damaged records.
THEOREM NoReissue == Spec => []NeverReissued
  BY Invariance, PTL DEF IInv

\* The block of an issued number is durable before the number is used.
THEOREM IssuedBelowBoundary == Spec => []DurableBeforeIssue
  <1>1. IInv => DurableBeforeIssue
    BY DEF IInv, Boundary, DurableBeforeIssue
  <1>. QED
    BY <1>1, Invariance, PTL

\* A reset skips at most one block of a ready allocator.
THEOREM SkipsOneBlock == Spec => []ResetSkipsOneBlock
  <1>1. IInv => ResetSkipsOneBlock
    BY DEF IInv, Boundary, ResetSkipsOneBlock
  <1>. QED
    BY <1>1, Invariance, PTL

\* Exhaustion is declared only when the whole space is reserved.
THEOREM ExhaustionIsReal == Spec => []ExhaustedMeansNoneLeft
  <1>1. IInv => ExhaustedMeansNoneLeft
    BY DEF IInv, Boundary, ExhaustedMeansNoneLeft
  <1>. QED
    BY <1>1, Invariance, PTL

\* From a damaged record an allocator that is not ready never issues again.
THEOREM DamageStaysClosed == Spec => DamageFailsClosed
  <1>1. IInv /\ [Next]_vars => [ClosedStep]_vars
    BY DEF ClosedStep, IInv, TypeOK, Next, vars, Begin, NextInBlock, NextReserve, ReserveWrite,
           ReserveVerify, Crash, Damage, FailStorage, ValidRecord, flash, ram
  <1>. QED
    BY <1>1, Invariance, PTL DEF Spec, DamageFailsClosed

\* The allocator implements the issuer of strictly growing numbers.
THEOREM ImplementsIssuer == Spec => RefinesIssuer
  <1>1. Init => Issuer!IssuerInit
    BY DEF Init, Issuer!IssuerInit
  <1>2. ASSUME IInv, [Next]_vars
        PROVE  [Issuer!IssuerNext]_log
    <2>1. ASSUME NEW v \in Nat, v < SpaceSize, IssueFrom(v),
                 \A i \in DOMAIN log : log[i] < v
          PROVE  Issuer!IssuerNext
      <3>1. log' = Append(log, v)
        BY <1>2, <2>1, IssueKeepsOrder DEF IInv
      <3>2. v \in 0 .. SpaceSize - 1
        BY <2>1, SizesAssumption
      <3>. QED
        BY <2>1, <3>1, <3>2 DEF Issuer!IssuerNext, Issuer!Issue
    <2>2. CASE NextInBlock
      <3>1. /\ IssueFrom(nextValue) /\ nextValue \in Nat /\ nextValue < SpaceSize
            /\ \A i \in DOMAIN log : log[i] < nextValue
        BY <1>2, <2>2 DEF NextInBlock, IInv, TypeOK, Boundary
      <3>. QED
        BY <2>1, <3>1
    <2>3. CASE ReserveVerify
      <3>1. /\ first \in Nat /\ first < SpaceSize
            /\ \A i \in DOMAIN log : log[i] < first
        BY <1>2, <2>3 DEF ReserveVerify, IInv, TypeOK, Boundary
      <3>2. IssueFrom(first) \/ UNCHANGED log
        BY <2>3 DEF ReserveVerify
      <3>. QED
        BY <2>1, <3>1, <3>2
    <2>4. CASE Begin \/ NextReserve \/ ReserveWrite \/ Crash \/ Damage \/ UNCHANGED vars
      BY <2>4 DEF Begin, NextReserve, ReserveWrite, Crash, Damage, vars
    <2>. QED
      BY <1>2, <2>2, <2>3, <2>4 DEF Next
  <1>. QED
    BY <1>1, <1>2, Invariance, PTL DEF Spec, RefinesIssuer, Issuer!IssuerSpec

-----------------------------------------------------------------------------
(* The driver: its inductive invariant *)

Stages == {"idle", "arm", "attach", "copy", "consume", "recover", "wait", "ping", "trigger"}
Events == {"none", "sample", "outOfRange", "armed", "recovered", "timeout", "fault"}

Captures == [phase : {"idle", "rise", "fall"}, rise : Nat, width : Nat, unread : {0, 1}]
Drivers == [attached : BOOLEAN, recovering : BOOLEAN, fault : BOOLEAN,
            quiet : Int, left : Int, ping : Int, width : Nat]
Polls == [at : Stages, lag : 0..MaxLag, seen : Nat, event : Events]
Sensors == [line : BOOLEAN, high : Nat, due : {Unset} \cup 0..RiseDelay,
            latest : BOOLEAN, held : BOOLEAN]
Truths == [width : Nat, latest : BOOLEAN, polls : 0..2]

DriverTypes ==
  /\ capture \in Captures
  /\ driver \in Drivers
  /\ poll \in Polls
  /\ sensor \in Sensors
  /\ truth \in Truths

\* The sensor has nothing to say.
Quiet == ~sensor.line /\ sensor.due = Unset

\* What each point of a poll knows.
Stage ==
  /\ driver.fault => ~driver.attached
  /\ driver.recovering => driver.attached /\ capture.phase = "idle"
  /\ poll.at \in {"arm", "attach"} => ~driver.attached
  /\ poll.at = "attach" => ~driver.fault
  /\ poll.at \in {"copy", "consume", "recover", "wait", "ping", "trigger"} => driver.attached
  /\ poll.at \in {"recover", "ping"} => capture.phase = "idle" /\ capture.unread = 0
  /\ poll.at \in {"ping", "trigger"} => ~driver.recovering
  /\ poll.at = "trigger" => capture.phase = "rise" /\ Quiet
  /\ sensor.line => sensor.due = Unset

\* The interrupt follows the echo of the latest ping and no other.
Follows ==
  /\ capture.phase # "idle" => driver.attached /\ capture.unread = 0
  /\ capture.phase = "rise" => ~sensor.line /\ (poll.at = "trigger" \/ sensor.latest)
  /\ capture.phase = "fall" => sensor.line /\ sensor.latest /\ capture.rise = sensor.high

\* An echo that was measured and not consumed yet is the last there was, and
\* nothing comes between it and its consumption.
Unconsumed ==
  /\ capture.unread # 0 /\ ~driver.fault =>
       /\ driver.attached /\ Quiet /\ truth.latest /\ capture.width = truth.width
       /\ truth.polls <= 1
       /\ poll.at \notin {"copy", "consume"} => truth.polls = 0
  /\ poll.at = "consume" =>
       capture.unread = 1 /\ poll.seen = 1 /\ driver.width = capture.width
  /\ poll.event \in {"sample", "outOfRange"} => poll.at = "idle" /\ Quiet

\* A trigger the sensor has yet to answer was sent before the driver began to
\* wait for the next ping, and is answered, or never will be, before that wait
\* is over.
Waits ==
  /\ poll.at # "idle" /\ sensor.due # Unset => sensor.due >= poll.lag
  /\ driver.attached /\ capture.phase = "idle" /\ sensor.due # Unset =>
       sensor.due + driver.left >= PingInterval

DriverInv == DriverTypes /\ Stage /\ Follows /\ Unconsumed /\ Waits /\ DistanceIsOfThePing

-----------------------------------------------------------------------------
(* What polls have in common *)

\* How polls change what only they use.
LEMMA DriverFields ==
  ASSUME NEW d \in Drivers
  PROVE  /\ [d EXCEPT !.fault = TRUE, !.attached = FALSE, !.recovering = FALSE,
                      !.quiet = Unset] \in Drivers
         /\ \A left \in Int :
              /\ [d EXCEPT !.attached = TRUE, !.recovering = TRUE, !.left = left] \in Drivers
              /\ [d EXCEPT !.attached = TRUE, !.left = left] \in Drivers
              /\ [d EXCEPT !.recovering = FALSE, !.left = left] \in Drivers
         /\ \A width \in Nat : [d EXCEPT !.width = width] \in Drivers
         /\ \A quiet \in Int : [d EXCEPT !.quiet = quiet] \in Drivers
<1>1. [d EXCEPT !.fault = TRUE, !.attached = FALSE, !.recovering = FALSE,
                !.quiet = Unset] \in Drivers
  <2>1. ASSUME NEW f \in BOOLEAN, NEW a \in BOOLEAN, NEW r \in BOOLEAN, NEW q \in Int
        PROVE  [d EXCEPT !.fault = f, !.attached = a, !.recovering = r, !.quiet = q] \in Drivers
    BY DEF Drivers
  <2>2. Unset \in Int
    BY DEF Unset
  <2> QED BY <2>1, <2>2, Zenon
<1>2. ASSUME NEW left \in Int
      PROVE  /\ [d EXCEPT !.attached = TRUE, !.recovering = TRUE, !.left = left] \in Drivers
             /\ [d EXCEPT !.attached = TRUE, !.left = left] \in Drivers
             /\ [d EXCEPT !.recovering = FALSE, !.left = left] \in Drivers
  BY DEF Drivers
<1>3. ASSUME NEW width \in Nat PROVE [d EXCEPT !.width = width] \in Drivers
  BY DEF Drivers
<1>4. ASSUME NEW quiet \in Int PROVE [d EXCEPT !.quiet = quiet] \in Drivers
  BY DEF Drivers
<1> QED BY <1>1, <1>2, <1>3, <1>4

\* Before the first poll the interrupt is off and nothing was measured.
LEMMA DriverStarts == DriverInit => DriverInv
<1> SUFFICES ASSUME DriverInit PROVE DriverInv
  OBVIOUS
<1> USE DriverAssumption DEF Unset, Stages, Events
<1>1. sensor \in Sensors
  <2>1. sensor \in [line : BOOLEAN, high : {0}, due : {Unset} \cup 0..RiseDelay,
                   latest : {FALSE}, held : BOOLEAN]
    BY DEF DriverInit
  <2>2. sensor = [line |-> sensor.line, high |-> sensor.high, due |-> sensor.due,
                  latest |-> sensor.latest, held |-> sensor.held]
    BY <2>1, Zenon
  <2>3. /\ sensor.line \in BOOLEAN /\ sensor.high \in {0} /\ sensor.held \in BOOLEAN
        /\ sensor.due \in {Unset} \cup 0..RiseDelay /\ sensor.latest \in {FALSE}
    BY <2>1, Zenon
  <2>4. sensor.high \in Nat
    BY <2>3
  <2>5. sensor.latest \in BOOLEAN
    BY <2>3, Zenon
  <2> QED BY <2>2, <2>3, <2>4, <2>5, Zenon DEF Sensors
<1> USE DEF DriverInit
<1>2. capture \in Captures /\ poll \in Polls
  BY DEF Captures, Polls
<1>3. driver \in Drivers
  BY DEF Drivers
<1>4. truth \in Truths
  BY DEF Truths
<1>5. Stage /\ Follows /\ Unconsumed /\ Waits /\ DistanceIsOfThePing
  BY DEF Stage, Quiet, Follows, Unconsumed, Waits, DistanceIsOfThePing
<1> QED BY <1>1, <1>2, <1>3, <1>4, <1>5 DEF DriverInv, DriverTypes

\* After a fault nothing is measured again, whatever the lines do.
LEMMA FaultKeeps ==
  ASSUME DriverInv, LatchFault, sensor' \in Sensors, truth' \in Truths,
         sensor'.line => sensor'.due = Unset
  PROVE  DriverInv'
<1> USE DriverAssumption DEF LatchFault, Return, Unset
<1>1. capture' \in Captures /\ capture'.phase = "idle"
  BY DEF DriverInv, DriverTypes, Captures
<1>2. driver' \in Drivers
  BY DriverFields DEF DriverInv, DriverTypes
<1>3. driver'.fault /\ ~driver'.attached /\ ~driver'.recovering
  BY DEF DriverInv, DriverTypes, Drivers
<1>4. poll' \in Polls
  BY DEF Polls, Stages, Events
<1>5. DriverTypes'
  BY <1>1, <1>2, <1>4 DEF DriverTypes
<1>6. Stage' /\ Follows' /\ Unconsumed' /\ Waits' /\ DistanceIsOfThePing'
  BY <1>1, <1>3 DEF Stage, Follows, Unconsumed, Waits, DistanceIsOfThePing
<1> QED BY <1>5, <1>6 DEF DriverInv

\* A recovery forgets the ping it gives up: an answer still due is due within
\* the interval that begins.
LEMMA RecoveryKeeps ==
  ASSUME DriverInv, poll.at \in {"attach", "wait", "ping"}, UNCHANGED <<sensor, truth>>,
         ~sensor.held, StartRecovery("timeout")
  PROVE  DriverInv'
<1> USE DriverAssumption DEF StartRecovery, Return, AfterInterval, Unset
<1>1. capture' \in Captures /\ capture' = [capture EXCEPT !.phase = "idle"]
  BY DEF DriverInv, DriverTypes, Captures
<1>2. driver' = [driver EXCEPT !.attached = TRUE, !.recovering = TRUE,
                               !.left = PingInterval - poll.lag]
  OBVIOUS
<1>3. poll.lag \in Nat
  BY DEF DriverInv, DriverTypes, Polls
<1>4. driver' \in Drivers
  <2>1. PingInterval - poll.lag \in Int
    BY <1>3
  <2> QED BY <1>2, <2>1, DriverFields DEF DriverInv, DriverTypes
<1>5. poll' \in Polls
  BY DEF Polls, Stages, Events
<1>6. DriverTypes'
  BY <1>1, <1>4, <1>5 DEF DriverInv, DriverTypes
<1>7. ~driver.fault
  BY DEF DriverInv, Stage
<1>8. /\ driver'.attached /\ driver'.recovering /\ driver'.left = PingInterval - poll.lag
      /\ driver'.width = driver.width /\ driver'.fault = driver.fault
  BY <1>2 DEF DriverInv, DriverTypes, Drivers
<1>9. /\ capture'.phase = "idle" /\ capture'.unread = capture.unread
      /\ capture'.width = capture.width
  BY <1>1 DEF DriverInv, DriverTypes, Captures
<1>10. poll'.at = "idle" /\ poll'.event = "timeout"
  OBVIOUS
<1>11. Stage' /\ Follows'
  BY <1>7, <1>8, <1>9, <1>10 DEF DriverInv, Stage, Quiet, Follows
<1>12. Unconsumed' /\ DistanceIsOfThePing'
  BY <1>7, <1>8, <1>9, <1>10 DEF DriverInv, Unconsumed, Quiet, DistanceIsOfThePing
<1>13. sensor.due \in Int
  BY DEF DriverInv, DriverTypes, Sensors
<1>14. Waits'
  BY <1>3, <1>8, <1>10, <1>13 DEF DriverInv, Waits
<1> QED BY <1>6, <1>11, <1>12, <1>14 DEF DriverInv

-----------------------------------------------------------------------------
(* One lemma per action *)

\* The echo of the latest ping begins, or one nobody waits for.
LEMMA RiseKeeps == ASSUME DriverInv, EchoRises PROVE DriverInv'
<1> USE DriverAssumption DEF DriverInv, Unset, Stages, Events
<1>1. DriverTypes'
  <2>1. capture' \in Captures
    BY DEF DriverTypes, Captures, EchoRises, EchoInterrupt, Handle
  <2>2. driver' \in Drivers
    BY DEF DriverTypes, Drivers, EchoRises, EchoInterrupt, Handle
  <2>3. poll' \in Polls
    BY DEF DriverTypes, Polls, EchoRises, EchoInterrupt, Handle
  <2>4. sensor' \in Sensors
    BY DEF DriverTypes, Sensors, EchoRises, EchoInterrupt, Handle
  <2>5. truth' \in Truths
    BY DEF DriverTypes, Truths, EchoRises, EchoInterrupt, Handle
  <2> QED BY <2>1, <2>2, <2>3, <2>4, <2>5 DEF DriverTypes
<1> USE DEF DriverTypes, Captures, Drivers, Polls, Sensors, Truths, EchoRises, EchoInterrupt, Handle
<1>2. Stage'
  BY DEF Stage, Quiet, Follows, Unconsumed
<1>3. Follows'
  BY DEF Stage, Quiet, Follows
<1>4. Unconsumed'
  BY DEF Stage, Quiet, Follows, Unconsumed
<1>5. Waits'
  BY DEF Stage, Quiet, Waits
<1>6. DistanceIsOfThePing'
  BY DEF Stage, Quiet, Unconsumed, DistanceIsOfThePing
<1> QED BY <1>1, <1>2, <1>3, <1>4, <1>5, <1>6

\* An echo ends: it is measured when its beginning was.
LEMMA FallKeeps == ASSUME DriverInv, EchoFalls PROVE DriverInv'
<1> USE DriverAssumption DEF DriverInv, Unset, Stages, Events
<1>1. DriverTypes'
  <2>1. capture' \in Captures
    <3>1. \/ capture' = capture
          \/ capture.unread = 0
             /\ capture' = [capture EXCEPT !.phase = "idle", !.width = capture.rise,
                                          !.unread = capture.unread + 1]
      BY DEF DriverTypes, Captures, EchoFalls, EchoInterrupt, Handle, Follows
    <3>2. CASE capture.unread = 0
      <4>1. \/ capture' = capture
            \/ capture' = [capture EXCEPT !.phase = "idle", !.width = capture.rise, !.unread = 1]
        BY <3>1, <3>2
      <4> QED BY <4>1 DEF DriverTypes, Captures
    <3> QED BY <3>1, <3>2 DEF DriverTypes
  <2>2. driver' \in Drivers
    BY DEF DriverTypes, Drivers, EchoFalls, EchoInterrupt, Handle
  <2>3. poll' \in Polls
    BY DEF DriverTypes, Polls, EchoFalls, EchoInterrupt, Handle
  <2>4. sensor' \in Sensors
    <3>1. sensor' = [sensor EXCEPT !.line = FALSE, !.high = 0]
      BY DEF EchoFalls
    <3> QED BY <3>1 DEF DriverTypes, Sensors
  <2>5. truth' \in Truths
    <3>1. truth' = [width |-> sensor.high, latest |-> sensor.latest, polls |-> 0]
      BY DEF EchoFalls
    <3>2. sensor.high \in Nat /\ sensor.latest \in BOOLEAN
      BY DEF DriverTypes, Sensors
    <3> QED BY <3>1, <3>2 DEF Truths
  <2> QED BY <2>1, <2>2, <2>3, <2>4, <2>5 DEF DriverTypes
<1> USE DEF DriverTypes, Captures, Drivers, Polls, Sensors, Truths, EchoFalls, EchoInterrupt, Handle
<1>2. Stage'
  BY DEF Stage, Quiet, Follows, Unconsumed
<1>3. Follows'
  BY DEF Stage, Quiet, Follows
<1>4. Unconsumed'
  BY DEF Stage, Quiet, Follows, Unconsumed
<1>5. Waits'
  BY DEF Stage, Quiet, Waits
<1>6. DistanceIsOfThePing'
  BY DEF Stage, Quiet, Unconsumed, DistanceIsOfThePing
<1> QED BY <1>1, <1>2, <1>3, <1>4, <1>5, <1>6

\* TRIG is held, or let go of.
LEMMA HeldKeeps == ASSUME DriverInv, TriggerHeld PROVE DriverInv'
<1> USE DriverAssumption DEF DriverInv, Unset, Stages, Events
<1>1. DriverTypes'
  <2>1. capture' \in Captures
    BY DEF DriverTypes, Captures, TriggerHeld
  <2>2. driver' \in Drivers
    BY DEF DriverTypes, Drivers, TriggerHeld
  <2>3. poll' \in Polls
    BY DEF DriverTypes, Polls, TriggerHeld
  <2>4. sensor' \in Sensors
    BY DEF DriverTypes, Sensors, TriggerHeld
  <2>5. truth' \in Truths
    BY DEF DriverTypes, Truths, TriggerHeld
  <2> QED BY <2>1, <2>2, <2>3, <2>4, <2>5 DEF DriverTypes
<1> USE DEF DriverTypes, Captures, Drivers, Polls, Sensors, Truths, TriggerHeld
<1>2. Stage'
  BY DEF Stage, Quiet, Follows, Unconsumed
<1>3. Follows'
  BY DEF Stage, Quiet, Follows
<1>4. Unconsumed'
  BY DEF Stage, Quiet, Follows, Unconsumed
<1>5. Waits'
  BY DEF Stage, Quiet, Waits
<1>6. DistanceIsOfThePing'
  BY DEF Stage, Quiet, Unconsumed, DistanceIsOfThePing
<1> QED BY <1>1, <1>2, <1>3, <1>4, <1>5, <1>6

\* Time passes for an unanswered trigger and for the interval alike.
LEMMA TickKeeps == ASSUME DriverInv, TickDriver PROVE DriverInv'
<1> USE DriverAssumption DEF DriverInv, Unset, Stages, Events
<1>1. DriverTypes'
  <2>1. capture' \in Captures
    BY DEF DriverTypes, Captures, TickDriver, Older1
  <2>2. driver' \in Drivers
    <3> DEFINE quiet == Older1(driver.quiet, QuietTime + MaxLag)
               ping == Older1(driver.ping, EchoTimeout + MaxLag)
               left == IF driver.left > -MaxLag THEN driver.left - 1 ELSE driver.left
    <3>1. driver' = [driver EXCEPT !.quiet = quiet, !.ping = ping, !.left = left]
      BY DEF TickDriver
    <3>2. quiet \in Int /\ ping \in Int /\ left \in Int
      BY DEF DriverTypes, Drivers, Older1
    <3> HIDE DEF quiet, ping, left
    <3> QED BY <3>1, <3>2 DEF DriverTypes, Drivers
  <2>3. poll' \in Polls
    BY DEF DriverTypes, Polls, TickDriver, Older1
  <2>4. sensor' \in Sensors
    <3> DEFINE high == IF sensor.line THEN Older1(sensor.high, Longest) ELSE sensor.high
               due == IF sensor.line THEN sensor.due ELSE Older1(sensor.due, RiseDelay)
    <3>1. sensor' = [sensor EXCEPT !.high = high, !.due = due]
      BY DEF TickDriver
    <3>2. sensor.high \in Nat /\ sensor.due \in {Unset} \cup 0..RiseDelay
      BY DEF DriverTypes, Sensors
    <3>3. high \in Nat /\ due \in {Unset} \cup 0..RiseDelay
      BY <3>2 DEF Older1
    <3> HIDE DEF high, due
    <3> QED BY <3>1, <3>3 DEF DriverTypes, Sensors
  <2>5. truth' \in Truths
    BY DEF DriverTypes, Truths, TickDriver, Older1
  <2> QED BY <2>1, <2>2, <2>3, <2>4, <2>5 DEF DriverTypes
<1> USE DEF DriverTypes, Captures, Drivers, Polls, Sensors, Truths, TickDriver, Older1
<1>2. Stage'
  BY DEF Stage, Quiet, Follows, Unconsumed
<1>3. Follows'
  BY DEF Stage, Quiet, Follows
<1>4. Unconsumed'
  BY DEF Stage, Quiet, Follows, Unconsumed
<1>5. Waits'
  BY DEF Stage, Quiet, Waits
<1>6. DistanceIsOfThePing'
  BY DEF Stage, Quiet, Unconsumed, DistanceIsOfThePing
<1> QED BY <1>1, <1>2, <1>3, <1>4, <1>5, <1>6

\* A poll reads the clock.
LEMMA BeginKeeps == ASSUME DriverInv, PollBegins PROVE DriverInv'
<1> USE DriverAssumption DEF DriverInv, Unset, Stages, Events
<1>1. DriverTypes'
  <2>1. capture' \in Captures
    BY DEF DriverTypes, Captures, PollBegins
  <2>2. driver' \in Drivers
    BY DEF DriverTypes, Drivers, PollBegins
  <2>3. poll' \in Polls
    BY DEF DriverTypes, Polls, PollBegins
  <2>4. sensor' \in Sensors
    BY DEF DriverTypes, Sensors, PollBegins
  <2>5. truth' \in Truths
    BY DEF DriverTypes, Truths, PollBegins
  <2> QED BY <2>1, <2>2, <2>3, <2>4, <2>5 DEF DriverTypes
<1> USE DEF DriverTypes, Captures, Drivers, Polls, Sensors, Truths, PollBegins
<1>2. Stage'
  BY DEF Stage, Quiet, Follows, Unconsumed
<1>3. Follows'
  BY DEF Stage, Quiet, Follows
<1>4. Unconsumed'
  BY DEF Stage, Quiet, Follows, Unconsumed
<1>5. Waits'
  BY DEF Stage, Quiet, Waits
<1>6. DistanceIsOfThePing'
  BY DEF Stage, Quiet, Unconsumed, DistanceIsOfThePing
<1> QED BY <1>1, <1>2, <1>3, <1>4, <1>5, <1>6

\* The configuration is gone, or TRIG is held.
LEMMA HeldFaultKeeps == ASSUME DriverInv, PollWithFault PROVE DriverInv'
BY FaultKeeps DEF PollWithFault, DriverInv, DriverTypes, Stage

\* Before it is armed the driver measures nothing.
LEMMA UnarmedKeeps == ASSUME DriverInv, PollUnarmed PROVE DriverInv'
<1> USE DriverAssumption DEF DriverInv, Unset, Stages, Events
<1>1. DriverTypes'
  <2>1. capture' \in Captures
    BY DEF DriverTypes, Captures, PollUnarmed, Return, Now
  <2>2. driver' \in Drivers
    <3>1. driver' \in {driver, [driver EXCEPT !.quiet = Unset], [driver EXCEPT !.quiet = poll.lag]}
      BY DEF PollUnarmed, Now
    <3>2. Unset \in Int /\ poll.lag \in Int
      BY DEF DriverTypes, Polls
    <3> QED BY <3>1, <3>2, DriverFields DEF DriverTypes
  <2>3. poll' \in Polls
    BY DEF DriverTypes, Polls, PollUnarmed, Return, Now
  <2>4. sensor' \in Sensors
    BY DEF DriverTypes, Sensors, PollUnarmed, Return, Now
  <2>5. truth' \in Truths
    BY DEF DriverTypes, Truths, PollUnarmed, Return, Now
  <2> QED BY <2>1, <2>2, <2>3, <2>4, <2>5 DEF DriverTypes
<1> USE DEF DriverTypes, Captures, Drivers, Polls, Sensors, Truths, PollUnarmed, Return, Now
<1>2. Stage'
  BY DEF Stage, Quiet, Follows, Unconsumed
<1>3. Follows'
  BY DEF Stage, Quiet, Follows
<1>4. Unconsumed'
  BY DEF Stage, Quiet, Follows, Unconsumed
<1>5. Waits'
  BY DEF Stage, Quiet, Waits
<1>6. DistanceIsOfThePing'
  BY DEF Stage, Quiet, Unconsumed, DistanceIsOfThePing
<1> QED BY <1>1, <1>2, <1>3, <1>4, <1>5, <1>6

\* What is copied is the echo that ended last.
LEMMA CopyKeeps == ASSUME DriverInv, CopyCapture PROVE DriverInv'
<1> USE DriverAssumption DEF DriverInv, Unset, Stages, Events
<1>1. DriverTypes'
  <2>1. capture' \in Captures
    BY DEF DriverTypes, Captures, CopyCapture
  <2>2. driver' \in Drivers
    <3> DEFINE width == IF capture.unread > 0 THEN capture.width ELSE driver.width
    <3>1. driver' = [driver EXCEPT !.width = width]
      BY DEF CopyCapture
    <3>2. width \in Nat
      BY DEF DriverTypes, Captures, Drivers
    <3> HIDE DEF width
    <3> QED BY <3>1, <3>2, DriverFields DEF DriverTypes
  <2>3. poll' \in Polls
    <3> DEFINE at == IF capture.unread > 0 THEN "consume"
                     ELSE IF driver.recovering THEN "recover"
                     ELSE IF capture.phase # "idle" THEN "wait" ELSE "ping"
    <3>1. poll' = [poll EXCEPT !.at = at, !.seen = capture.unread]
      BY DEF CopyCapture
    <3>2. at \in Stages /\ capture.unread \in Nat
      BY DEF DriverTypes, Captures
    <3> HIDE DEF at
    <3> QED BY <3>1, <3>2 DEF DriverTypes, Polls
  <2>4. sensor' \in Sensors
    BY DEF DriverTypes, Sensors, CopyCapture
  <2>5. truth' \in Truths
    BY DEF DriverTypes, Truths, CopyCapture
  <2> QED BY <2>1, <2>2, <2>3, <2>4, <2>5 DEF DriverTypes
<1> USE DEF DriverTypes, Captures, Drivers, Polls, Sensors, Truths, CopyCapture
<1>2. Stage'
  BY DEF Stage, Quiet, Follows, Unconsumed
<1>3. Follows'
  BY DEF Stage, Quiet, Follows
<1>4. Unconsumed'
  BY DEF Stage, Quiet, Follows, Unconsumed
<1>5. Waits'
  BY DEF Stage, Quiet, Waits
<1>6. DistanceIsOfThePing'
  BY DEF Stage, Quiet, Unconsumed, DistanceIsOfThePing
<1> QED BY <1>1, <1>2, <1>3, <1>4, <1>5, <1>6

\* What was copied is consumed, and the interval begins.
LEMMA ConsumeKeeps == ASSUME DriverInv, ConsumeCapture PROVE DriverInv'
<1> USE DriverAssumption DEF DriverInv, Unset, Stages, Events
<1>1. DriverTypes'
  <2>1. capture' \in Captures
    BY DEF DriverTypes, Captures, Unconsumed, ConsumeCapture
  <2>2. driver' \in Drivers
    <3>1. driver' = [driver EXCEPT !.recovering = FALSE, !.left = PingInterval - poll.lag]
      BY DEF ConsumeCapture, AfterInterval
    <3>2. PingInterval - poll.lag \in Int
      BY DEF DriverTypes, Polls
    <3> QED BY <3>1, <3>2, DriverFields DEF DriverTypes
  <2>3. poll' \in Polls
    BY DEF DriverTypes, Polls, ConsumeCapture, Return, AfterInterval
  <2>4. sensor' \in Sensors
    BY DEF DriverTypes, Sensors, ConsumeCapture, Return, AfterInterval
  <2>5. truth' \in Truths
    BY DEF DriverTypes, Truths, ConsumeCapture, Return, AfterInterval
  <2> QED BY <2>1, <2>2, <2>3, <2>4, <2>5 DEF DriverTypes
<1> USE DEF DriverTypes, Captures, Drivers, Polls, Sensors, Truths, ConsumeCapture, Return, AfterInterval
<1>2. Stage'
  BY DEF Stage, Quiet, Follows, Unconsumed
<1>3. Follows'
  BY DEF Stage, Quiet, Follows, Unconsumed
<1>4. Unconsumed'
  BY DEF Stage, Quiet, Follows, Unconsumed
<1>5. Waits'
  BY DEF Stage, Quiet, Waits
<1>6. DistanceIsOfThePing'
  BY DEF Stage, Quiet, Unconsumed, DistanceIsOfThePing
<1> QED BY <1>1, <1>2, <1>3, <1>4, <1>5, <1>6

\* A recovery ends when the line is low, and the interval begins.
LEMMA RecoverKeeps == ASSUME DriverInv, Recover PROVE DriverInv'
<1> USE DriverAssumption DEF DriverInv, Unset, Stages, Events
<1>1. DriverTypes'
  <2>1. capture' \in Captures
    BY DEF DriverTypes, Captures, Recover, Return, AfterInterval
  <2>2. driver' \in Drivers
    <3>1. \/ driver' = driver
          \/ driver' = [driver EXCEPT !.recovering = FALSE, !.left = PingInterval - poll.lag]
      BY DEF Recover, AfterInterval
    <3>2. PingInterval - poll.lag \in Int
      BY DEF DriverTypes, Polls
    <3> QED BY <3>1, <3>2, DriverFields DEF DriverTypes
  <2>3. poll' \in Polls
    BY DEF DriverTypes, Polls, Recover, Return, AfterInterval
  <2>4. sensor' \in Sensors
    BY DEF DriverTypes, Sensors, Recover, Return, AfterInterval
  <2>5. truth' \in Truths
    BY DEF DriverTypes, Truths, Recover, Return, AfterInterval
  <2> QED BY <2>1, <2>2, <2>3, <2>4, <2>5 DEF DriverTypes
<1> USE DEF DriverTypes, Captures, Drivers, Polls, Sensors, Truths, Recover, Return, AfterInterval
<1>2. Stage'
  BY DEF Stage, Quiet, Follows, Unconsumed
<1>3. Follows'
  BY DEF Stage, Quiet, Follows
<1>4. Unconsumed'
  BY DEF Stage, Quiet, Follows, Unconsumed
<1>5. Waits'
  BY DEF Stage, Quiet, Waits
<1>6. DistanceIsOfThePing'
  BY DEF Stage, Quiet, Unconsumed, DistanceIsOfThePing
<1> QED BY <1>1, <1>2, <1>3, <1>4, <1>5, <1>6

\* The interrupt is attached when the line was low, unless it rose meanwhile.
LEMMA AttachKeeps == ASSUME DriverInv, ArmEchoCapture PROVE DriverInv'
<1> USE DriverAssumption DEF DriverInv, Unset, Stages, Events
<1>1. CASE sensor.held
  BY <1>1, FaultKeeps DEF ArmEchoCapture, DriverTypes, Stage
<1>2. CASE ~sensor.held /\ sensor.line
  BY <1>2, RecoveryKeeps DEF ArmEchoCapture
<1>3. CASE ~sensor.held /\ ~sensor.line
  <2> DEFINE left == PingInterval - poll.lag
  <2>1. /\ poll.at = "attach" /\ UNCHANGED <<sensor, truth>>
        /\ driver' = [driver EXCEPT !.attached = TRUE, !.left = left]
        /\ capture' = [capture EXCEPT !.phase = "idle"]
        /\ poll' = [at |-> "idle", lag |-> 0, seen |-> 0, event |-> "armed"]
    BY <1>3 DEF ArmEchoCapture, AfterInterval, Return
  <2>2. poll.lag \in Nat /\ sensor.due \in Int /\ left \in Int
    BY DEF DriverTypes, Polls, Sensors
  <2>3. driver' \in Drivers
    BY <2>1, <2>2, DriverFields DEF DriverTypes
  <2>4. capture' \in Captures /\ poll' \in Polls
    BY <2>1 DEF DriverTypes, Captures, Polls
  <2>5. /\ driver'.attached /\ driver'.left = left
        /\ driver'.recovering = driver.recovering /\ driver'.fault = driver.fault
    BY <2>1 DEF DriverTypes, Drivers
  <2>6. capture'.phase = "idle" /\ capture'.unread = capture.unread
    BY <2>1 DEF DriverTypes, Captures
  <2>7. ~driver.attached /\ ~driver.fault /\ ~driver.recovering /\ capture.unread = 0
    BY <2>1 DEF Stage, Unconsumed
  <2>8. poll'.at = "idle" /\ poll'.event = "armed"
    BY <2>1
  <2>9. Stage' /\ Follows'
    BY <1>3, <2>1, <2>5, <2>6, <2>7, <2>8 DEF Stage, Quiet, Follows
  <2>10. Unconsumed' /\ DistanceIsOfThePing'
    BY <2>6, <2>7, <2>8 DEF Unconsumed, DistanceIsOfThePing
  <2>11. Waits'
    BY <2>1, <2>2, <2>5, <2>8 DEF Waits
  <2> QED BY <2>1, <2>3, <2>4, <2>9, <2>10, <2>11 DEF DriverTypes
<1> QED BY <1>1, <1>2, <1>3

\* A ping that was not answered in time is given up.
LEMMA WaitKeeps == ASSUME DriverInv, WaitForEcho PROVE DriverInv'
<1> USE DriverAssumption DEF DriverInv, Unset, Stages, Events
<1>1. CASE StartRecovery("timeout") /\ ~sensor.held
  BY <1>1, RecoveryKeeps DEF WaitForEcho
<1>2. CASE StartRecovery("timeout") /\ sensor.held
  BY <1>2, FaultKeeps DEF WaitForEcho, StartRecovery, DriverTypes, Stage
<1>3. CASE Return("none") /\ UNCHANGED <<capture, driver>>
  <2>1. UNCHANGED <<capture, driver, sensor, truth>> /\ poll.at = "wait"
    BY <1>3 DEF WaitForEcho
  <2>2. poll' = [at |-> "idle", lag |-> 0, seen |-> 0, event |-> "none"]
    BY <1>3 DEF Return
  <2>3. DriverTypes'
    BY <2>1, <2>2 DEF DriverTypes, Polls
  <2>4. poll'.at = "idle" /\ poll'.event = "none"
    BY <2>2
  <2>5. Stage' /\ Follows'
    BY <2>1, <2>4 DEF Stage, Quiet, Follows
  <2>6. Unconsumed' /\ Waits' /\ DistanceIsOfThePing'
    BY <2>1, <2>4 DEF Unconsumed, Quiet, Waits, DistanceIsOfThePing
  <2> QED BY <2>3, <2>5, <2>6
<1> QED BY <1>1, <1>2, <1>3 DEF WaitForEcho

\* The interval is over: an answer still due would be due later than the sensor
\* ever answers, so none is.
LEMMA PingKeeps == ASSUME DriverInv, StartPing PROVE DriverInv'
<1> USE DriverAssumption DEF DriverInv, Unset, Stages, Events
<1>1. CASE sensor.held /\ LatchFault
  BY <1>1, FaultKeeps DEF StartPing, DriverTypes, Stage
<1>2. CASE ~sensor.held /\ StartRecovery("timeout")
  BY <1>2, RecoveryKeeps DEF StartPing
<1>3. CASE Return("none") /\ UNCHANGED <<capture, driver>>
  <2>1. UNCHANGED <<capture, driver, sensor, truth>> /\ poll.at = "ping"
    BY <1>3 DEF StartPing
  <2>2. poll' = [at |-> "idle", lag |-> 0, seen |-> 0, event |-> "none"]
    BY <1>3 DEF Return
  <2>3. DriverTypes'
    BY <2>1, <2>2 DEF DriverTypes, Polls
  <2>4. poll'.at = "idle" /\ poll'.event = "none"
    BY <2>2
  <2>5. Stage' /\ Follows'
    BY <2>1, <2>4 DEF Stage, Quiet, Follows
  <2>6. Unconsumed' /\ Waits' /\ DistanceIsOfThePing'
    BY <2>1, <2>4 DEF Unconsumed, Quiet, Waits, DistanceIsOfThePing, Stage
  <2> QED BY <2>3, <2>5, <2>6
<1>4. CASE /\ Deadline /\ ~sensor.line /\ UNCHANGED <<sensor, truth>>
           /\ capture' = [capture EXCEPT !.phase = "rise"]
           /\ driver' = [driver EXCEPT !.ping = Now]
           /\ poll' = [poll EXCEPT !.at = "trigger"]
  <2>1. poll.at = "ping"
    BY DEF StartPing
  <2>2. poll.lag \in Nat /\ sensor.due \in {Unset} \cup 0..RiseDelay /\ driver.left \in Int
    BY DEF DriverTypes, Polls, Sensors, Drivers
  <2>3. capture.phase = "idle" /\ capture.unread = 0 /\ driver.attached /\ ~driver.recovering
    BY <2>1 DEF Stage
  <2>4. Quiet
    BY <1>4, <2>1, <2>2, <2>3 DEF Waits, Deadline, Quiet
  <2>5. capture' \in Captures /\ capture'.phase = "rise" /\ capture'.unread = 0
    BY <1>4, <2>3 DEF DriverTypes, Captures
  <2>6. poll' \in Polls /\ poll'.at = "trigger" /\ poll'.event = poll.event
    BY <1>4 DEF DriverTypes, Polls
  <2>7. driver' \in Drivers
    <3>1. ASSUME NEW ping \in Int PROVE [driver EXCEPT !.ping = ping] \in Drivers
      BY DEF DriverTypes, Drivers
    <3> QED BY <1>4, <2>2, <3>1 DEF Now
  <2>8. /\ driver'.attached = driver.attached /\ driver'.recovering = driver.recovering
        /\ driver'.fault = driver.fault
    BY <1>4 DEF DriverTypes, Drivers
  <2>9. Stage' /\ Follows'
    BY <1>4, <2>3, <2>4, <2>5, <2>6, <2>8 DEF Stage, Quiet, Follows
  <2>10. poll.event \notin {"sample", "outOfRange"}
    BY <2>1 DEF Unconsumed
  <2>11. Unconsumed' /\ Waits' /\ DistanceIsOfThePing'
    BY <1>4, <2>4, <2>5, <2>6, <2>10 DEF Unconsumed, Quiet, Waits, DistanceIsOfThePing
  <2> QED BY <1>4, <2>5, <2>6, <2>7, <2>9, <2>11 DEF DriverTypes
<1> QED BY <1>1, <1>2, <1>3, <1>4 DEF StartPing

\* The sensor hears the trigger, as it had nothing left to answer, or fails to.
LEMMA TriggerKeeps == ASSUME DriverInv, SendTrigger PROVE DriverInv'
<1> USE DriverAssumption DEF DriverInv, Unset, Stages, Events
<1>1. /\ poll.at = "trigger" /\ capture.phase = "rise" /\ Quiet
      /\ driver.attached /\ capture.unread = 0 /\ ~driver.recovering
  BY DEF SendTrigger, Stage, Follows
<1>2. PICK due \in {0, Unset} : sensor' = [sensor EXCEPT !.latest = TRUE, !.due = due]
  BY <1>1 DEF SendTrigger, Quiet
<1>3. sensor' \in Sensors
  <2>1. due \in {Unset} \cup 0..RiseDelay
    OBVIOUS
  <2>2. sensor \in Sensors
    BY DEF DriverTypes
  <2> QED BY <1>2, <2>1, <2>2 DEF Sensors
<1>4. sensor'.latest /\ sensor'.line = sensor.line
  <2>1. sensor \in Sensors
    BY DEF DriverTypes
  <2> QED BY <1>2, <2>1 DEF Sensors
<1>5. truth' = [truth EXCEPT !.latest = FALSE]
  BY DEF SendTrigger
<1>6. truth' \in Truths
  BY <1>5 DEF DriverTypes, Truths
<1>7. ~sensor.line /\ ~sensor'.line
  BY <1>1, <1>4 DEF Quiet
<1>8. CASE LatchFault
  BY <1>3, <1>6, <1>7, <1>8, FaultKeeps
<1>9. CASE Return("none") /\ UNCHANGED <<capture, driver>>
  <2>1. /\ poll' = [at |-> "idle", lag |-> 0, seen |-> 0, event |-> "none"]
        /\ UNCHANGED <<capture, driver>>
    BY <1>9 DEF Return
  <2>2. DriverTypes'
    BY <1>3, <1>6, <2>1 DEF DriverTypes, Polls
  <2>3. poll'.at = "idle" /\ poll'.event = "none"
    BY <2>1
  <2>4. Stage' /\ Follows'
    BY <1>1, <1>4, <1>7, <2>1, <2>3 DEF Stage, Follows
  <2>5. Unconsumed' /\ Waits' /\ DistanceIsOfThePing'
    BY <1>1, <2>1, <2>3 DEF Unconsumed, Waits, DistanceIsOfThePing
  <2> QED BY <2>2, <2>4, <2>5
<1> QED BY <1>8, <1>9 DEF SendTrigger

LEMMA DriverStep == DriverInv /\ [DriverNext]_driverVars => DriverInv'
<1> SUFFICES ASSUME DriverInv, [DriverNext]_driverVars PROVE DriverInv'
  OBVIOUS
<1>1. CASE DriverNext
  BY <1>1, RiseKeeps, FallKeeps, HeldKeeps, TickKeeps, BeginKeeps, HeldFaultKeeps,
     UnarmedKeeps, AttachKeeps, CopyKeeps, ConsumeKeeps, RecoverKeeps, WaitKeeps,
     PingKeeps, TriggerKeeps
     DEF DriverNext
<1>2. CASE UNCHANGED driverVars
  BY <1>2 DEF driverVars, DriverInv, DriverTypes, Stage, Quiet, Follows, Unconsumed, Waits,
     DistanceIsOfThePing
<1> QED BY <1>1, <1>2

THEOREM DriverInvariance == DriverSpec => []DriverInv
BY DriverStarts, DriverStep, PTL DEF DriverSpec

\* Every distance the driver reports is that of the echo of its latest ping, just
\* ended, and no ping is sent while an answer to an earlier one is due: for every
\* timing in which the sensor begins to answer sooner than the next ping.
THEOREM DistancesAreTrue == DriverSpec => []EchoIsOfThePing
<1>1. DriverInv => EchoIsOfThePing
  BY DEF DriverInv, Stage, Quiet, EchoIsOfThePing, PingsAreApart
<1> QED BY <1>1, DriverInvariance, PTL

-----------------------------------------------------------------------------
(* The camera: what its control frames leave behind *)

Commands == {Watch, Alert, Green}
Undamaged == [bad : {FALSE}, seq : Nat, age : Nat, command : Commands]
Frames == {Bad} \cup Undamaged
Controls == [last : Nat \cup {Nothing}, heard : 0..Timeout + 1, command : Commands,
             invalid : {TRUE, FALSE}, age : Nat, deaf : Nat]

\* A green command the camera still trusts is older than its arrival by a pass.
Recent(c) == c.heard <= Timeout /\ c.command = Green => c.age <= c.heard + MaxPass

\* The frames refused since the last accepted one, and n more, all fit between
\* its sending and now.
Fits(c, n) ==
  /\ c.heard <= Timeout => (c.deaf + n) * Interval + esp.since <= c.heard + MaxPass
  /\ c.deaf * Interval <= Timeout + MaxPass

CameraTypes ==
  /\ esp \in [next : Nat, since : Nat]
  /\ wire \in Seq(Frames)
  /\ cam \in Controls
  /\ pass \in [alive : BOOLEAN, lasted : 0..MaxPass]
  /\ lamp \in [light : {"red", "yellow", "green", "off"}, age : Nat]

\* What waits for a living camera arrived in this pass, Interval apart.
Waiting ==
  pass.alive =>
    /\ \A i \in DOMAIN wire : ~wire[i].bad => wire[i].age <= pass.lasted
    /\ wire # <<>> => (Len(wire) - 1) * Interval + esp.since <= pass.lasted

Backed ==
  /\ Recent(cam)
  /\ lamp.age <= Timeout + MaxPass + pass.lasted
  /\ lamp.light # "green" => lamp.age = 0
  /\ ~pass.alive => lamp.light = "off" /\ cam.heard > Timeout /\ pass.lasted = 0

CameraInv == CameraTypes /\ Waiting /\ Backed /\ Fits(cam, Len(wire))

-----------------------------------------------------------------------------
(* Induction over the frames that wait *)

\* Induction over the naturals, for a set.
LEMMA SetInduction ==
  ASSUME NEW S, 0 \in S, \A n \in Nat : n \in S => n + 1 \in S
  PROVE  Nat \subseteq S
<1> SUFFICES ASSUME Nat \ S # {} PROVE FALSE
  OBVIOUS
<1> DEFINE R == OpToRel(<, Nat)
           T == Nat \ S
<1>1. IsWellFoundedOn(R, Nat)
  BY NatLessThanWellFounded
<1>2. T \subseteq Nat /\ T # {}
  OBVIOUS
<1> HIDE DEF R
<1>3. PICK x \in T : \A y \in T : ~(<<y, x>> \in R)
  BY <1>1, <1>2, WFMin
<1>4. x \in Nat /\ x # 0 /\ x - 1 \in Nat
  OBVIOUS
<1>5. x - 1 \in T
  BY <1>4
<1>6. <<x - 1, x>> \in R
  <2>1. <<x - 1, x>> \in Nat \X Nat /\ x - 1 < x
    BY <1>4
  <2> QED BY <2>1 DEF R, OpToRel
<1> QED BY <1>3, <1>5, <1>6

\* f is what the camera holds after each of the first k frames of w.
Chain(f, c, w, k) == f = [n \in 0..k |-> IF n = 0 THEN c ELSE Accept(f[n - 1], w[n])]

LEMMA ChainExists == ASSUME NEW c, NEW w, NEW k \in Nat PROVE \E f : Chain(f, c, w, k)
<1> DEFINE S == {n \in Nat : \E f : Chain(f, c, w, n)}
<1>1. 0 \in S
  <2> DEFINE g == [n \in 0..0 |-> c]
  <2>1. Chain(g, c, w, 0)
    BY DEF Chain
  <2> QED BY <2>1
<1>2. ASSUME NEW n \in Nat, n \in S PROVE n + 1 \in S
  <2>1. PICK f : Chain(f, c, w, n)
    BY <1>2
  <2> DEFINE g == [m \in 0..n + 1 |-> IF m \in 0..n THEN f[m] ELSE Accept(f[n], w[n + 1])]
  <2>2. \A m \in 0..n : f[m] = IF m = 0 THEN c ELSE Accept(f[m - 1], w[m])
    BY <2>1 DEF Chain
  <2>3. \A m \in 0..n + 1 : g[m] = IF m = 0 THEN c ELSE Accept(g[m - 1], w[m])
    <3> TAKE m \in 0..n + 1
    <3>1. CASE m = 0
      BY <2>2, <3>1
    <3>2. CASE m \in 1..n
      BY <2>2, <3>2
    <3>3. CASE m = n + 1
      BY <3>3
    <3> QED BY <3>1, <3>2, <3>3
  <2>4. g = [m \in 0..n + 1 |-> g[m]]
    OBVIOUS
  <2> HIDE DEF g
  <2>5. Chain(g, c, w, n + 1)
    BY <2>3, <2>4 DEF Chain
  <2> QED BY <2>5
<1> HIDE DEF S
<1>3. Nat \subseteq S
  BY <1>1, <1>2, SetInduction
<1> QED BY <1>3 DEF S

LEMMA HeardIsChained ==
  ASSUME Len(wire) \in Nat
  PROVE  \E f : Chain(f, cam, wire, Len(wire)) /\ Heard = f[Len(wire)]
<1> DEFINE A == CHOOSE f : Chain(f, cam, wire, Len(wire))
<1>1. Chain(A, cam, wire, Len(wire))
  BY ChainExists
<1>2. Heard = A[Len(wire)]
  BY DEF Heard, Chain
<1> HIDE DEF A
<1> QED BY <1>1, <1>2

-----------------------------------------------------------------------------
(* The camera: what one control frame changes *)

LEMMA CameraNats == Timeout \in Nat /\ MaxPass \in Nat /\ Interval \in Nat /\ Baseline \in Nat \ {0}
BY CameraAssumption

\* A frame that is refused counts one more, and one frame less is left.
LEMMA OneMore ==
  ASSUME NEW d \in Nat, NEW n \in Nat
  PROVE  /\ (d + 1 + n) * Interval = (d + (n + 1)) * Interval
         /\ (d + (n + 1)) * Interval = (d + n) * Interval + Interval
         /\ (d + 1) * Interval <= (d + (n + 1)) * Interval
         /\ n * Interval <= (d + n) * Interval
         /\ 0 * Interval = 0 /\ n * Interval \in Nat /\ (d + n) * Interval \in Nat
         /\ d * Interval \in Nat
BY CameraAssumption

LEMMA ControlFields ==
  ASSUME NEW c \in Controls, NEW deaf \in Nat
  PROVE  [c EXCEPT !.invalid = TRUE, !.deaf = deaf] \in Controls
<1>1. ASSUME NEW b \in {TRUE, FALSE} PROVE [c EXCEPT !.invalid = b, !.deaf = deaf] \in Controls
  BY DEF Controls
<1> QED BY <1>1, Zenon

LEMMA UndamagedFrame ==
  ASSUME NEW f \in Frames, ~f.bad
  PROVE  f \in Undamaged /\ f.age \in Nat
<1>1. f \in Undamaged
  BY DEF Frames, Bad
<1> QED BY <1>1 DEF Undamaged

LEMMA AcceptKeeps ==
  ASSUME NEW c \in Controls, NEW f \in Frames, ~f.bad => f.age <= MaxPass,
         NEW n \in Nat, esp.since \in Nat, n * Interval + esp.since <= MaxPass,
         Recent(c), Fits(c, n + 1)
  PROVE  Accept(c, f) \in Controls /\ Recent(Accept(c, f)) /\ Fits(Accept(c, f), n)
<1> USE CameraAssumption
<1>1. c.heard \in Nat /\ c.deaf \in Nat /\ c.age \in Nat
  BY DEF Controls
<1>2. CASE f.bad
  <2>1. Accept(c, f) = [c EXCEPT !.invalid = TRUE, !.deaf = 0]
    BY <1>2 DEF Accept, Decodes, Refused
  <2>2. Accept(c, f) \in Controls
    <3>1. [c EXCEPT !.invalid = TRUE, !.deaf = 0] \in Controls
      BY ControlFields
    <3> QED BY <2>1, <3>1, Zenon
  <2>3. /\ Accept(c, f).heard = c.heard /\ Accept(c, f).deaf = 0
        /\ Accept(c, f).command = c.command /\ Accept(c, f).age = c.age
    BY <2>1 DEF Controls
  <2>4. 0 * Interval = 0 /\ (0 + n) * Interval = n * Interval /\ n * Interval \in Nat
    BY OneMore
  <2> QED BY <1>1, <2>2, <2>3, <2>4 DEF Recent, Fits
<1>3. CASE ~f.bad /\ Accept(c, f) = Accepted(f)
  <2>1. f \in Undamaged
    BY <1>3, UndamagedFrame
  <2>2. f.seq \in Nat /\ f.age \in Nat /\ f.command \in Commands
    BY <2>1 DEF Undamaged
  <2>3. Accept(c, f) = [last |-> f.seq, heard |-> 0, command |-> f.command, invalid |-> FALSE,
                        age |-> IF f.command = Green THEN f.age ELSE 0, deaf |-> 0]
    BY <1>3 DEF Accepted
  <2>4. Accept(c, f) \in Controls
    BY <2>2, <2>3 DEF Controls
  <2>5. 0 * Interval = 0 /\ (0 + n) * Interval = n * Interval /\ n * Interval \in Nat
    BY OneMore
  <2>6. Fits(Accept(c, f), n)
    BY <2>3, <2>5 DEF Fits
  <2>7. Recent(Accept(c, f))
    BY <1>3, <2>2, <2>3 DEF Recent
  <2> QED BY <2>4, <2>6, <2>7
<1>4. CASE ~f.bad /\ Accept(c, f) # Accepted(f)
  <2>1. Accept(c, f) = [c EXCEPT !.invalid = TRUE, !.deaf = c.deaf + 1] /\ c.heard <= Timeout
    BY <1>4 DEF Accept, Decodes, Refused, IsFresh
  <2>2. Accept(c, f) \in Controls
    <3>1. c.deaf + 1 \in Nat
      BY <1>1
    <3> QED BY <2>1, <3>1, ControlFields
  <2>3. /\ Accept(c, f).heard = c.heard /\ Accept(c, f).deaf = c.deaf + 1
        /\ Accept(c, f).command = c.command /\ Accept(c, f).age = c.age
    BY <2>1 DEF Controls
  <2>4. Fits(Accept(c, f), n)
    BY <1>1, <2>1, <2>3, OneMore DEF Fits
  <2> QED BY <1>1, <2>2, <2>3, <2>4 DEF Recent
<1> QED BY <1>2, <1>3, <1>4

\* So after every frame that waits, and in the end after all of them.
LEMMA HeardKeeps ==
  ASSUME CameraTypes, Waiting, pass.alive, Recent(cam), Fits(cam, Len(wire))
  PROVE  Heard \in Controls /\ Recent(Heard) /\ Fits(Heard, 0)
<1> USE CameraAssumption
<1> DEFINE k == Len(wire)
<1>1. k \in Nat /\ DOMAIN wire = 1..k /\ (\A i \in 1..k : wire[i] \in Frames) /\ (k = 0 <=> wire = <<>>)
  <2>1. wire \in Seq(Frames)
    BY DEF CameraTypes
  <2>2. k \in Nat /\ DOMAIN wire = 1..k /\ \A i \in 1..k : wire[i] \in Frames
    BY <2>1
  <2>3. k = 0 <=> wire = <<>>
    BY <2>1, SMTT(30)
  <2> QED BY <2>2, <2>3
<1>2. PICK f : Chain(f, cam, wire, k) /\ Heard = f[k]
  BY <1>1, HeardIsChained
<1>3. \A n \in 0..k : f[n] = IF n = 0 THEN cam ELSE Accept(f[n - 1], wire[n])
  BY <1>2 DEF Chain
<1>4. esp.since \in Nat /\ pass.lasted \in 0..MaxPass
  BY DEF CameraTypes
<1> DEFINE S == {n \in Nat : n <= k => f[n] \in Controls /\ Recent(f[n]) /\ Fits(f[n], k - n)}
<1>5. 0 \in S
  BY <1>1, <1>3 DEF CameraTypes
<1>6. ASSUME NEW n \in Nat, n \in S PROVE n + 1 \in S
  <2> SUFFICES ASSUME n + 1 <= k PROVE f[n + 1] \in Controls /\ Recent(f[n + 1]) /\ Fits(f[n + 1], k - (n + 1))
    OBVIOUS
  <2> DEFINE m == k - (n + 1)
  <2>1. m \in Nat /\ m + 1 = k - n /\ n + 1 \in 1..k /\ m <= k - 1 /\ k # 0
    BY <1>1
  <2>2. f[n] \in Controls /\ Recent(f[n]) /\ Fits(f[n], m + 1)
    BY <1>1, <1>6, <2>1
  <2>3. f[n + 1] = Accept(f[n], wire[n + 1])
    <3>1. n + 1 \in 0..k /\ n + 1 # 0 /\ (n + 1) - 1 = n
      BY <1>1, <2>1
    <3>2. f[n + 1] = Accept(f[(n + 1) - 1], wire[n + 1])
      BY <1>3, <3>1
    <3> QED BY <3>1, <3>2
  <2>4. wire[n + 1] \in Frames /\ (~wire[n + 1].bad => wire[n + 1].age <= pass.lasted)
    BY <1>1, <2>1 DEF Waiting
  <2>5. ~wire[n + 1].bad => wire[n + 1].age <= MaxPass
    <3> DEFINE w == wire[n + 1]
    <3>1. ASSUME ~w.bad PROVE w.age \in Nat /\ w.age <= pass.lasted
      BY <2>4, <3>1, UndamagedFrame
    <3>2. pass.lasted \in Nat /\ pass.lasted <= MaxPass /\ MaxPass \in Nat
      BY <1>4, CameraNats
    <3> HIDE DEF w
    <3>3. \A a, b, c \in Nat : a <= b /\ b <= c => a <= c
      OBVIOUS
    <3>4. ~w.bad => w.age <= MaxPass
      BY <3>1, <3>2, <3>3, Zenon
    <3> QED BY <3>4 DEF w
  <2>6. m * Interval + esp.since <= MaxPass
    <3>1. (k - 1) * Interval + esp.since <= pass.lasted
      BY <1>1, <2>1 DEF Waiting
    <3>2. m * Interval <= (k - 1) * Interval
      <4>1. k - 1 = n + m /\ n + m \in Nat
        BY <1>1, <2>1
      <4>2. m * Interval <= (n + m) * Interval
        BY <2>1, OneMore
      <4> QED BY <4>1, <4>2
    <3>3. \A a, b, c, d, e \in Int : a <= b /\ b + c <= d /\ d <= e => a + c <= e
      OBVIOUS
    <3>4. /\ m * Interval \in Int /\ (k - 1) * Interval \in Int /\ esp.since \in Int
          /\ pass.lasted \in Int /\ MaxPass \in Int /\ pass.lasted <= MaxPass
      BY <1>1, <1>4, <2>1, CameraNats
    <3> HIDE DEF m, k
    <3> QED BY <3>1, <3>2, <3>3, <3>4, Zenon
  <2> HIDE DEF m, k
  <2>7. Accept(f[n], wire[n + 1]) \in Controls /\ Recent(Accept(f[n], wire[n + 1]))
        /\ Fits(Accept(f[n], wire[n + 1]), m)
    BY <1>4, <2>1, <2>2, <2>4, <2>5, <2>6, AcceptKeeps
  <2> QED BY <2>3, <2>7 DEF m
<1> HIDE DEF S
<1>7. Nat \subseteq S
  BY <1>5, <1>6, SetInduction
<1>8. k \in S
  BY <1>1, <1>7
<1> QED BY <1>1, <1>2, <1>8 DEF S

-----------------------------------------------------------------------------
(* The camera: one lemma per action *)

LEMMA CameraStarts == CameraInit => CameraInv
<1> SUFFICES ASSUME CameraInit PROVE CameraInv
  OBVIOUS
<1> USE CameraNats DEF CameraInit
<1>1. cam \in Controls
  BY DEF BootedControl, Controls, Commands
<1>2. esp \in [next : Nat, since : Nat] /\ wire \in Seq(Frames) /\ Len(wire) = 0
  BY DEF BootedEsp
<1>3. pass \in [alive : BOOLEAN, lasted : 0..MaxPass] /\ pass.alive /\ pass.lasted = 0
  OBVIOUS
<1>4. lamp \in [light : {"red", "yellow", "green", "off"}, age : Nat] /\ lamp = Dark
  BY DEF Dark
<1>5. Recent(cam)
  BY DEF Recent, BootedControl, Watch, Green
<1>6. Fits(cam, Len(wire))
  BY <1>2, OneMore DEF Fits, BootedControl
<1>7. Waiting /\ Backed
  BY <1>2, <1>3, <1>4, <1>5 DEF Waiting, Backed, Dark
<1> QED BY <1>1, <1>2, <1>3, <1>4, <1>6, <1>7 DEF CameraInv, CameraTypes

\* What is added to the receive buffer, also when it is full.
LEMMA FrameArrives ==
  ASSUME wire \in Seq(Frames), NEW f \in Frames
  PROVE  /\ OnWire(f) \in Seq(Frames)
         /\ Len(OnWire(f)) \in {Len(wire), Len(wire) + 1} /\ OnWire(f) # <<>>
         /\ \A i \in DOMAIN OnWire(f) :
              OnWire(f)[i] \in {f, Bad} \/ (i \in DOMAIN wire /\ OnWire(f)[i] = wire[i])
<1>1. CASE Len(wire) < WireSpace
  <2>1. OnWire(f) = Append(wire, f)
    BY <1>1 DEF OnWire
  <2>2. /\ Append(wire, f) \in Seq(Frames) /\ Len(Append(wire, f)) = Len(wire) + 1
        /\ Len(wire) \in Nat /\ DOMAIN wire = 1..Len(wire)
        /\ \A i \in 1..Len(wire) + 1 :
             Append(wire, f)[i] = IF i = Len(wire) + 1 THEN f ELSE wire[i]
    OBVIOUS
  <2> DEFINE w == Append(wire, f)
  <2>3. w \in Seq(Frames) /\ Len(w) = Len(wire) + 1 /\ DOMAIN w = 1..Len(wire) + 1
    BY <2>2
  <2>4. w # <<>>
    BY <2>2
  <2>5. \A i \in DOMAIN w : w[i] \in {f, Bad} \/ (i \in DOMAIN wire /\ w[i] = wire[i])
    <3> TAKE i \in DOMAIN w
    <3>1. i \in 1..Len(wire) + 1
      BY <2>3
    <3>2. w[i] = IF i = Len(wire) + 1 THEN f ELSE wire[i]
      BY <2>2, <3>1
    <3>3. i # Len(wire) + 1 => i \in DOMAIN wire
      BY <2>2, <3>1
    <3> HIDE DEF w
    <3> QED BY <3>2, <3>3
  <2> HIDE DEF w
  <2> QED BY <2>1, <2>3, <2>4, <2>5 DEF w
<1>2. CASE ~(Len(wire) < WireSpace)
  <2> DEFINE w == [wire EXCEPT ![WireSpace] = Bad]
  <2>1. /\ Bad \in Frames /\ Len(wire) \in Nat /\ Len(wire) # 0
        /\ DOMAIN wire = 1..Len(wire) /\ \A i \in 1..Len(wire) : wire[i] \in Frames
    BY <1>2, CameraAssumption DEF Frames
  <2>2. w = [i \in 1..Len(wire) |-> IF i = WireSpace THEN Bad ELSE wire[i]]
    BY <2>1
  <2>3. \A i \in 1..Len(wire) : w[i] \in Frames /\ w[i] \in {Bad, wire[i]}
    BY <2>1, <2>2
  <2> HIDE DEF w
  <2>4. w = [i \in 1..Len(wire) |-> w[i]]
    BY <2>2
  <2>5. w \in Seq(Frames)
    BY <2>1, <2>3, <2>4
  <2>6. DOMAIN w = 1..Len(wire) /\ Len(w) = Len(wire) /\ w # <<>>
    BY <2>1, <2>2, <2>5
  <2>7. OnWire(f) = w
    BY <1>2 DEF OnWire, w
  <2>8. \A i \in DOMAIN w : w[i] \in {f, Bad} \/ (i \in DOMAIN wire /\ w[i] = wire[i])
    <3> TAKE i \in DOMAIN w
    <3>1. i \in DOMAIN wire
      BY <2>1, <2>6
    <3>2. w[i] = Bad \/ w[i] = wire[i]
      BY <2>1, <2>3, <3>1
    <3> QED BY <3>1, <3>2
  <2> QED BY <2>5, <2>6, <2>7, <2>8
<1> QED BY <1>1, <1>2

\* A frame of this pass joins those that wait, Interval after the last of them.
LEMMA SentKeeps ==
  ASSUME CameraInv, NEW command \in Commands, ControlSent(command)
  PROVE  CameraInv'
<1> USE CameraNats
<1> DEFINE f == [bad |-> FALSE, seq |-> esp.next, age |-> 0, command |-> command]
           n == Len(wire)
<1>1. /\ esp \in [next : Nat, since : Nat] /\ wire \in Seq(Frames) /\ cam \in Controls
      /\ pass.lasted \in 0..MaxPass /\ n \in Nat
  BY DEF CameraInv, CameraTypes
<1>2. UNCHANGED <<cam, detector, result, shot, pass, lamp, restarts>> /\ esp.since >= Interval
  BY DEF ControlSent
<1>3. PICK g \in {f, Bad} : wire' = OnWire(g)
  BY DEF ControlSent
<1>4. g \in Frames /\ (~g.bad => g.age = 0)
  <2>1. f \in Frames
    BY <1>1 DEF Frames, Undamaged
  <2>2. CASE g = f
    BY <2>1, <2>2 DEF Frames
  <2>3. CASE g = Bad
    BY <2>3 DEF Frames, Bad
  <2> QED BY <2>2, <2>3
<1> HIDE DEF f
<1>5. esp' \in [next : Nat, since : Nat] /\ esp'.since = 0
  <2>1. (esp.next + 1) % SeqSpace \in Nat
    BY <1>1, CameraAssumption
  <2> QED BY <1>1, <2>1 DEF ControlSent
<1>6. wire' \in Seq(Frames) /\ Len(wire') \in {n, n + 1} /\ wire' # <<>>
  BY <1>1, <1>3, <1>4, FrameArrives
<1>7. Fits(cam, Len(wire))'
  <2>1. cam.deaf \in Nat /\ cam.heard \in Nat
    BY <1>1 DEF Controls
  <2>2. cam.heard <= Timeout => (cam.deaf + n) * Interval + esp.since <= cam.heard + MaxPass
    BY DEF CameraInv, Fits
  <2>3. (cam.deaf + (n + 1)) * Interval = (cam.deaf + n) * Interval + Interval
        /\ (cam.deaf + n) * Interval \in Nat
    BY <1>1, <2>1, OneMore
  <2>4. cam.heard <= Timeout => (cam.deaf + Len(wire')) * Interval + 0 <= cam.heard + MaxPass
    <3> DEFINE p == (cam.deaf + n) * Interval
    <3>1. p \in Nat /\ (cam.deaf + (n + 1)) * Interval = p + Interval
      BY <2>3
    <3>2. cam.heard <= Timeout => p + esp.since <= cam.heard + MaxPass
      BY <2>2
    <3>3. (cam.deaf + Len(wire')) * Interval \in {p, p + Interval}
      BY <1>6, <3>1
    <3> DEFINE q == (cam.deaf + Len(wire')) * Interval
    <3>4. q \in {p, p + Interval} /\ esp.since \in Nat /\ esp.since >= Interval
      BY <1>1, <1>2, <3>3
    <3> HIDE DEF p, q
    <3>5. cam.heard <= Timeout => q + 0 <= cam.heard + MaxPass
      BY <2>1, <3>1, <3>2, <3>4
    <3> QED BY <3>5 DEF q
  <2> QED BY <1>2, <1>5, <2>4 DEF CameraInv, Fits
<1>8. Waiting'
  <2>1. SUFFICES ASSUME pass.alive
                 PROVE  /\ \A i \in DOMAIN wire' : ~wire'[i].bad => wire'[i].age <= pass.lasted
                        /\ (Len(wire') - 1) * Interval + 0 <= pass.lasted
    BY <1>2, <1>5 DEF Waiting
  <2>2. ASSUME NEW i \in DOMAIN wire', ~wire'[i].bad PROVE wire'[i].age <= pass.lasted
    <3>1. wire'[i] = g \/ wire'[i] = Bad \/ (i \in DOMAIN wire /\ wire'[i] = wire[i])
      BY <1>1, <1>3, <1>4, FrameArrives
    <3>2. CASE wire'[i] = g
      BY <1>1, <1>4, <2>2, <3>2
    <3>3. CASE wire'[i] = Bad
      BY <2>2, <3>3 DEF Bad
    <3>4. CASE i \in DOMAIN wire /\ wire'[i] = wire[i]
      BY <2>1, <2>2, <3>4 DEF CameraInv, Waiting
    <3> QED BY <3>1, <3>2, <3>3, <3>4
  <2>3. (Len(wire') - 1) * Interval + 0 <= pass.lasted
    <3>1. CASE n = 0
      <4>1. Len(wire') = 1
        <5>1. Len(wire') # 0
          BY <1>6
        <5> QED BY <1>6, <3>1, <5>1
      <4>2. (1 - 1) * Interval = 0
        OBVIOUS
      <4> QED BY <1>1, <4>1, <4>2
    <3>2. CASE n # 0
      <4>1. (n - 1) * Interval + esp.since <= pass.lasted
        BY <1>1, <2>1, <3>2 DEF CameraInv, Waiting
      <4>2. n * Interval = (n - 1) * Interval + Interval /\ (n - 1) * Interval \in Nat
        <5>1. n - 1 \in Nat /\ (n - 1) + 1 = n
          BY <1>1, <3>2
        <5>2. (0 + ((n - 1) + 1)) * Interval = (0 + (n - 1)) * Interval + Interval
          BY <5>1, OneMore
        <5> QED BY <5>1, <5>2
      <4> DEFINE p == (n - 1) * Interval
      <4>3. p + esp.since <= pass.lasted /\ p \in Nat
        BY <4>1, <4>2
      <4>4. (Len(wire') - 1) * Interval \in {p, p + Interval}
        <5>1. Len(wire') - 1 \in {n - 1, n}
          BY <1>1, <1>6
        <5> QED BY <4>2, <5>1
      <4> HIDE DEF p
      <4> QED BY <1>1, <1>2, <4>3, <4>4
    <3> QED BY <3>1, <3>2
  <2> QED BY <2>2, <2>3
<1>9. Backed'
  BY <1>2 DEF CameraInv, Backed, Recent
<1> QED BY <1>2, <1>5, <1>6, <1>7, <1>8, <1>9 DEF CameraInv, CameraTypes

\* The last frame was sent less long ago, as the ESP32 counts, than it was.
LEMMA SinceKeeps ==
  ASSUME CameraInv, esp' \in [next : Nat, since : Nat], esp'.since <= esp.since,
         UNCHANGED <<wire, cam, pass, lamp>>
  PROVE  CameraInv'
<1> USE CameraNats
<1>1. /\ esp.since \in Nat /\ esp'.since \in Nat /\ Len(wire) \in Nat
      /\ pass.lasted \in Nat /\ cam.heard \in Nat /\ cam.deaf \in Nat
  BY DEF CameraInv, CameraTypes, Controls
<1>2. (cam.deaf + Len(wire)) * Interval \in Int /\ (Len(wire) - 1) * Interval \in Int
  BY <1>1
<1> DEFINE p == (cam.deaf + Len(wire)) * Interval
           q == (Len(wire) - 1) * Interval
<1>3. Fits(cam, Len(wire))'
  <2>1. cam.heard <= Timeout => p + esp.since <= cam.heard + MaxPass
    BY DEF CameraInv, Fits
  <2>2. p \in Int
    BY <1>2
  <2>3. cam.deaf * Interval <= Timeout + MaxPass
    BY DEF CameraInv, Fits
  <2> HIDE DEF p
  <2>4. cam.heard <= Timeout => p + esp'.since <= cam.heard + MaxPass
    BY <1>1, <2>1, <2>2
  <2> QED BY <2>3, <2>4 DEF Fits, p
<1>4. Waiting'
  <2>1. pass.alive /\ wire # <<>> => q + esp.since <= pass.lasted
    BY DEF CameraInv, Waiting
  <2>2. q \in Int
    BY <1>2
  <2> HIDE DEF q
  <2>3. pass.alive /\ wire # <<>> => q + esp'.since <= pass.lasted
    BY <1>1, <2>1, <2>2
  <2> QED BY <2>3 DEF CameraInv, Waiting, q
<1>5. Backed'
  BY DEF CameraInv, Backed, Recent
<1> QED BY <1>3, <1>4, <1>5 DEF CameraInv, CameraTypes

LEMMA CutOffKeeps == ASSUME CameraInv, ControlCutOff PROVE CameraInv'
BY SinceKeeps DEF ControlCutOff, CameraInv, CameraTypes

LEMMA EspRestartKeeps == ASSUME CameraInv, EspRestart PROVE CameraInv'
BY SinceKeeps DEF EspRestart, BootedEsp, CameraInv, CameraTypes

\* A unit of time for an age, and for how long ago the camera heard a command.
LEMMA AgedBounds ==
  ASSUME NEW a \in Nat
  PROVE  Aged(a) \in Nat /\ Aged(a) <= a + 1
BY CameraNats DEF Aged, AtMost

LEMMA HeardBounds ==
  ASSUME NEW h \in 0..Timeout + 1
  PROVE  /\ AtMost(h + 1, Timeout + 1) \in 0..Timeout + 1
         /\ AtMost(h + 1, Timeout + 1) <= Timeout =>
              h <= Timeout /\ AtMost(h + 1, Timeout + 1) = h + 1
         /\ h > Timeout => AtMost(h + 1, Timeout + 1) > Timeout
BY CameraNats DEF AtMost

\* Time passes for the frames that wait.
LEMMA FrameAges ==
  ASSUME NEW f \in Frames
  PROVE  /\ f.bad => Bad \in Frames
         /\ ~f.bad => /\ [f EXCEPT !.age = Aged(f.age)] \in Frames
                      /\ [f EXCEPT !.age = Aged(f.age)].age <= f.age + 1
                      /\ ~[f EXCEPT !.age = Aged(f.age)].bad
<1>1. Bad \in Frames
  BY DEF Frames
<1>2. CASE ~f.bad
  <2>1. f \in Undamaged /\ f.age \in Nat
    BY <1>2, UndamagedFrame
  <2>2. Aged(f.age) \in Nat /\ Aged(f.age) <= f.age + 1
    BY <2>1, CameraNats DEF Aged, AtMost
  <2> DEFINE a == Aged(f.age)
  <2>3. a \in Nat /\ a <= f.age + 1
    BY <2>2
  <2> HIDE DEF a
  <2>4. [f EXCEPT !.age = a] \in Undamaged /\ [f EXCEPT !.age = a].age = a
    BY <2>1, <2>3 DEF Undamaged
  <2>5. ~[f EXCEPT !.age = a].bad
    BY <1>2, <2>1 DEF Undamaged
  <2> QED BY <1>2, <2>3, <2>4, <2>5 DEF a, Frames
<1> QED BY <1>1, <1>2

\* A unit of time is one more for what waits, for what the camera trusts, for the
\* light and for the ESP32.
LEMMA WaitKeepsCamera == ASSUME CameraInv, Wait PROVE CameraInv'
<1> USE CameraNats
<1>1. /\ esp.since \in Nat /\ esp.next \in Nat /\ wire \in Seq(Frames) /\ Len(wire) \in Nat
      /\ pass.lasted \in 0..MaxPass /\ cam.heard \in 0..Timeout + 1 /\ cam.deaf \in Nat
      /\ cam.age \in Nat /\ lamp.age \in Nat
  BY DEF CameraInv, CameraTypes, Controls
<1>2. esp' \in [next : Nat, since : Nat] /\ esp'.since = esp.since + 1
  <2>1. esp' = [esp EXCEPT !.since = esp.since + 1]
    BY DEF Wait
  <2>2. esp \in [next : Nat, since : Nat]
    BY DEF CameraInv, CameraTypes
  <2> DEFINE later == esp.since + 1
  <2>3. later \in Nat
    BY <1>1
  <2> HIDE DEF later
  <2>4. esp' \in [next : Nat, since : Nat] /\ esp'.since = later
    BY <2>1, <2>2, <2>3 DEF later
  <2> QED BY <2>4 DEF later
<1>3. /\ wire' \in Seq(Frames) /\ Len(wire') = Len(wire) /\ (wire' = <<>> => wire = <<>>)
      /\ \A i \in DOMAIN wire' :
           /\ i \in DOMAIN wire
           /\ ~wire'[i].bad => ~wire[i].bad /\ wire[i].age \in Nat /\ wire'[i].age <= wire[i].age + 1
  <2> DEFINE w == [i \in DOMAIN wire |-> IF wire[i].bad THEN Bad
                                         ELSE [wire[i] EXCEPT !.age = Aged(wire[i].age)]]
  <2>1. wire' = w
    BY DEF Wait
  <2>2. DOMAIN wire = 1..Len(wire) /\ \A i \in 1..Len(wire) : wire[i] \in Frames
    BY <1>1
  <2>3. ASSUME NEW i \in 1..Len(wire)
        PROVE  w[i] \in Frames
               /\ (~w[i].bad => ~wire[i].bad /\ wire[i].age \in Nat /\ w[i].age <= wire[i].age + 1)
    <3>1. CASE wire[i].bad
      BY <2>2, <3>1, FrameAges DEF Bad
    <3>2. CASE ~wire[i].bad
      <4>1. wire[i].age \in Nat
        BY <2>2, <3>2, UndamagedFrame
      <4>2. w[i] = [wire[i] EXCEPT !.age = Aged(wire[i].age)]
        BY <2>2, <3>2
      <4> HIDE DEF w
      <4> QED BY <2>2, <3>2, <4>1, <4>2, FrameAges
    <3> QED BY <3>1, <3>2
  <2>4. w = [i \in 1..Len(wire) |-> w[i]]
    BY <2>2
  <2> HIDE DEF w
  <2>5. w \in Seq(Frames) /\ DOMAIN w = 1..Len(wire) /\ Len(w) = Len(wire)
    BY <1>1, <2>3, <2>4
  <2>6. w = <<>> => wire = <<>>
    BY <1>1, <2>5
  <2> QED BY <2>1, <2>2, <2>3, <2>5, <2>6
<1>4. pass' \in [alive : BOOLEAN, lasted : 0..MaxPass]
  <2>1. pass' = pass \/ pass' = [pass EXCEPT !.lasted = pass.lasted + 1]
    BY DEF Wait
  <2>2. pass.lasted + 1 \in 0..MaxPass
    <3>1. pass.lasted < MaxPass
      BY DEF Wait
    <3> QED BY <1>1, <3>1
  <2> QED BY <2>1, <2>2 DEF CameraInv, CameraTypes
<1>5. /\ pass.alive <=> pass'.alive
      /\ pass.alive => pass'.lasted = pass.lasted + 1
      /\ ~pass.alive => pass'.lasted = pass.lasted
  BY DEF Wait, CameraInv, CameraTypes
<1>6. /\ cam' \in Controls /\ cam'.deaf = cam.deaf /\ cam'.command = cam.command
      /\ cam'.heard = AtMost(cam.heard + 1, Timeout + 1)
      /\ cam'.age = IF cam.command = Green THEN Aged(cam.age) ELSE 0
  <2> DEFINE heard == AtMost(cam.heard + 1, Timeout + 1)
             age == IF cam.command = Green THEN Aged(cam.age) ELSE 0
  <2>1. cam' = [cam EXCEPT !.heard = heard, !.age = age]
    BY DEF Wait
  <2>2. heard \in 0..Timeout + 1 /\ age \in Nat
    BY <1>1, AgedBounds, HeardBounds
  <2> HIDE DEF heard, age
  <2>3. cam \in Controls
    BY DEF CameraInv, CameraTypes
  <2>4. /\ cam' \in Controls /\ cam'.deaf = cam.deaf /\ cam'.command = cam.command
        /\ cam'.heard = heard /\ cam'.age = age
    BY <2>1, <2>2, <2>3 DEF Controls
  <2> QED BY <2>4 DEF heard, age
<1>7. /\ lamp' \in [light : {"red", "yellow", "green", "off"}, age : Nat]
      /\ lamp'.light = lamp.light
      /\ lamp'.age = IF lamp.light = "green" THEN Aged(lamp.age) ELSE 0
  <2>1. Aged(lamp.age) \in Nat
    BY <1>1 DEF AtMost, Aged
  <2> QED BY <2>1 DEF Wait, CameraInv, CameraTypes
<1>8. Recent(cam)'
  <2>1. Recent(cam) /\ Aged(cam.age) \in Nat /\ Aged(cam.age) <= cam.age + 1
    BY <1>1, AgedBounds DEF CameraInv, Backed
  <2>2. cam'.heard <= Timeout => cam.heard <= Timeout /\ cam'.heard = cam.heard + 1
    BY <1>1, <1>6, HeardBounds
  <2>3. cam.heard <= Timeout /\ cam.command = Green => cam.age + 1 <= (cam.heard + 1) + MaxPass
    BY <1>1, <2>1 DEF Recent
  <2>4. ASSUME cam'.heard <= Timeout, cam.command = Green PROVE cam'.age <= cam'.heard + MaxPass
    <3>1. cam'.age = Aged(cam.age) /\ cam'.heard = cam.heard + 1
      BY <1>6, <2>2, <2>4
    <3>2. cam.age + 1 <= (cam.heard + 1) + MaxPass
      BY <2>2, <2>3, <2>4
    <3> QED BY <1>1, <2>1, <3>1, <3>2
  <2> QED BY <1>6, <2>4 DEF Recent
<1>9. Fits(cam, Len(wire))'
  <2> DEFINE p == (cam.deaf + Len(wire)) * Interval
  <2>1. p \in Int
    BY <1>1
  <2>2. cam.heard <= Timeout => p + esp.since <= cam.heard + MaxPass
    BY DEF CameraInv, Fits
  <2>3. cam.deaf * Interval <= Timeout + MaxPass
    BY DEF CameraInv, Fits
  <2> HIDE DEF p
  <2>4. cam'.heard <= Timeout => p + esp'.since <= cam'.heard + MaxPass
    <3>1. cam'.heard <= Timeout => cam.heard <= Timeout /\ cam'.heard = cam.heard + 1
      BY <1>1, <1>6, HeardBounds
    <3>2. ASSUME cam.heard <= Timeout PROVE p + (esp.since + 1) <= (cam.heard + 1) + MaxPass
      BY <1>1, <2>1, <2>2, <3>2
    <3> QED BY <1>2, <3>1, <3>2
  <2> QED BY <1>3, <1>6, <2>3, <2>4 DEF Fits, p
<1>10. Waiting'
  <2> SUFFICES ASSUME pass.alive
               PROVE  /\ \A i \in DOMAIN wire' : ~wire'[i].bad => wire'[i].age <= pass.lasted + 1
                      /\ wire # <<>> => (Len(wire) - 1) * Interval + (esp.since + 1) <= pass.lasted + 1
    BY <1>2, <1>3, <1>5 DEF Waiting
  <2>1. ASSUME NEW i \in DOMAIN wire', ~wire'[i].bad PROVE wire'[i].age <= pass.lasted + 1
    <3>1. i \in DOMAIN wire /\ ~wire[i].bad /\ wire[i].age \in Nat /\ wire'[i].age <= wire[i].age + 1
      BY <1>3, <2>1
    <3>2. wire[i].age <= pass.lasted
      BY <3>1 DEF CameraInv, Waiting
    <3>3. wire'[i].age \in Nat
      BY <1>3, <2>1, UndamagedFrame
    <3> QED BY <1>1, <3>1, <3>2, <3>3
  <2>2. ASSUME wire # <<>>
        PROVE  (Len(wire) - 1) * Interval + (esp.since + 1) <= pass.lasted + 1
    <3> DEFINE p == (Len(wire) - 1) * Interval
    <3>1. p + esp.since <= pass.lasted
      BY <2>2 DEF CameraInv, Waiting
    <3>2. p \in Int
      BY <1>1
    <3> HIDE DEF p
    <3>3. p + (esp.since + 1) <= pass.lasted + 1
      BY <1>1, <3>1, <3>2
    <3> QED BY <3>3 DEF p
  <2> QED BY <2>1, <2>2
<1>11. Backed'
  <2>1. lamp'.age <= Timeout + MaxPass + pass'.lasted
    <3>1. lamp.age <= Timeout + MaxPass + pass.lasted /\ (~pass.alive => lamp.light = "off")
      BY DEF CameraInv, Backed
    <3>2. Aged(lamp.age) \in Nat /\ Aged(lamp.age) <= lamp.age + 1
      BY <1>1, AgedBounds
    <3>3. CASE lamp.light = "green"
      <4>1. pass'.lasted = pass.lasted + 1 /\ lamp'.age = Aged(lamp.age)
        BY <1>5, <1>7, <3>1, <3>3
      <4> QED BY <1>1, <3>1, <3>2, <4>1
    <3>4. CASE lamp.light # "green"
      <4>1. lamp'.age = 0 /\ pass'.lasted \in Nat
        BY <1>1, <1>5, <1>7, <3>4
      <4> QED BY <4>1
    <3> QED BY <3>3, <3>4
  <2>2. lamp'.light # "green" => lamp'.age = 0
    BY <1>7
  <2>3. ~pass'.alive => lamp'.light = "off" /\ cam'.heard > Timeout /\ pass'.lasted = 0
    <3>1. ~pass.alive => lamp.light = "off" /\ cam.heard > Timeout /\ pass.lasted = 0
      BY DEF CameraInv, Backed
    <3>2. cam.heard > Timeout => AtMost(cam.heard + 1, Timeout + 1) > Timeout
      BY <1>1 DEF AtMost
    <3> QED BY <1>5, <1>6, <1>7, <3>1, <3>2
  <2> QED BY <1>8, <2>1, <2>2, <2>3 DEF Backed
<1> QED BY <1>2, <1>3, <1>4, <1>6, <1>7, <1>9, <1>10, <1>11 DEF CameraInv, CameraTypes

\* The light follows a command the camera trusts, and what waited is heard.
LEMMA PassKeeps == ASSUME CameraInv, NextPass PROVE CameraInv'
<1> USE CameraNats
<1>1. /\ pass.alive /\ UNCHANGED esp /\ cam' = Heard /\ wire' = <<>>
      /\ pass' = [pass EXCEPT !.lasted = 0]
      /\ lamp' = [light |-> StatusLight(cam, result'.person),
                  age |-> IF StatusLight(cam, result'.person) = "green" THEN cam.age ELSE 0]
  BY DEF NextPass
<1>2. cam' \in Controls /\ Recent(cam') /\ Fits(cam', 0)
  BY <1>1, HeardKeeps DEF CameraInv, Backed
<1>3. pass' \in [alive : BOOLEAN, lasted : 0..MaxPass] /\ pass'.alive /\ pass'.lasted = 0
  <2>1. pass \in [alive : BOOLEAN, lasted : 0..MaxPass] /\ 0 \in 0..MaxPass
    BY DEF CameraInv, CameraTypes
  <2>2. pass' \in [alive : BOOLEAN, lasted : 0..MaxPass]
    BY <1>1, <2>1
  <2> QED BY <1>1, <2>1, <2>2
<1>4. StatusLight(cam, result'.person) \in {"red", "yellow", "green", "off"}
  BY DEF StatusLight
<1>5. StatusLight(cam, result'.person) = "green" => cam.heard <= Timeout /\ cam.command = Green
  BY DEF StatusLight, TrustedSafe, Trusts, IsFresh
<1>6. cam.age \in Nat /\ cam.heard \in Nat
  BY DEF CameraInv, CameraTypes, Controls
<1>7. lamp' \in [light : {"red", "yellow", "green", "off"}, age : Nat]
  BY <1>1, <1>4, <1>6
<1>8. lamp'.age <= Timeout + MaxPass /\ (lamp'.light # "green" => lamp'.age = 0)
  <2>1. CASE StatusLight(cam, result'.person) = "green"
    BY <1>1, <1>5, <1>6, <2>1 DEF CameraInv, Backed, Recent
  <2>2. CASE StatusLight(cam, result'.person) # "green"
    BY <1>1, <2>2
  <2> QED BY <2>1, <2>2
<1>9. Waiting' /\ Backed'
  BY <1>1, <1>2, <1>3, <1>8 DEF Waiting, Backed, Recent
<1>10. Fits(cam, Len(wire))'
  BY <1>1, <1>2 DEF Fits
<1> QED BY <1>1, <1>2, <1>3, <1>7, <1>9, <1>10 DEF CameraInv, CameraTypes

\* A camera that stops holds nothing and shows nothing.
LEMMA FatalKeeps == ASSUME CameraInv, Fatal PROVE CameraInv'
<1> USE CameraNats DEF Fatal
<1>1. cam' \in Controls /\ cam'.heard = Timeout + 1 /\ cam'.deaf = 0
  BY DEF BootedControl, Controls, Commands
<1>2. wire' \in Seq(Frames) /\ Len(wire') = 0 /\ UNCHANGED esp
  OBVIOUS
<1>3. pass' \in [alive : BOOLEAN, lasted : 0..MaxPass] /\ ~pass'.alive /\ pass'.lasted = 0
  <2>1. pass' = [alive |-> FALSE, lasted |-> 0] /\ 0 \in 0..MaxPass
    OBVIOUS
  <2>2. [alive |-> FALSE, lasted |-> 0] \in [alive : BOOLEAN, lasted : 0..MaxPass]
    BY <2>1
  <2> QED BY <2>1, <2>2
<1>4. lamp' \in [light : {"red", "yellow", "green", "off"}, age : Nat] /\ lamp' = Dark
  BY DEF Dark
<1>5. 0 * Interval = 0
  BY OneMore
<1>6. Fits(cam, Len(wire))'
  BY <1>1, <1>2, <1>5 DEF Fits
<1>7. Waiting' /\ Backed'
  BY <1>1, <1>3, <1>4 DEF Waiting, Backed, Recent, Dark
<1> QED BY <1>1, <1>2, <1>3, <1>4, <1>6, <1>7 DEF CameraInv, CameraTypes

LEMMA CameraRestartKeeps == ASSUME CameraInv, CameraRestart PROVE CameraInv'
<1> USE CameraNats DEF CameraRestart
<1>1. wire' \in Seq(Frames) /\ Len(wire') = 0 /\ wire' = <<>> /\ UNCHANGED <<esp, cam, lamp>>
  OBVIOUS
<1>2. pass' \in [alive : BOOLEAN, lasted : 0..MaxPass] /\ pass'.alive /\ pass'.lasted = 0
  <2>1. pass' = [alive |-> TRUE, lasted |-> 0] /\ 0 \in 0..MaxPass
    OBVIOUS
  <2>2. [alive |-> TRUE, lasted |-> 0] \in [alive : BOOLEAN, lasted : 0..MaxPass]
    BY <2>1
  <2> QED BY <2>1, <2>2
<1>3. lamp.light = "off" /\ cam.heard > Timeout /\ pass.lasted = 0
  BY DEF CameraInv, Backed
<1>4. cam.deaf * Interval <= Timeout + MaxPass /\ cam.heard \in Nat
  BY DEF CameraInv, Fits, CameraTypes, Controls
<1>5. Fits(cam, Len(wire))'
  BY <1>1, <1>3, <1>4 DEF Fits
<1>6. Waiting' /\ Backed'
  BY <1>1, <1>2, <1>3 DEF Waiting, CameraInv, Backed, Recent
<1> QED BY <1>1, <1>2, <1>5, <1>6 DEF CameraInv, CameraTypes

LEMMA CameraStep == CameraInv /\ [CameraNext]_cameraVars => CameraInv'
<1> SUFFICES ASSUME CameraInv, [CameraNext]_cameraVars PROVE CameraInv'
  OBVIOUS
<1>1. CASE UNCHANGED cameraVars
  BY <1>1 DEF cameraVars, CameraInv, CameraTypes, Waiting, Backed, Recent, Fits
<1>2. ASSUME NEW command \in {Watch, Alert, Green}, ControlSent(command) PROVE CameraInv'
  BY <1>2, SentKeeps DEF Commands
<1> QED BY <1>1, <1>2, WaitKeepsCamera, CutOffKeeps, EspRestartKeeps, PassKeeps, FatalKeeps,
           CameraRestartKeeps DEF CameraNext

THEOREM CameraInvariance == CameraSpec => []CameraInv
BY CameraStarts, CameraStep, PTL DEF CameraSpec

\* While the camera shows green, the ESP32 authorized it at most the timeout and
\* two passes ago: for every timing, any damage and any restart of either board.
THEOREM GreenLampIsBacked == CameraSpec => []LampIsBacked
<1>1. CameraInv => LampIsBacked
  <2> SUFFICES ASSUME CameraInv PROVE LampIsBacked
    OBVIOUS
  <2>1. lamp.age \in Nat /\ pass.lasted \in 0..MaxPass /\ lamp.age <= Timeout + MaxPass + pass.lasted
    BY DEF CameraInv, CameraTypes, Backed
  <2> QED BY <2>1, CameraNats DEF LampIsBacked
<1> QED BY <1>1, CameraInvariance, PTL

\* Where a pass of the camera is no longer than the interval of the control
\* frames, a restarted ESP32 is refused only for the timeout as well.
THEOREM CommandsStayCurrent ==
  ASSUME MaxPass <= Interval
  PROVE  CameraSpec => []CommandsAreCurrent
<1>1. CameraInv => RestartIsHeard
  <2> SUFFICES ASSUME CameraInv PROVE RestartIsHeard
    OBVIOUS
  <2> DEFINE q == Timeout \div Interval
  <2>1. cam.deaf \in Nat /\ cam.deaf * Interval <= Timeout + MaxPass
    BY DEF CameraInv, CameraTypes, Controls, Fits
  <2>2. q \in Nat /\ Timeout < (q + 1) * Interval /\ Interval \in Nat \ {0} /\ Timeout \in Nat
    BY CameraAssumption
  <2> HIDE DEF q
  <2>3. cam.deaf * Interval < (q + 2) * Interval
    <3>1. (q + 2) * Interval = (q + 1) * Interval + Interval
      BY <2>2
    <3> QED BY <2>1, <2>2, <3>1, CameraNats
  <2>4. ASSUME cam.deaf >= q + 2 PROVE FALSE
    <3>1. cam.deaf * Interval >= (q + 2) * Interval
      BY <2>1, <2>2, <2>4
    <3> QED BY <2>1, <2>2, <2>3, <3>1
  <2>5. cam.deaf <= q + 1
    BY <2>1, <2>2, <2>4
  <2> QED BY <2>5 DEF RestartIsHeard, q
<1> QED BY <1>1, CameraInvariance, GreenLampIsBacked, PTL DEF CommandsAreCurrent

-----------------------------------------------------------------------------
(* The camera: what it tells was really seen lately *)

\* A pass that takes no picture began with one taken less than Baseline ago; the
\* picture of a pass is no older than the pass.
Pictured ==
  /\ result = [taken |-> result.taken, person |-> result.person, age |-> result.age]
  /\ result.age \in Nat /\ shot \in Nat \cup {Nothing}
  /\ pass.alive => IF shot = Nothing THEN result.taken /\ result.age < Baseline + pass.lasted
                   ELSE shot <= pass.lasted

LEMMA PictureStarts == CameraInit => Pictured
BY CameraAssumption DEF CameraInit, NoResult, Pictured

\* What a pass tells, and what the next one begins with.
LEMMA PassPictures ==
  ASSUME CameraInv, Pictured, NextPass
  PROVE  Pictured' /\ result'.age < Baseline + MaxPass
<1> USE CameraNats
<1>1. pass.alive /\ pass.lasted \in 0..MaxPass
  BY DEF NextPass, CameraInv, CameraTypes
<1>2. /\ result' = [taken |-> result'.taken, person |-> result'.person, age |-> result'.age]
      /\ result'.age \in Nat /\ result'.age < Baseline + MaxPass
  <2>1. Evaluated
    BY DEF NextPass
  <2>2. CASE shot = Nothing
    <3>1. result' = result
      BY <2>1, <2>2 DEF Evaluated
    <3>2. result.age < Baseline + pass.lasted /\ result.age \in Nat
      BY <1>1, <2>2 DEF Pictured
    <3>3. result.age < Baseline + MaxPass
      BY <1>1, <3>2
    <3> QED BY <3>1, <3>2, <3>3 DEF Pictured
  <2>3. CASE shot # Nothing
    <3>1. PICK person : result' = [taken |-> TRUE, person |-> person, age |-> shot]
      BY <2>1, <2>3 DEF Evaluated
    <3>2. shot \in Nat /\ shot <= pass.lasted
      BY <1>1, <2>3 DEF Pictured
    <3> QED BY <1>1, <3>1, <3>2
  <2> QED BY <2>2, <2>3
<1>3. pass' = [pass EXCEPT !.lasted = 0] /\ shot' = IF DetectionDue(cam', result') THEN 0 ELSE Nothing
  BY DEF NextPass
<1>4. pass'.lasted = 0
  BY <1>3 DEF CameraInv, CameraTypes
<1>5. 0 # Nothing
  BY CameraAssumption
<1>6. CASE DetectionDue(cam', result')
  BY <1>2, <1>3, <1>4, <1>5, <1>6 DEF Pictured
<1>7. CASE ~DetectionDue(cam', result')
  <2>1. result'.taken /\ result'.age < Baseline
    BY <1>2, <1>7 DEF DetectionDue
  <2> QED BY <1>2, <1>3, <1>4, <1>7, <2>1 DEF Pictured
<1> QED BY <1>2, <1>6, <1>7

\* A unit of time for the result and for the picture.
LEMMA WaitPictures == ASSUME CameraInv, Pictured, Wait PROVE Pictured'
<1> USE CameraNats
<1>1. /\ pass' = IF ~pass.alive THEN pass ELSE [pass EXCEPT !.lasted = pass.lasted + 1]
      /\ result' = [result EXCEPT !.age = IF result.taken THEN AtMost(result.age + 1, Baseline + MaxPass)
                                          ELSE 0]
      /\ shot' = IF shot = Nothing THEN Nothing ELSE Aged(shot)
  BY DEF Wait
<1>2. pass.alive => pass'.lasted = pass.lasted + 1 /\ pass.lasted \in Nat
  BY <1>1 DEF CameraInv, CameraTypes
<1>3. pass'.alive => pass.alive
  BY <1>1
<1> DEFINE age == IF result.taken THEN AtMost(result.age + 1, Baseline + MaxPass) ELSE 0
<1>4. age \in Nat /\ age <= result.age + 1
  BY DEF Pictured, AtMost
<1> HIDE DEF age
<1>5. result' = [taken |-> result.taken, person |-> result.person, age |-> age]
  <2>1. result' = [result EXCEPT !.age = age]
    BY <1>1 DEF age
  <2>2. result = [taken |-> result.taken, person |-> result.person, age |-> result.age]
    BY DEF Pictured
  <2> DEFINE t == result.taken
             q == result.person
             a == result.age
  <2>3. result = [taken |-> t, person |-> q, age |-> a]
    BY <2>2
  <2> HIDE DEF t, q, a
  <2>4. result' = [taken |-> t, person |-> q, age |-> age]
    BY <2>1, <2>3
  <2> QED BY <2>4 DEF t, q
<1>6. shot' \in Nat \cup {Nothing} /\ (shot' = Nothing <=> shot = Nothing)
      /\ (shot # Nothing => shot \in Nat /\ shot' \in Nat /\ shot' <= shot + 1)
  <2>1. CASE shot = Nothing
    BY <1>1, <2>1
  <2>2. CASE shot # Nothing
    <3>1. shot \in Nat
      BY <2>2 DEF Pictured
    <3>2. Aged(shot) \in Nat /\ Aged(shot) <= shot + 1
      BY <3>1, AgedBounds
    <3> QED BY <1>1, <2>2, <3>1, <3>2, CameraAssumption
  <2> QED BY <2>1, <2>2
<1>7. pass'.alive => IF shot' = Nothing THEN result'.taken /\ result'.age < Baseline + pass'.lasted
                     ELSE shot' <= pass'.lasted
  <2> SUFFICES ASSUME pass'.alive
               PROVE  IF shot' = Nothing THEN result'.taken /\ result'.age < Baseline + pass'.lasted
                      ELSE shot' <= pass'.lasted
    OBVIOUS
  <2>1. CASE shot = Nothing
    <3>1. result.taken /\ result.age < Baseline + pass.lasted /\ result.age \in Nat
      BY <1>3, <2>1 DEF Pictured
    <3>2. age < Baseline + pass'.lasted
      BY <1>2, <1>3, <1>4, <3>1
    <3> QED BY <1>5, <1>6, <2>1, <3>1, <3>2
  <2>2. CASE shot # Nothing
    <3>1. shot <= pass.lasted
      BY <1>3, <2>2 DEF Pictured
    <3> QED BY <1>2, <1>3, <1>6, <2>2, <3>1
  <2> QED BY <2>1, <2>2
<1>8. result' = [taken |-> result'.taken, person |-> result'.person, age |-> result'.age] /\ result'.age \in Nat
  BY <1>4, <1>5
<1> QED BY <1>6, <1>7, <1>8 DEF Pictured

LEMMA PictureStep ==
  CameraInv /\ Pictured /\ [CameraNext]_cameraVars =>
    Pictured' /\ (NextPass => result'.age < Baseline + MaxPass)
<1> SUFFICES ASSUME CameraInv, Pictured, [CameraNext]_cameraVars
             PROVE  Pictured' /\ (NextPass => result'.age < Baseline + MaxPass)
  OBVIOUS
<1>1. NextPass => Pictured' /\ result'.age < Baseline + MaxPass
  BY PassPictures
<1>2. ASSUME Wait PROVE Pictured'
  BY <1>2, WaitPictures
<1>3. ASSUME UNCHANGED <<result, shot, pass>> PROVE Pictured'
  BY <1>3 DEF Pictured
<1>4. ASSUME Fatal PROVE Pictured'
  <2>1. result' = NoResult /\ shot' = Nothing /\ pass' = [alive |-> FALSE, lasted |-> 0]
    BY <1>4 DEF Fatal
  <2> QED BY <2>1 DEF Pictured, NoResult
<1>5. ASSUME CameraRestart PROVE Pictured'
  <2>1. shot' = 0 /\ pass' = [alive |-> TRUE, lasted |-> 0] /\ UNCHANGED result
    BY <1>5 DEF CameraRestart
  <2> QED BY <2>1, CameraAssumption DEF Pictured
<1>6. ASSUME UNCHANGED cameraVars PROVE Pictured'
  BY <1>3, <1>6 DEF cameraVars
<1>7. ASSUME NEW command \in {Watch, Alert, Green}, ControlSent(command)
      PROVE  UNCHANGED <<result, shot, pass>>
  BY <1>7 DEF ControlSent
<1>8. ControlCutOff \/ EspRestart => UNCHANGED <<result, shot, pass>>
  BY DEF ControlCutOff, EspRestart
<1>9. Pictured'
  BY <1>1, <1>2, <1>3, <1>4, <1>5, <1>6, <1>7, <1>8 DEF CameraNext
<1> QED BY <1>1, <1>9

\* What the camera tells was seen less than the interval of the baseline and one
\* pass ago, also when it repeats an old result.
THEOREM PicturesAreRecent == CameraSpec => PictureIsRecent
<1>1. CameraInit => Pictured
  BY PictureStarts
<1>2. CameraSpec => []Pictured
  BY <1>1, CameraInvariance, PictureStep, PTL DEF CameraSpec
<1>3. CameraInv /\ Pictured /\ [CameraNext]_cameraVars
        => [result'.age < Baseline + MaxPass \/ ~NextPass]_cameraVars
  BY PictureStep
<1> QED BY <1>2, <1>3, CameraInvariance, PTL DEF CameraSpec, PictureIsRecent

-----------------------------------------------------------------------------
(* The sensing loop *)

\* Modulo leaves what is below the modulus.
LEMMA SmallMod == ASSUME NEW n \in Nat, n > 0, NEW x \in 0 .. n - 1 PROVE x % n = x
  BY SMT

\* What is assumed of the constants, one by one.
LEMMA ConstantFacts ==
  /\ ClockSpace \in Nat /\ Fresh \in Nat /\ BaselineReset \in Nat /\ RiskMaximumAge \in Nat
  /\ Period \in Nat /\ MaxGap \in Nat
  /\ ClockSpace > 0 /\ BaselineReset + MaxGap < ClockSpace /\ Fresh < BaselineReset
  /\ 0 \in Levels /\ Levels \subseteq 0..3 /\ 0 \in Rises /\ Rises \subseteq 0..3
  BY RuntimeAssumption

\* A silence grows within its bounds, and by one while it is short.
LEMMA OlderFacts ==
  ASSUME NEW a \in Silences, NEW who
  PROVE  /\ Older(who, a) \in Silences
         /\ a + 1 < ClockSpace => Older(who, a) = a + 1
<1>1. CASE who \in LongSilence
  BY <1>1, ConstantFacts, SMT DEF Older, Silences
<1>2. CASE who \notin LongSilence
  BY <1>2, ConstantFacts, SMT DEF Older, Silences
<1>. QED  BY <1>1, <1>2

\* The age of an echo is what the loop measures while a reference is kept.
LEMMA ElapsedFacts ==
  ASSUME LoopTypeOK, NEW a \in Silences, lag <= a, a <= BaselineReset + since
  PROVE  Elapsed(a) = a - lag
<1>1. a - lag \in 0 .. ClockSpace - 1
  BY ConstantFacts, SMT DEF LoopTypeOK, Silences
<1>. QED  BY <1>1, SmallMod, ConstantFacts DEF Elapsed

\* What the age of a reference must be after a pass looked at the sensor.
AgedWell(s) == s.ready => s.seen /\ lag <= s.age /\ s.age <= BaselineReset + since

LEMMA ClearFacts ==
  ASSUME NEW s \in Sonars
  PROVE  ClearReference(s) \in Sonars /\ ~ClearReference(s).ready
  BY ConstantFacts, SMT DEF Sonars, ClearReference, Window

\* Whatever the driver reports, the state keeps its type and the reference its
\* age.
LEMMA PolledFacts ==
  ASSUME LoopTypeOK, NEW s \in Sonars, AgedWell(s), NEW q \in Polled(s)
  PROVE  q \in Sonars /\ AgedWell(q)
<1>1. lag \in Silences /\ lag <= BaselineReset + since /\ 0 \in Silences
  BY ConstantFacts, SMT DEF LoopTypeOK, Silences
<1>2. NoteTimeout(s) \in Sonars /\ AgedWell(NoteTimeout(s))
  BY ClearFacts DEF NoteTimeout, AgedWell
<1>3. NoteHardwareFault(s) \in Sonars /\ AgedWell(NoteHardwareFault(s))
  <2>1. [s EXCEPT !.seen = FALSE, !.age = 0, !.latched = TRUE] \in Sonars
    BY <1>1 DEF Sonars
  <2>. QED  BY <2>1, ClearFacts DEF NoteHardwareFault, AgedWell
<1>4. ASSUME NEW stable \in BOOLEAN, NEW rise \in Rises, NEW fast \in BOOLEAN
      PROVE  LET t == AcceptDistance(s, stable, rise, fast) IN t \in Sonars /\ AgedWell(t)
  <2>. DEFINE n == IF s.candidates < Window THEN s.candidates + 1 ELSE Window
              ready == s.ready \/ (n = Window /\ stable)
              t == AcceptDistance(s, stable, rise, fast)
  <2>1. n \in 0..Window
    BY SMT DEF Sonars, Window
  <2>2. t = [seen |-> TRUE, age |-> lag, latched |-> s.latched, ready |-> ready,
             healthy |-> ready, candidates |-> IF s.ready THEN s.candidates ELSE n,
             rise |-> IF s.ready THEN rise ELSE 0, fast |-> s.ready /\ fast]
    BY DEF AcceptDistance
  <2>3. ready \in BOOLEAN /\ (s.ready /\ fast) \in BOOLEAN
    BY DEF Sonars
  <2>4. (IF s.ready THEN rise ELSE 0) \in Rises
    BY ConstantFacts
  <2>5. (IF s.ready THEN s.candidates ELSE n) \in 0..Window
    BY <2>1 DEF Sonars
  <2>. HIDE DEF n, ready, t
  <2>6. t \in Sonars
    BY <1>1, <2>2, <2>3, <2>4, <2>5 DEF Sonars
  <2>7. AgedWell(t)
    BY <1>1, <2>2, SMT DEF AgedWell, LoopTypeOK
  <2>. QED  BY <2>6, <2>7 DEF t
<1>. QED  BY <1>2, <1>3, <1>4 DEF Polled

\* After the tick a reference is no older than the reset time, and a healthy one
\* is fresh.
LEMMA TickFacts ==
  ASSUME LoopTypeOK, NEW s \in Sonars, AgedWell(s)
  PROVE  /\ Tick(s) \in Sonars
         /\ Tick(s).ready => Tick(s).seen /\ lag <= Tick(s).age
                             /\ Tick(s).age <= BaselineReset + lag
         /\ WaterOk(Tick(s)) => Tick(s).age - lag <= Fresh
<1>1. CASE ~s.seen
  BY <1>1 DEF Tick, AgedWell, WaterOk
<1>2. CASE s.seen /\ Elapsed(s.age) > BaselineReset
  BY <1>2, ClearFacts DEF Tick, WaterOk
<1>3. CASE s.seen /\ ~(Elapsed(s.age) > BaselineReset)
  <2>1. /\ Tick(s) \in Sonars /\ Tick(s).age = s.age /\ Tick(s).seen = s.seen
        /\ Tick(s).ready = s.ready
    BY <1>3 DEF Tick, Sonars
  <2>2. s.age \in Silences
    BY DEF Sonars
  <2>3. s.ready => Elapsed(s.age) = s.age - lag
    BY <2>2, ElapsedFacts DEF AgedWell
  <2>4. s.ready => s.age <= BaselineReset + lag
    BY <2>2, <2>3, <1>3, ConstantFacts, SMT DEF LoopTypeOK, Silences
  <2>. QED  BY <2>1, <2>3, <2>4, <1>3 DEF WaterOk, AgedWell
<1>. QED  BY <1>1, <1>2, <1>3

\* A frame has its type.
LEMMA SnapshotType ==
  ASSUME NEW s \in Sonars, NEW v \in [seen : BOOLEAN, age : Silences, person : BOOLEAN, inZone : BOOLEAN]
  PROVE  Snapshot(s, v) \in TelemetryFrames
<1>1. Alarm(s, v) \in 0..4
  BY DEF Alarm
<1>2. WaterOk(s) \in BOOLEAN /\ VisionOk(v) \in BOOLEAN
  BY DEF WaterOk, VisionOk, Sonars
<1>. QED  BY <1>1, <1>2, ConstantFacts DEF Snapshot, TelemetryFrames, Sonars

-----------------------------------------------------------------------------
(* The inductive invariant *)

Visions == [seen : BOOLEAN, age : Silences, person : BOOLEAN, inZone : BOOLEAN]

LEMMA NoRiskType == NoRisk \in Risks
  BY ConstantFacts, SMT DEF NoRisk, Risks, Silences

LEMMA InitInv == LoopInit => LoopInv
<1>. SUFFICES ASSUME LoopInit PROVE LoopInv
  OBVIOUS
<1>1. 0 \in Silences
  BY ConstantFacts, SMT DEF Silences
<1>2. sonar \in Sonars
  BY <1>1, ConstantFacts DEF LoopInit, Sonars, Window
<1>3. vision \in Visions
  BY <1>1 DEF LoopInit, Visions
<1>4. risk \in [snapshot : Risks, ready : BOOLEAN]
  BY NoRiskType DEF LoopInit
<1>. QED  BY <1>2, <1>3, <1>4, ConstantFacts DEF LoopInit, LoopInv, LoopTypeOK, ReferenceAge, Visions

\* Time passes: silences grow, and a reference by no more than the time since the
\* last frame.
LEMMA AdvanceInv == ASSUME LoopInv, Advance PROVE LoopInv'
<1>. USE DEF Visions
<1>1. LoopTypeOK /\ ReferenceAge
  BY DEF LoopInv
<1>2. since' \in 0..MaxGap /\ lag' \in 0..since' /\ lag' <= lag + 1
  BY <1>1, ConstantFacts, SMT DEF LoopTypeOK, Advance
<1>3. /\ sonar' \in Sonars /\ sonar'.ready = sonar.ready /\ sonar'.seen = sonar.seen
      /\ sonar.seen => sonar'.age = Older("sonar", sonar.age)
  <2>1. CASE sonar.seen
    <3>1. Older("sonar", sonar.age) \in Silences
      BY <1>1, OlderFacts DEF LoopTypeOK, Sonars
    <3>. QED  BY <2>1, <3>1, <1>1 DEF LoopTypeOK, Sonars, Advance
  <2>2. CASE ~sonar.seen
    BY <2>2, <1>1 DEF LoopTypeOK, Advance
  <2>. QED  BY <2>1, <2>2
<1>4. vision' \in Visions
  <2>1. CASE vision.seen
    <3>1. Older("vision", vision.age) \in Silences
      BY <1>1, OlderFacts DEF LoopTypeOK
    <3>. QED  BY <2>1, <3>1, <1>1 DEF LoopTypeOK, Advance
  <2>2. CASE ~vision.seen
    BY <2>2, <1>1 DEF LoopTypeOK, Advance
  <2>. QED  BY <2>1, <2>2
<1>5. ASSUME NEW r \in Risks PROVE [r EXCEPT !.age = Older("risk", @)] \in Risks
  <2>1. Older("risk", r.age) \in Silences
    BY OlderFacts DEF Risks
  <2>. QED  BY <2>1 DEF Risks
<1>6. risk' \in [snapshot : Risks, ready : BOOLEAN]
  <2>1. risk.snapshot \in Risks
    BY <1>1 DEF LoopTypeOK
  <2>. QED  BY <2>1, <1>1, <1>5 DEF LoopTypeOK, Advance
<1>7. copy' \in Risks \cup {None} /\ (copy = None <=> copy' = None)
  <2>1. CASE copy # None /\ copy.fetched
    <3>1. copy \in Risks /\ copy' = [copy EXCEPT !.age = Older("risk", @)]
      BY <2>1, <1>1 DEF LoopTypeOK, Advance
    <3>. QED  BY <2>1, <3>1, <1>5, NoneAssumption
  <2>2. CASE ~(copy # None /\ copy.fetched)
    BY <2>2, <1>1 DEF LoopTypeOK, Advance
  <2>. QED  BY <2>1, <2>2
<1>8. LoopTypeOK'
  BY <1>1, <1>2, <1>3, <1>4, <1>6, <1>7 DEF LoopTypeOK, Advance
<1>9. ReferenceAge'
  <2>. SUFFICES ASSUME sonar.ready
                PROVE sonar.seen /\ lag' <= sonar'.age /\ sonar'.age <= BaselineReset + since'
    BY <1>3 DEF ReferenceAge
  <2>1. sonar.seen /\ lag <= sonar.age /\ sonar.age <= BaselineReset + since
    BY <1>1 DEF ReferenceAge
  <2>2. sonar.age \in Silences /\ sonar.age \in Nat
    BY <1>1, SMT DEF LoopTypeOK, Sonars, Silences
  <2>3. sonar.age + 1 < ClockSpace
    BY <1>1, <2>1, <2>2, ConstantFacts, SMT DEF Advance, LoopTypeOK
  <2>4. sonar'.age = sonar.age + 1
    BY <1>3, <2>1, <2>2, <2>3, OlderFacts
  <2>. QED  BY <1>1, <1>2, <2>1, <2>2, <2>4, ConstantFacts, SMT DEF Advance, LoopTypeOK
<1>. QED  BY <1>8, <1>9 DEF LoopInv

\* The driver is polled, and no frame is due.
LEMMA PassInv == ASSUME LoopInv, PassWithoutFrame PROVE LoopInv'
<1>1. LoopTypeOK /\ AgedWell(sonar) /\ lag <= since
  BY SMT DEF LoopInv, ReferenceAge, AgedWell, LoopTypeOK
<1>2. sonar' \in Sonars /\ AgedWell(sonar')
  BY <1>1, PolledFacts DEF LoopTypeOK, PassWithoutFrame
<1>3. sonar'.age \in Nat /\ lag \in Nat
  BY <1>1, <1>2, ConstantFacts, SMT DEF Sonars, Silences, LoopTypeOK
<1>4. LoopTypeOK'
  BY <1>1, <1>2, SMT DEF LoopTypeOK, PassWithoutFrame
<1>5. ReferenceAge'
  BY <1>2, <1>3, SMT DEF ReferenceAge, AgedWell, PassWithoutFrame
<1>. QED  BY <1>4, <1>5 DEF LoopInv

\* The driver is polled, and a frame is published after the tick.
LEMMA PublishInv ==
  ASSUME LoopInv, Publish
  PROVE  LoopInv' /\ (tel'.water => sonar'.age - lag <= Fresh)
<1>1. LoopTypeOK /\ AgedWell(sonar) /\ lag <= since
  BY SMT DEF LoopInv, ReferenceAge, AgedWell, LoopTypeOK
<1>2. PICK s \in Polled(sonar) : sonar' = Tick(s) /\ tel' = Snapshot(Tick(s), vision)
  BY DEF Publish
<1>3. s \in Sonars /\ AgedWell(s)
  BY <1>1, <1>2, PolledFacts DEF LoopTypeOK
<1>4. /\ sonar' \in Sonars
      /\ sonar'.ready => sonar'.seen /\ lag <= sonar'.age /\ sonar'.age <= BaselineReset + lag
      /\ WaterOk(sonar') => sonar'.age - lag <= Fresh
  BY <1>1, <1>2, <1>3, TickFacts
<1>5. tel' \in TelemetryFrames /\ tel'.water = WaterOk(Tick(s))
  <2>1. tel' \in TelemetryFrames
    BY <1>1, <1>2, <1>4, SnapshotType DEF LoopTypeOK
  <2>. QED  BY <2>1, <1>2 DEF Snapshot
<1>6. LoopTypeOK'
  <2>1. since' \in 0..MaxGap /\ lag' \in 0..since'
    <3>1. since \in 0..MaxGap /\ lag \in 0..since /\ since' = lag /\ lag' = lag
      BY <1>1 DEF LoopTypeOK, Publish
    <3>. QED  BY <3>1, ConstantFacts, SMT
  <2>2. copy' \in Risks /\ copy' # None /\ tel' # None
    BY <1>1, <1>5, NoneAssumption DEF LoopTypeOK, Publish
  <2>. QED  BY <1>1, <1>4, <1>5, <2>1, <2>2 DEF LoopTypeOK, Publish
<1>7. ReferenceAge'
  BY <1>1, <1>4, SMT DEF ReferenceAge, Publish, LoopTypeOK
<1>8. tel'.water => sonar'.age - lag <= Fresh
  BY <1>2, <1>4, <1>5
<1>. QED  BY <1>6, <1>7, <1>8 DEF LoopInv

\* Everything else leaves the ultrasonic state and the frame's time alone.
LEMMA OtherInv ==
  ASSUME LoopInv,
         \/ ReadClock \/ SendControl \/ RiskStale \/ RiskReset
         \/ \E person, inZone \in BOOLEAN : AcceptVision(person, inZone)
         \/ \E model, clean \in BOOLEAN, level \in Levels : RiskFetched(model, level, clean)
         \/ UNCHANGED loopVars
  PROVE  LoopInv'
<1>1. LoopTypeOK /\ ReferenceAge
  BY DEF LoopInv
<1>2. 0 \in Silences /\ 0 \in 0..since /\ sonar.age \in Nat
  BY <1>1, ConstantFacts, SMT DEF Silences, LoopTypeOK, Sonars
<1>3. CASE ReadClock
  BY <1>1, <1>2, <1>3, SMT DEF LoopInv, LoopTypeOK, ReferenceAge, ReadClock
<1>4. CASE SendControl
  <2>1. ctl' \in ControlFrames \cup {None}
    <3>. DEFINE d == ModelDanger \/ LocalWaterDanger
                e == ~GreenSafe
    <3>1. ctl' \in {None, [danger |-> d, personEnable |-> e]}
      BY <1>4 DEF SendControl
    <3>2. d \in BOOLEAN /\ e \in BOOLEAN
      OBVIOUS
    <3>. HIDE DEF d, e
    <3>. QED  BY <3>1, <3>2 DEF ControlFrames
  <2>2. LoopTypeOK'
    BY <1>1, <1>2, <1>4, <2>1 DEF LoopTypeOK, SendControl
  <2>3. ReferenceAge'
    BY <1>1, <1>2, <1>4, SMT DEF ReferenceAge, SendControl
  <2>. QED  BY <2>2, <2>3 DEF LoopInv
<1>5. CASE RiskStale
  <2>1. risk' \in [snapshot : Risks, ready : BOOLEAN]
    BY <1>1, <1>5 DEF LoopTypeOK, RiskStale, Risks
  <2>. QED  BY <1>1, <1>5, <2>1 DEF LoopInv, LoopTypeOK, ReferenceAge, RiskStale
<1>6. CASE RiskReset
  BY <1>1, <1>6, NoRiskType DEF LoopInv, LoopTypeOK, ReferenceAge, RiskReset
<1>7. CASE \E person, inZone \in BOOLEAN : AcceptVision(person, inZone)
  <2>1. vision' \in Visions
    BY <1>2, <1>7 DEF AcceptVision, Visions
  <2>. QED  BY <1>1, <1>7, <2>1 DEF LoopInv, LoopTypeOK, ReferenceAge, AcceptVision, Visions
<1>8. CASE \E model, clean \in BOOLEAN, level \in Levels : RiskFetched(model, level, clean)
  <2>1. risk' \in [snapshot : Risks, ready : BOOLEAN]
    BY <1>2, <1>8 DEF RiskFetched, Risks
  <2>. QED  BY <1>1, <1>8, <2>1 DEF LoopInv, LoopTypeOK, ReferenceAge, RiskFetched
<1>9. CASE UNCHANGED loopVars
  BY <1>1, <1>9 DEF LoopInv, LoopTypeOK, ReferenceAge, loopVars
<1>. QED  BY <1>3, <1>4, <1>5, <1>6, <1>7, <1>8, <1>9

THEOREM LoopInvariance == LoopSpec => []LoopInv
<1>1. LoopInv /\ [LoopNext]_loopVars => LoopInv'
  BY AdvanceInv, PassInv, PublishInv, OtherInv DEF LoopNext
<1>. QED  BY InitInv, <1>1, PTL DEF LoopSpec

-----------------------------------------------------------------------------
(* Theorems *)

\* The variables of the sensing loop keep their types.
THEOREM LoopTypeCorrect == LoopSpec => []LoopTypeOK
<1>1. LoopInv => LoopTypeOK
  BY DEF LoopInv
<1>. QED  BY LoopInvariance, <1>1, PTL

\* A water reference is never older than the reset time and one gap of the loop,
\* however long the echo stays away.
THEOREM ReferenceIsRecent == LoopSpec => []ReferenceDropped
<1>1. LoopInv => ReferenceDropped
  <2>. SUFFICES ASSUME LoopInv, sonar.ready PROVE sonar.age <= BaselineReset + MaxGap
    BY DEF ReferenceDropped
  <2>1. sonar.age <= BaselineReset + since /\ since \in 0..MaxGap /\ sonar.age \in Nat
    BY ConstantFacts, SMT DEF LoopInv, ReferenceAge, LoopTypeOK, Sonars, Silences
  <2>. QED  BY <2>1, ConstantFacts, SMT
<1>. QED  BY LoopInvariance, <1>1, PTL

\* A frame that reports water as healthy rests on an echo that is truly fresh.
THEOREM WaterReportsAreFresh == LoopSpec => WaterIsFresh
<1>1. LoopInv /\ [LoopNext]_loopVars => [Publishing /\ tel'.water => sonar'.age - lag <= Fresh]_loopVars
  <2>. SUFFICES ASSUME LoopInv, LoopNext, Publishing, tel'.water PROVE sonar'.age - lag <= Fresh
    OBVIOUS
  <2>1. Publish
    BY DEF LoopNext, Publishing, Advance, ReadClock, AcceptVision, PassWithoutFrame, SendControl,
           RiskFetched, RiskStale, RiskReset
  <2>. QED  BY <2>1, PublishInv
<1>. QED  BY LoopInvariance, <1>1, PTL DEF LoopSpec, WaterIsFresh

-----------------------------------------------------------------------------
(* The green light                                                            *)
(*                                                                            *)
(* OpenMV and the risk route may be silent for as long as the clock takes to  *)
(* wrap, after which their old stamps look fresh (README, 3).  What follows is *)
(* about clocks that have not wrapped for these two.                          *)

NoWrap == "vision" \notin LongSilence /\ "risk" \notin LongSilence

\* The stamps of the camera and of the risk results are younger than the clock.
Unwrapped ==
  /\ vision.age < ClockSpace /\ risk.snapshot.age < ClockSpace
  /\ copy # None => copy.age < ClockSpace

\* Between the frame and the control frame of a pass, what the frame says still
\* holds of the sensors: they are no longer read, and they age with the pass.
FrameHolds ==
  phase = "control" =>
    /\ tel.water => sonar.ready /\ sonar.age - lag <= Fresh
    /\ tel.vision => vision.seen /\ vision.age - lag <= Fresh
    /\ tel.alarm = 0 => sonar.rise = 0 /\ ~sonar.fast /\ ~vision.person

GreenInv == LoopInv /\ Unwrapped /\ FrameHolds

LEMMA YoungerFacts ==
  ASSUME NEW a \in Silences, a < ClockSpace, NEW who, who \notin LongSilence
  PROVE  Older(who, a) \in Silences /\ Older(who, a) < ClockSpace /\ Older(who, a) <= a + 1
  BY ConstantFacts, SMT DEF Older, Silences

\* No silence grows by more than one in a unit of time.
LEMMA OlderByOne == ASSUME NEW a \in Silences, NEW who PROVE Older(who, a) <= a + 1
  BY ConstantFacts, SMT DEF Older, Silences

\* A stamp that the code finds fresh is no older than the limit: a stamp made
\* after the pass read the clock wraps to far more than the limit.
LEMMA ElapsedBound ==
  ASSUME LoopTypeOK, NEW a \in Nat, a < ClockSpace, NEW limit \in Nat, Elapsed(a) <= limit
  PROVE  a - lag <= limit
<1>1. lag \in Nat
  BY ConstantFacts, SMT DEF LoopTypeOK
<1>2. CASE lag <= a
  <2>1. a - lag \in 0 .. ClockSpace - 1
    BY <1>1, <1>2, ConstantFacts, SMT
  <2>. QED  BY <2>1, SmallMod, ConstantFacts DEF Elapsed
<1>3. CASE a < lag
  BY <1>1, <1>3, SMT
<1>. QED  BY <1>1, <1>2, <1>3, SMT

LEMMA GreenAdvance == ASSUME GreenInv, NoWrap, Advance PROVE GreenInv'
<1>. USE DEF Visions
<1>1. LoopTypeOK /\ LoopInv' /\ Unwrapped /\ FrameHolds
  BY AdvanceInv DEF GreenInv, LoopInv
<1>2. /\ lag \in Nat /\ sonar \in Sonars /\ vision \in Visions /\ risk.snapshot \in Risks
      /\ copy \in Risks \cup {None}
  BY <1>1, ConstantFacts, SMT DEF LoopTypeOK
<1>3. vision' = IF vision.seen THEN [vision EXCEPT !.age = Older("vision", vision.age)] ELSE vision
  BY DEF Advance
<1>4. /\ vision'.age < ClockSpace /\ vision'.age <= vision.age + 1
      /\ vision'.seen = vision.seen /\ vision'.person = vision.person
  BY <1>1, <1>2, <1>3, YoungerFacts, SMT DEF Unwrapped, NoWrap, Silences, GreenInv
<1>5. risk'.snapshot.age < ClockSpace
  <2>1. CASE risk.snapshot.fetched
    <3>1. risk'.snapshot.age = Older("risk", risk.snapshot.age)
      BY <1>1, <2>1 DEF Advance, LoopTypeOK, Risks
    <3>. QED  BY <1>1, <1>2, <3>1, YoungerFacts DEF Unwrapped, NoWrap, Risks
  <2>. QED  BY <1>1, <2>1 DEF Advance, Unwrapped
<1>6. copy' # None => copy'.age < ClockSpace
  <2>1. CASE copy # None /\ copy.fetched
    <3>1. copy'.age = Older("risk", copy.age)
      BY <1>2, <2>1, NoneAssumption DEF Advance, Risks
    <3>. QED  BY <1>1, <1>2, <2>1, <3>1, YoungerFacts DEF Unwrapped, NoWrap, Risks
  <2>. QED  BY <1>1, <2>1 DEF Advance, Unwrapped
<1>7. /\ sonar'.age <= sonar.age + 1 /\ sonar'.ready = sonar.ready
      /\ sonar'.rise = sonar.rise /\ sonar'.fast = sonar.fast /\ sonar'.age \in Nat
  <2>1. sonar.age \in Silences /\ Older("sonar", sonar.age) \in Silences
        /\ Older("sonar", sonar.age) <= sonar.age + 1
    BY <1>2, OlderFacts, OlderByOne DEF Sonars
  <2>. QED  BY <1>2, <2>1, SMT DEF Advance, Sonars, Silences
<1>8. FrameHolds'
  <2>. SUFFICES ASSUME phase' = "control"
                PROVE  /\ tel'.water => sonar'.ready /\ sonar'.age - lag' <= Fresh
                       /\ tel'.vision => vision'.seen /\ vision'.age - lag' <= Fresh
                       /\ tel'.alarm = 0 => sonar'.rise = 0 /\ ~sonar'.fast /\ ~vision'.person
    BY DEF FrameHolds
  <2>1. phase = "control" /\ tel' = tel /\ lag' = lag + 1
    BY DEF Advance
  <2>2. sonar.age \in Nat /\ vision.age \in Nat /\ vision'.age \in Nat
    BY <1>1, <1>2, ConstantFacts, SMT DEF Sonars, Silences, LoopInv, LoopTypeOK
  <2>. QED  BY <1>1, <1>2, <1>4, <1>7, <2>1, <2>2, ConstantFacts, SMT DEF FrameHolds
<1>. QED  BY <1>1, <1>4, <1>5, <1>6, <1>8 DEF GreenInv, Unwrapped

\* The frame of a pass says what its sensors are.
LEMMA GreenPublish == ASSUME GreenInv, NoWrap, Publish PROVE GreenInv'
<1>1. LoopTypeOK /\ AgedWell(sonar) /\ Unwrapped
  BY SMT DEF GreenInv, LoopInv, ReferenceAge, AgedWell, LoopTypeOK
<1>2. LoopInv'
  BY PublishInv DEF GreenInv
<1>3. PICK s \in Polled(sonar) : sonar' = Tick(s) /\ tel' = Snapshot(Tick(s), vision)
  BY DEF Publish
<1>4. s \in Sonars /\ AgedWell(s)
  BY <1>1, <1>3, PolledFacts DEF LoopTypeOK
<1>5. sonar' \in Sonars /\ (WaterOk(sonar') => sonar'.age - lag <= Fresh)
  BY <1>1, <1>3, <1>4, TickFacts
<1>6. lag' = lag /\ vision' = vision /\ risk' = risk /\ copy' = risk.snapshot
  BY DEF Publish
<1>7. tel' = Snapshot(sonar', vision)
  BY <1>3
<1>8. Unwrapped'
  BY <1>1, <1>6 DEF Unwrapped
<1>9. VisionOk(vision) => vision.seen /\ vision.age - lag <= Fresh
  <2>1. vision.age \in Nat /\ vision.age < ClockSpace
    BY <1>1, ConstantFacts, SMT DEF LoopTypeOK, Unwrapped, Silences
  <2>. QED  BY <1>1, <2>1, ElapsedBound, ConstantFacts DEF VisionOk
<1>10. tel'.alarm = 0 => sonar'.rise = 0 /\ ~sonar'.fast /\ ~vision.person
  <2>1. tel'.alarm = Alarm(sonar', vision)
    BY <1>7 DEF Snapshot
  <2>2. sonar'.rise \in 0..3
    BY <1>5, ConstantFacts DEF Sonars
  <2>. QED  BY <2>1, <2>2, SMT DEF Alarm
<1>11. tel'.water = WaterOk(sonar') /\ tel'.vision = VisionOk(vision)
  BY <1>7 DEF Snapshot
<1>12. WaterOk(sonar') => sonar'.ready
  BY DEF WaterOk
<1>13. FrameHolds'
  BY <1>5, <1>6, <1>9, <1>10, <1>11, <1>12 DEF FrameHolds
<1>. QED  BY <1>2, <1>8, <1>13 DEF GreenInv

\* Everything else publishes no frame, and leaves the sensors alone while one
\* waits for its control frame.
LEMMA GreenOther ==
  ASSUME GreenInv, NoWrap,
         \/ ReadClock \/ SendControl \/ RiskStale \/ RiskReset \/ PassWithoutFrame
         \/ \E person, inZone \in BOOLEAN : AcceptVision(person, inZone)
         \/ \E model, clean \in BOOLEAN, level \in Levels : RiskFetched(model, level, clean)
         \/ UNCHANGED loopVars
  PROVE  GreenInv'
<1>1. LoopInv' /\ LoopTypeOK /\ Unwrapped /\ FrameHolds
  BY OtherInv, PassInv DEF GreenInv, LoopInv
<1>2. Unwrapped'
  <2>1. \/ vision' = vision
        \/ \E person, inZone \in BOOLEAN :
             vision' = [seen |-> TRUE, age |-> 0, person |-> person, inZone |-> inZone]
    BY DEF ReadClock, SendControl, RiskStale, RiskReset, PassWithoutFrame, AcceptVision,
           RiskFetched, loopVars
  <2>2. risk'.snapshot.age \in {0, risk.snapshot.age}
    <3>1. CASE RiskStale
      BY <1>1, <3>1 DEF RiskStale, LoopTypeOK, Risks
    <3>. QED  BY <3>1 DEF NoRisk, ReadClock, SendControl, RiskReset, PassWithoutFrame,
                          AcceptVision, RiskFetched, loopVars
  <2>3. copy' \in {None, copy}
    BY DEF ReadClock, SendControl, RiskStale, RiskReset, PassWithoutFrame, AcceptVision,
           RiskFetched, loopVars
  <2>4. vision'.age \in {0, vision.age}
    BY <2>1
  <2>. QED  BY <1>1, <2>2, <2>3, <2>4, ConstantFacts, SMT DEF Unwrapped
<1>3. FrameHolds'
  BY <1>1 DEF FrameHolds, ReadClock, SendControl, RiskStale, RiskReset, PassWithoutFrame,
              AcceptVision, RiskFetched, loopVars
<1>. QED  BY <1>1, <1>2, <1>3 DEF GreenInv

\* Only a control frame authorizes anything.
LEMMA GreenControl ==
  ASSUME GreenInv, SendControl, ctl' # None, ~ctl'.personEnable
  PROVE  /\ sonar.ready /\ sonar.age - lag <= Fresh /\ sonar.rise = 0 /\ ~sonar.fast
         /\ vision.seen /\ vision.age - lag <= Fresh /\ ~vision.person
         /\ copy.fetched /\ copy.age - lag <= RiskMaximumAge /\ copy.clean /\ copy.level = 0
<1>1. GreenSafe
  <2>. DEFINE d == ModelDanger \/ LocalWaterDanger
  <2>1. ctl' = [danger |-> d, personEnable |-> ~GreenSafe]
    BY DEF SendControl
  <2>. HIDE DEF d
  <2>. QED  BY <2>1
<1>2. phase = "control" /\ tel.water /\ tel.vision /\ tel.alarm = 0
  BY <1>1 DEF GreenSafe, SendControl
<1>3. copy.fetched /\ copy.clean /\ copy.level = 0 /\ Elapsed(copy.age) <= RiskMaximumAge
  BY <1>1 DEF GreenSafe, Trusted
<1>4. copy # None /\ copy \in Risks
  BY <1>2 DEF GreenInv, LoopInv, LoopTypeOK
<1>5. copy.age \in Nat /\ copy.age < ClockSpace
  BY <1>4, ConstantFacts, SMT DEF GreenInv, Unwrapped, Risks, Silences
<1>6. copy.age - lag <= RiskMaximumAge
  BY <1>3, <1>5, ElapsedBound, ConstantFacts DEF GreenInv, LoopInv
<1>. QED  BY <1>2, <1>3, <1>6 DEF GreenInv, FrameHolds

\* The green light is authorized only by an echo, a camera frame and a model
\* result that are truly fresh and say there is no danger and nobody, for every
\* limit and gap of the loop, as long as neither the camera nor the risk route is
\* silent for a whole turn of the clock.
THEOREM GreenLightIsBacked == ASSUME NoWrap PROVE LoopSpec => GreenIsBacked
<1>1. LoopInit => GreenInv
  <2>. SUFFICES ASSUME LoopInit PROVE GreenInv
    OBVIOUS
  <2>. QED  BY InitInv, ConstantFacts, SMT DEF LoopInit, GreenInv, Unwrapped, FrameHolds, NoRisk
<1>2. GreenInv /\ [LoopNext]_loopVars => GreenInv'
  BY GreenAdvance, GreenPublish, GreenOther DEF LoopNext
<1>3. GreenInv /\ [LoopNext]_loopVars => [GreenStep]_loopVars
  <2>. SUFFICES ASSUME GreenInv, LoopNext, ctl' # None, ctl' # ctl, ~ctl'.personEnable
                PROVE  GreenStep
    BY DEF GreenStep
  <2>1. SendControl
    BY DEF LoopNext, Advance, ReadClock, AcceptVision, PassWithoutFrame, Publish, RiskFetched,
           RiskStale, RiskReset
  <2>. QED  BY <2>1, GreenControl DEF GreenStep
<1>. QED  BY <1>1, <1>2, <1>3, PTL DEF LoopSpec, GreenIsBacked
=============================================================================
