--------------------------- MODULE SensorRuntime ---------------------------
(* The local sensing loop of the ESP32: pollLocalSensorRuntime of main.cpp    *)
(* with sensor_logic.cpp and openmv_control.cpp.  A pass reads the clock once *)
(* (now_ms), takes the waiting VIS lines, polls the ultrasonic driver and,    *)
(* every period, publishes a telemetry frame and sends OpenMV a control       *)
(* frame.  The network task publishes risk results meanwhile.                 *)
(*                                                                            *)
(* Clock values are uint32 milliseconds and only their differences are ever   *)
(* used, so a stamp is kept as its true age: elapsed(now, stamp) is that age, *)
(* less the time since the pass read the clock, modulo ClockSpace.  Distances *)
(* and the filter are abstracted to what the alarm tells apart.               *)
EXTENDS Integers

CONSTANTS
  ClockSpace,        \* 2^32 ms
  Fresh,             \* kUltrasonicFreshMs and kVisionFreshMs
  BaselineReset,     \* kUltrasonicBaselineResetMs
  RiskMaximumAge,    \* kOpenMvRiskMaximumAgeMs
  Period,            \* kLocalTelemetryPeriodMs and kOpenMvControlIntervalMs
  MaxGap,            \* the longest the loop goes without a frame
  LongSilence,       \* of "sonar", "vision", "risk": what may stay silent for ClockSpace
  Levels,            \* the environmental levels the server may report
  Rises,             \* how many of advisory, warning and danger a rise may reach
  None

ASSUME RuntimeAssumption ==
  /\ {ClockSpace, Fresh, BaselineReset, RiskMaximumAge, Period, MaxGap} \subseteq Nat \ {0}
  /\ Fresh < BaselineReset /\ Period <= MaxGap
  /\ BaselineReset + MaxGap < ClockSpace
  /\ RiskMaximumAge + MaxGap < ClockSpace
  /\ LongSilence \subseteq {"sonar", "vision", "risk"}
  /\ Levels \subseteq 0..3 /\ 0 \in Levels /\ Rises \subseteq 0..3 /\ 0 \in Rises

VARIABLES
  phase,    \* "idle", "poll": now_ms is read, "control": the frame is published
  lag,      \* how long ago the pass read now_ms
  since,    \* the age of last_local_telemetry_ms and last_openmv_control_ms
  sonar,    \* the ultrasonic part of SensorState
  vision,   \* the OpenMV part of SensorState
  risk,     \* NetworkUplink::risk_ and risk_status_
  copy,     \* what network_uplink.risk() returned in this pass
  tel,      \* latest_telemetry; forgotten after the pass, nothing here reads it later
  ctl       \* the control frame of this pass

loopVars == <<phase, lag, since, sonar, vision, risk, copy, tel, ctl>>

Window == 3              \* kBaselineWindow
Silences == 0 .. 2 * ClockSpace - 1

Sonars == [seen : BOOLEAN, age : Silences, healthy : BOOLEAN, ready : BOOLEAN,
           candidates : 0..Window, rise : Rises, fast : BOOLEAN, latched : BOOLEAN]

NoRisk == [fetched |-> FALSE, age |-> 0, stale |-> TRUE, model |-> FALSE,
           level |-> 0, clean |-> FALSE]
Risks == [fetched : BOOLEAN, age : Silences, stale : BOOLEAN, model : BOOLEAN,
          level : Levels, clean : BOOLEAN]

TelemetryFrames == [water : BOOLEAN, vision : BOOLEAN, alarm : 0..4, rise : Rises, fast : BOOLEAN]

ControlFrames == [danger : BOOLEAN, personEnable : BOOLEAN]

ASSUME NoneAssumption ==
  None \notin Risks /\ None \notin TelemetryFrames /\ None \notin ControlFrames

LoopInit ==
  /\ phase = "idle" /\ lag = 0 /\ since = 0
  /\ sonar = [seen |-> FALSE, age |-> 0, healthy |-> FALSE, ready |-> FALSE,
              candidates |-> 0, rise |-> 0, fast |-> FALSE, latched |-> FALSE]
  /\ vision = [seen |-> FALSE, age |-> 0, person |-> FALSE, inZone |-> FALSE]
  /\ risk = [snapshot |-> NoRisk, ready |-> FALSE]
  /\ copy = None /\ tel = None /\ ctl = None

-----------------------------------------------------------------------------
(* sensor_logic *)

\* uint32 now_ms - then_ms, for the stamp of age a.  A stamp made after now_ms
\* was read has an age below lag, and the difference wraps.
Elapsed(a) == (a - lag) % ClockSpace

ClearReference(s) ==
  [seen |-> s.seen, age |-> s.age, latched |-> s.latched, ready |-> FALSE,
   healthy |-> FALSE, candidates |-> 0, rise |-> 0, fast |-> FALSE]

\* A distance in range: the reference is learned from Window samples that lie
\* close together (stable), with no rise; later ones go through the filter.
AcceptDistance(s, stable, rise, fast) ==
  LET n == IF s.candidates < Window THEN s.candidates + 1 ELSE Window
      ready == s.ready \/ (n = Window /\ stable)
  IN [seen |-> TRUE, age |-> lag, latched |-> s.latched, ready |-> ready, healthy |-> ready,
      candidates |-> IF s.ready THEN s.candidates ELSE n,
      rise |-> IF s.ready THEN rise ELSE 0, fast |-> s.ready /\ fast]

NoteTimeout(s) ==
  IF s.seen /\ Elapsed(s.age) > BaselineReset THEN ClearReference(s) ELSE s

NoteHardwareFault(s) ==
  ClearReference([s EXCEPT !.seen = FALSE, !.age = 0, !.latched = TRUE])

\* Mutant of Tick: trusts the age test of the snapshot alone.
TickNothing(s) == s

Tick(s) ==
  IF ~s.seen THEN s
  ELSE IF Elapsed(s.age) > BaselineReset THEN ClearReference(s)
  ELSE [s EXCEPT !.healthy = s.healthy /\ Elapsed(s.age) <= Fresh]

WaterOk(s) == s.ready /\ s.healthy /\ s.seen /\ Elapsed(s.age) <= Fresh

VisionOk(v) == v.seen /\ Elapsed(v.age) <= Fresh

Alarm(s, v) ==
  IF ~WaterOk(s) \/ ~VisionOk(v) THEN 4                     \* kFault
  ELSE IF v.inZone /\ s.rise >= 3 THEN 3                    \* kCritical
  ELSE IF v.inZone \/ s.rise >= 2 \/ s.fast THEN 2          \* kWarning
  ELSE IF v.person \/ s.rise >= 1 THEN 1 ELSE 0             \* kAdvisory, kSafe

Snapshot(s, v) ==
  [water |-> WaterOk(s), vision |-> VisionOk(v), alarm |-> Alarm(s, v),
   rise |-> IF WaterOk(s) THEN s.rise ELSE 0, fast |-> WaterOk(s) /\ s.fast]

-----------------------------------------------------------------------------
(* The passes of the loop *)

Older(who, a) ==
  IF who \in LongSilence
  THEN IF a + 1 = 2 * ClockSpace THEN ClockSpace ELSE a + 1
  ELSE IF a + 1 < ClockSpace THEN a + 1 ELSE a

\* A unit of time, anywhere in the loop, which never goes longer than MaxGap
\* without a frame.
Advance ==
  /\ since < MaxGap /\ since' = since + 1
  /\ lag' = IF phase = "idle" THEN 0 ELSE lag + 1
  /\ sonar' = IF sonar.seen THEN [sonar EXCEPT !.age = Older("sonar", @)] ELSE sonar
  /\ vision' = IF vision.seen THEN [vision EXCEPT !.age = Older("vision", @)] ELSE vision
  /\ risk' = IF risk.snapshot.fetched THEN [risk EXCEPT !.snapshot.age = Older("risk", @)]
             ELSE risk
  /\ copy' = IF copy # None /\ copy.fetched THEN [copy EXCEPT !.age = Older("risk", @)] ELSE copy
  /\ UNCHANGED <<phase, tel, ctl>>

\* The pass reads the clock.
ReadClock ==
  /\ phase = "idle" /\ phase' = "poll" /\ lag' = 0 /\ ctl' = None
  /\ UNCHANGED <<since, sonar, vision, risk, copy, tel>>

\* A valid VIS line, stamped with a clock value of its own.  Other lines are
\* dropped.
AcceptVision(person, inZone) ==
  /\ phase = "poll"
  /\ vision' = [seen |-> TRUE, age |-> 0, person |-> person, inZone |-> person /\ inZone]
  /\ UNCHANGED <<phase, lag, since, sonar, risk, copy, tel, ctl>>

\* What the ultrasonic driver makes of the sensor state s in a pass: nothing, a
\* distance, a timeout or an echo out of range, or a fault, which stays.
Polled(s) ==
  IF s.latched THEN {NoteHardwareFault(s)}
  ELSE {s, NoteTimeout(s), NoteHardwareFault(s)}
         \cup {AcceptDistance(s, stable, rise, fast) :
                 stable \in BOOLEAN, rise \in Rises, fast \in BOOLEAN}

Due == Elapsed(since) >= Period

PassWithoutFrame ==
  /\ phase = "poll" /\ ~Due
  /\ phase' = "idle" /\ lag' = 0
  /\ sonar' \in Polled(sonar)
  /\ UNCHANGED <<since, vision, risk, copy, tel, ctl>>

\* publishLocalTelemetryIfDue, and the first read of sendOpenMvControlIfDue,
\* which has the same period and the same stamp.
Publish ==
  /\ phase = "poll" /\ Due
  /\ phase' = "control" /\ since' = lag
  /\ \E s \in Polled(sonar) : sonar' = Tick(s) /\ tel' = Snapshot(Tick(s), vision)
  /\ copy' = risk.snapshot
  /\ UNCHANGED <<lag, vision, risk, ctl>>

-----------------------------------------------------------------------------
(* Risk results and the control frame *)

RiskFetched(model, level, clean) ==
  /\ risk' = [ready |-> TRUE,
              snapshot |-> [fetched |-> TRUE, age |-> 0, stale |-> FALSE, model |-> model,
                            level |-> level, clean |-> clean]]
  /\ UNCHANGED <<phase, lag, since, sonar, vision, copy, tel, ctl>>

\* A fetch failed, or Wi-Fi went down.
RiskStale ==
  /\ risk' = [risk EXCEPT !.ready = FALSE, !.snapshot.stale = TRUE]
  /\ UNCHANGED <<phase, lag, since, sonar, vision, copy, tel, ctl>>

\* No telemetry at the server yet, or another model or location was selected.
RiskReset ==
  /\ risk' = [ready |-> FALSE, snapshot |-> NoRisk]
  /\ UNCHANGED <<phase, lag, since, sonar, vision, copy, tel, ctl>>

Trusted == risk.ready /\ ~copy.stale /\ copy.fetched /\ Elapsed(copy.age) <= RiskMaximumAge
           /\ copy.model

\* Mutant of GreenSafe: any trusted result of level zero is enough.
GreenSafeTrusted == Trusted /\ copy.level = 0

GreenSafe ==
  Trusted /\ copy.level = 0 /\ copy.clean /\ tel.water /\ tel.vision /\ tel.alarm = 0

LocalWaterDanger == tel.water /\ tel.alarm < 4 /\ (tel.rise >= 2 \/ tel.fast)
ModelDanger == Trusted /\ copy.level >= 2

\* The frame is lost when the UART takes only part of it.
SendControl ==
  /\ phase = "control" /\ phase' = "idle" /\ lag' = 0
  /\ ctl' \in {None, [danger |-> ModelDanger \/ LocalWaterDanger, personEnable |-> ~GreenSafe]}
  /\ tel' = None /\ copy' = None
  /\ UNCHANGED <<since, sonar, vision, risk>>

LoopNext ==
  \/ Advance
  \/ ReadClock
  \/ \E person, inZone \in BOOLEAN : AcceptVision(person, inZone)
  \/ PassWithoutFrame
  \/ Publish
  \/ SendControl
  \/ \E model, clean \in BOOLEAN, level \in Levels : RiskFetched(model, level, clean)
  \/ RiskStale
  \/ RiskReset

LoopSpec == LoopInit /\ [][LoopNext]_loopVars

-----------------------------------------------------------------------------
(* Properties *)

\* The variables have their types, and a pass is never older than the last frame
\* of the pass before it.
LoopTypeOK ==
  /\ phase \in {"idle", "poll", "control"}
  /\ since \in 0..MaxGap /\ lag \in 0..since
  /\ sonar \in Sonars
  /\ vision \in [seen : BOOLEAN, age : Silences, person : BOOLEAN, inZone : BOOLEAN]
  /\ risk \in [snapshot : Risks, ready : BOOLEAN]
  /\ copy \in Risks \cup {None}
  /\ tel \in TelemetryFrames \cup {None}
  /\ (phase = "control" <=> tel # None) /\ (tel = None <=> copy = None)
  /\ ctl \in ControlFrames \cup {None}

\* A water reference never survives a silence of the echo longer than the reset
\* time and one gap of the loop, however long the silence: the clock may wrap
\* meanwhile.
ReferenceDropped == sonar.ready => sonar.age <= BaselineReset + MaxGap

\* The inductive invariant: a reference is as old as the reset time and what has
\* passed since the last frame, which is where the tick looked at it.
ReferenceAge ==
  sonar.ready => /\ sonar.seen /\ lag <= sonar.age
                 /\ sonar.age <= BaselineReset + since
LoopInv == LoopTypeOK /\ ReferenceAge

Publishing == phase = "poll" /\ phase' = "control"

\* A frame that reports water as healthy rests on an echo that is truly fresh,
\* also after a silence that outlives the clock.
WaterIsFresh == [][Publishing /\ tel'.water => sonar'.age - lag <= Fresh]_loopVars

\* The green light is authorized only by an echo, a camera frame and a model
\* result that are all truly fresh, and all say there is no danger and nobody.
GreenStep ==
  ctl' # None /\ ctl' # ctl /\ ~ctl'.personEnable =>
    /\ sonar.ready /\ sonar.age - lag <= Fresh /\ sonar.rise = 0 /\ ~sonar.fast
    /\ vision.seen /\ vision.age - lag <= Fresh /\ ~vision.person
    /\ copy.fetched /\ copy.age - lag <= RiskMaximumAge /\ copy.clean /\ copy.level = 0
GreenIsBacked == [][GreenStep]_loopVars

\* OpenMV is reported lost only when it has been silent for longer than the
\* limit (firmware/esp32/README.md:88).
FreshFrameCounts ==
  [][Publishing /\ vision.seen /\ vision.age <= Fresh => tel'.vision]_loopVars
=============================================================================
