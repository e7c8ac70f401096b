---------------------------- MODULE OpenMvCamera ----------------------------
(* The OpenMV camera of firmware/openmv (main.py, control.py,                 *)
(* vision_detector.py) and its UART to the ESP32.  A pass of the camera takes *)
(* the waiting control frames, photographs when that is due, sets the status  *)
(* light and tells its last result in a VIS frame.  Control frames can be     *)
(* damaged or cut off, and either board can restart alone.                    *)
(*                                                                            *)
(* Of the ESP32 only the number and the moment of its control frames are kept *)
(* here; what it makes of VIS frames, and which commands it may send, is the  *)
(* matter of SensorRuntime.                                                   *)
(*                                                                            *)
(* Stamps are kept as true ages, which stop where the code no longer tells    *)
(* them apart: the wrap of ticks_ms after 2^30 ms without a command is left   *)
(* out.                                                                       *)
EXTENDS Integers, Sequences

CONSTANTS
  SeqSpace,          \* 2^16 numbers of control frames
  Timeout,           \* CONTROL_TIMEOUT_MS
  Baseline,          \* BASELINE_DETECTION_INTERVAL_MS
  EnterFrames, ExitFrames, ZoneEnterFrames, ZoneExitFrames,
  VisionModes,       \* what VISION_MODE may be
  Interval,          \* kOpenMvControlIntervalMs
  Slowest,           \* the longest the ESP32 goes without a control frame
  MaxPass,           \* the longest pass of the camera
  WireSpace,         \* control frames the camera's receive buffer holds
  MaxRestarts,       \* bound
  Nothing

ASSUME CameraAssumption ==
  /\ {SeqSpace, Timeout, Baseline, EnterFrames, ExitFrames, ZoneEnterFrames, ZoneExitFrames,
      Interval, Slowest, MaxPass, WireSpace} \subseteq Nat \ {0}
  /\ VisionModes \subseteq {"person_classifier", "face_detection"}
  /\ Nothing \notin Nat

VARIABLES
  esp,      \* openmv_control_sequence and the age of last_openmv_control_ms
  wire,     \* control frames in the camera's receive buffer
  cam,      \* ControlState of the camera, the age of the green command it holds,
            \* and the undamaged frames it has refused in a row
  detector, \* VISION_MODE and the filter of the detector
  result,   \* last_result and the age of its picture
  shot,     \* the age of the picture this pass took, or Nothing
  pass,     \* whether the camera is alive, and how long its pass has lasted
  lamp,     \* the status light, and how old the command behind it is
  restarts

cameraVars == <<esp, wire, cam, detector, result, shot, pass, lamp, restarts>>

AtMost(n, bound) == IF n < bound THEN n ELSE bound

\* The age of a green command stops above the bound of LampIsBacked.
Aged(a) == AtMost(a + 1, Timeout + 2 * MaxPass + 1)

\* The commands that the camera tells apart: decideOpenMvControl() sends no other.
Watch == [danger |-> FALSE, enable |-> TRUE, level |-> 0]
Alert == [danger |-> TRUE, enable |-> TRUE, level |-> 2]
Green == [danger |-> FALSE, enable |-> FALSE, level |-> 0]

Bad == [bad |-> TRUE]

BootedEsp == [next |-> 0, since |-> 0]
BootedControl == [last |-> Nothing, heard |-> Timeout + 1, command |-> Green,
                  invalid |-> FALSE, age |-> 0, deaf |-> 0]
EmptyFilter == [present |-> FALSE, zone |-> FALSE, seen |-> 0, missing |-> 0,
                zoneSeen |-> 0, zoneClear |-> 0]
NoResult == [taken |-> FALSE, person |-> FALSE, age |-> 0]
Dark == [light |-> "off", age |-> 0]

CameraInit ==
  /\ esp = BootedEsp /\ wire = <<>>
  /\ cam = BootedControl /\ detector \in [mode : VisionModes, filter : {EmptyFilter}]
  /\ result = NoResult /\ shot = 0 /\ pass = [alive |-> TRUE, lasted |-> 0]
  /\ lamp = Dark /\ restarts = 0

-----------------------------------------------------------------------------
(* The ESP32's end *)

\* A frame enters the camera's buffer; a full buffer spoils it.
OnWire(f) ==
  IF Len(wire) < WireSpace THEN Append(wire, f) ELSE [wire EXCEPT ![WireSpace] = Bad]

\* The command goes out with the next number; any frame may be damaged.
ControlSent(command) ==
  /\ esp.since >= Interval
  /\ esp' = [esp EXCEPT !.next = (@ + 1) % SeqSpace, !.since = 0]
  /\ wire' \in {OnWire(Bad), OnWire([bad |-> FALSE, seq |-> esp.next, age |-> 0,
                                     command |-> command])}
  /\ UNCHANGED <<cam, detector, result, shot, pass, lamp, restarts>>

\* The UART takes only a part of the frame: its number is used again.  The part
\* damages the next frame, which any frame may be.
ControlCutOff ==
  /\ esp.since >= Interval
  /\ esp' = [esp EXCEPT !.since = 0]
  /\ UNCHANGED <<wire, cam, detector, result, shot, pass, lamp, restarts>>

\* The ESP32 restarts; what it sent stays in the camera's buffer.
EspRestart ==
  /\ restarts < MaxRestarts /\ restarts' = restarts + 1
  /\ esp' = BootedEsp
  /\ UNCHANGED <<wire, cam, detector, result, shot, pass, lamp>>

-----------------------------------------------------------------------------
(* control.py *)

\* _sequence_is_newer()
Newer(candidate, previous) ==
  LET delta == (candidate - previous) % SeqSpace IN delta # 0 /\ 2 * delta < SeqSpace

IsFresh(c) == c.last # Nothing /\ c.heard <= Timeout

Accepted(f) == [last |-> f.seq, heard |-> 0, command |-> f.command, invalid |-> FALSE,
                age |-> IF f.command = Green THEN f.age ELSE 0, deaf |-> 0]

Refused(c, f) == [c EXCEPT !.invalid = TRUE, !.deaf = IF f.bad THEN 0 ELSE @ + 1]

\* decode_control(): every frame of the ESP32 that arrives undamaged decodes.
Decodes(f) == ~f.bad

\* ControlState.accept()
Accept(c, f) ==
  IF Decodes(f) /\ (~IsFresh(c) \/ Newer(f.seq, c.last)) THEN Accepted(f)
  ELSE Refused(c, f)

Trusts(c) == IsFresh(c) /\ ~c.invalid

FullRate(c) == ~Trusts(c) \/ c.command.enable
EffectiveAlert(c) == Trusts(c) /\ c.command.danger /\ c.command.enable

\* Mutant of TrustedSafe: a command of any age keeps the light green.
TrustedSafeForever(c) == c.last # Nothing /\ ~c.invalid /\ c.command = Green

TrustedSafe(c) == Trusts(c) /\ c.command = Green

\* status_led_mode()
StatusLight(c, person) ==
  IF EffectiveAlert(c) THEN (IF person THEN "red" ELSE "yellow")
  ELSE IF TrustedSafe(c) THEN "green" ELSE "off"

-----------------------------------------------------------------------------
(* vision_detector.py *)

\* _ScoreHysteresis: a picture scores above the enter threshold, below the exit
\* threshold, or between them.  The whole picture is the warning region.
Classifier(f, score) ==
  LET seen == IF ~f.present /\ score = "high" THEN f.seen + 1 ELSE 0
      missing == IF f.present /\ score = "low" THEN f.missing + 1 ELSE 0
      present == IF f.present THEN missing < ExitFrames ELSE seen >= EnterFrames
  IN [EmptyFilter EXCEPT !.present = present, !.zone = present,
        !.seen = IF present THEN 0 ELSE seen, !.missing = IF present THEN missing ELSE 0]

\* _StableTargetFilter: no target, one outside the danger region, or one in it.
\* A count is kept while it can still decide something.
Target(f, what) ==
  LET found == what # "none"
      seen == IF found THEN f.seen + 1 ELSE 0
      missing == IF found THEN 0 ELSE f.missing + 1
      zoneSeen == IF what = "zone" THEN AtMost(f.zoneSeen + 1, ZoneEnterFrames) ELSE 0
      zoneClear == IF what = "target" THEN f.zoneClear + 1 ELSE 0
      present == IF f.present THEN missing < ExitFrames ELSE seen >= EnterFrames
      zone == /\ present
              /\ IF f.zone THEN zoneClear < ZoneExitFrames
                 ELSE found /\ zoneSeen >= ZoneEnterFrames
  IN [present |-> present, zone |-> zone,
      seen |-> IF present THEN 0 ELSE seen, missing |-> IF present THEN missing ELSE 0,
      zoneSeen |-> IF zone THEN 0 ELSE AtMost(zoneSeen, ZoneEnterFrames - 1),
      zoneClear |-> IF zone THEN zoneClear ELSE 0]

\* detect(): the filter after one more picture.
Filtered(d) ==
  IF d.mode = "person_classifier"
  THEN {Classifier(d.filter, score) : score \in {"high", "between", "low"}}
  ELSE {Target(d.filter, what) : what \in {"none", "target", "zone"}}

-----------------------------------------------------------------------------
(* run() *)

\* _poll_control_uart(): the waiting lines in their order.
Heard ==
  LET after[n \in 0..Len(wire)] == IF n = 0 THEN cam ELSE Accept(after[n - 1], wire[n])
  IN after[Len(wire)]

\* Mutant of DetectionDue: in the baseline rate nothing is due.
NoDetectionInBaseline(c, r) == ~r.taken \/ FullRate(c)

DetectionDue(c, r) == ~r.taken \/ FullRate(c) \/ r.age >= Baseline

\* The picture is taken, then evaluated, which takes time: its result, or the last
\* one again.
Evaluated ==
  IF shot = Nothing THEN UNCHANGED <<detector, result>>
  ELSE \E f \in Filtered(detector) :
         /\ detector' = [detector EXCEPT !.filter = f]
         /\ result' = [taken |-> TRUE, person |-> f.present, age |-> shot]

\* The rest of a pass, with a second reading of the clock: the light, and a VIS
\* frame that tells the last result.  Then the first half of the next pass, with
\* the lines that wait and the picture if one is due.
NextPass ==
  /\ pass.alive
  /\ Evaluated
  /\ LET light == StatusLight(cam, result'.person)
     IN lamp' = [light |-> light, age |-> IF light = "green" THEN cam.age ELSE 0]
  /\ cam' = Heard /\ wire' = <<>>
  /\ shot' = IF DetectionDue(cam', result') THEN 0 ELSE Nothing
  /\ pass' = [pass EXCEPT !.lasted = 0]
  /\ UNCHANGED <<esp, restarts>>

\* An exception in the camera or the detector: the lights go off, no VIS follows.
Fatal ==
  /\ pass.alive /\ restarts < MaxRestarts
  /\ pass' = [alive |-> FALSE, lasted |-> 0] /\ lamp' = Dark
  /\ cam' = BootedControl /\ detector' = [detector EXCEPT !.filter = EmptyFilter]
  /\ result' = NoResult /\ shot' = Nothing /\ wire' = <<>>
  /\ UNCHANGED <<esp, restarts>>

\* A dead camera is switched on again, with nothing of its earlier life.
CameraRestart ==
  /\ ~pass.alive /\ restarts' = restarts + 1
  /\ pass' = [alive |-> TRUE, lasted |-> 0]
  /\ shot' = 0 /\ wire' = <<>>
  /\ UNCHANGED <<esp, cam, detector, result, lamp>>

\* A unit of time passes.
Wait ==
  /\ esp.since < Slowest /\ pass.lasted < MaxPass
  /\ esp' = [esp EXCEPT !.since = @ + 1]
  /\ wire' = [i \in DOMAIN wire |-> IF wire[i].bad THEN Bad ELSE [wire[i] EXCEPT !.age = Aged(@)]]
  /\ pass' = IF ~pass.alive THEN pass ELSE [pass EXCEPT !.lasted = @ + 1]
  /\ cam' = [cam EXCEPT !.heard = AtMost(@ + 1, Timeout + 1),
                        !.age = IF cam.command = Green THEN Aged(@) ELSE 0]
  /\ result' = [result EXCEPT !.age = IF result.taken THEN AtMost(@ + 1, Baseline + MaxPass) ELSE 0]
  /\ shot' = IF shot = Nothing THEN Nothing ELSE Aged(shot)
  /\ lamp' = [lamp EXCEPT !.age = IF lamp.light = "green" THEN Aged(@) ELSE 0]
  /\ UNCHANGED <<detector, restarts>>

CameraNext ==
  \/ Wait
  \/ \E command \in {Watch, Alert, Green} : ControlSent(command)
  \/ ControlCutOff
  \/ EspRestart
  \/ NextPass
  \/ Fatal
  \/ CameraRestart

CameraSpec == CameraInit /\ [][CameraNext]_cameraVars

-----------------------------------------------------------------------------
(* Properties *)

\* While the camera shows green, the ESP32 authorized it at most the timeout and
\* two passes ago: in the receive buffer, in the camera's trust, and on the light.
LampIsBacked == lamp.age <= Timeout + 2 * MaxPass

\* A camera that heard an earlier life of the ESP32 refuses the small numbers of
\* the next one only until its own timeout: refused frames do not prolong it.
RestartIsHeard == cam.deaf <= Timeout \div Interval + 1

\* The two together: the camera neither keeps an old command nor misses new ones.
CommandsAreCurrent == LampIsBacked /\ RestartIsHeard

\* What a VIS frame tells was really seen lately, also when the camera repeats an
\* old result: a frame that is fresh for the ESP32 is not evidence of an old scene.
PictureIsRecent ==
  [][result'.age < Baseline + MaxPass \/ ~NextPass]_cameraVars
=============================================================================
