--------------------------- MODULE MCDeviceParts ---------------------------
(* The sensing loop of the ESP32, and what it relies on, one part after the   *)
(* other: the numbers of its telemetry frames, which a restart must not use   *)
(* again; the camera, for which control frames are numbered from zero again;  *)
(* the driver of the echo sensor; and the passes of the loop themselves.      *)
EXTENDS PersistentSequence, OpenMvCamera, UltrasonicDriver, SensorRuntime

VARIABLE focus

mcVars == <<vars, cameraVars, driverVars, loopVars, focus>>

\* The detector and the echo lines are left at any of their first states only
\* where they matter.
MCInit ==
  /\ Init /\ CameraInit /\ DriverInit /\ LoopInit
  /\ focus \in {"numbers", "camera", "echo", "loop"}
  /\ focus # "camera" => detector.mode = CHOOSE m \in VisionModes : TRUE
  /\ focus # "echo" => sensor.due = Unset /\ ~sensor.line /\ ~sensor.held

\* A bound: a risk result falls short of safe in one respect at most.
OneDoubt ==
  LET told == risk.snapshot
      safe == told.level = 0
  IN \/ ~told.fetched
     \/ told.model /\ (safe \/ told.clean)
     \/ safe /\ told.clean

MCNext ==
  \/ focus = "numbers" /\ Next /\ UNCHANGED <<cameraVars, driverVars, loopVars, focus>>
  \/ focus = "camera" /\ CameraNext /\ UNCHANGED <<vars, driverVars, loopVars, focus>>
  \/ focus = "echo" /\ DriverNext /\ UNCHANGED <<vars, cameraVars, loopVars, focus>>
  \/ /\ focus = "loop" /\ LoopNext /\ OneDoubt'
     /\ UNCHANGED <<vars, cameraVars, driverVars, focus>>

MCSpec == MCInit /\ [][MCNext]_mcVars
=============================================================================
