-------------------------- MODULE UltrasonicDriver --------------------------
(* The driver of the HC-SR04 echo sensor, ultrasonic_sensor.cpp: poll(), which *)
(* the sensing loop calls in every pass, against the interrupt of the ECHO     *)
(* line, and against a sensor that answers late, for too long or not at all.   *)
(*                                                                             *)
(* Milliseconds and microseconds are one tick.  A stamp is kept as its age and *)
(* a deadline as the time left, both against the true time; a poll works with  *)
(* the clock it read when it began, poll.lag ago.  The interrupt preempts the  *)
(* poll on the core they share: an edge and its handler are one step.          *)
EXTENDS Integers

CONSTANTS
  EchoTimeout,    \* echo_timeout_us
  PingInterval,   \* ping_interval_ms
  QuietTime,      \* echo_quiet_ms
  RiseDelay,      \* the longest the sensor takes from the trigger to its echo
  Reach,          \* widths from 1 to Reach are distances in range
  Longest,        \* widths from here on are told apart no more
  MaxLag          \* the longest a poll takes

ASSUME DriverAssumption ==
  /\ {EchoTimeout, PingInterval, QuietTime, RiseDelay, Reach, Longest} \subseteq Nat \ {0}
  /\ MaxLag \in Nat
  /\ EchoTimeout < PingInterval         \* configurationValid()
  /\ RiseDelay < PingInterval /\ Reach < Longest

VARIABLES
  capture,    \* what the interrupt shares: phase, rise (age), width; unread counts
              \* captured_sequence_ from consumed_capture_sequence_
  driver,     \* the members only poll() uses
  poll,       \* where poll() is, and what it has read
  sensor,     \* the lines, and the trigger the sensor has yet to answer
  truth       \* history: of the last echo, its width, whether it answered the
              \* latest trigger, and how many polls began since it ended

driverVars == <<capture, driver, poll, sensor, truth>>

Unset == -1                          \* no window, no trigger to be answered

Older1(age, cap) == IF age = Unset \/ age >= cap THEN age ELSE age + 1

\* The sensor may still be answering the trigger of an earlier boot.
DriverInit ==
  /\ capture = [phase |-> "idle", rise |-> 0, width |-> 0, unread |-> 0]
  /\ driver = [attached |-> FALSE, recovering |-> FALSE, fault |-> FALSE,
               quiet |-> Unset, left |-> 0, ping |-> 0, width |-> 0]
  /\ poll = [at |-> "idle", lag |-> 0, seen |-> 0, event |-> "none"]
  /\ sensor \in [line : BOOLEAN, high : {0}, due : {Unset} \cup 0..RiseDelay,
                 latest : {FALSE}, held : BOOLEAN]
  /\ sensor.line => sensor.due = Unset
  /\ truth = [width |-> 0, latest |-> FALSE, polls |-> 2]

-----------------------------------------------------------------------------
(* The ECHO line and its interrupt *)

\* handleEchoInterrupt, for the level after the edge.
Handle(level, c) ==
  CASE level /\ c.phase = "rise" -> [c EXCEPT !.phase = "fall", !.rise = 0]
    [] ~level /\ c.phase = "fall" ->
         [c EXCEPT !.phase = "idle", !.width = c.rise, !.unread = @ + 1]
    [] OTHER -> c

EchoInterrupt(level) ==
  capture' = IF driver.attached THEN Handle(level, capture) ELSE capture

EchoRises ==
  /\ sensor.due # Unset /\ ~sensor.line
  /\ sensor' = [sensor EXCEPT !.line = TRUE, !.high = 0, !.due = Unset]
  /\ EchoInterrupt(TRUE)
  /\ UNCHANGED <<driver, poll, truth>>

EchoFalls ==
  /\ sensor.line
  /\ sensor' = [sensor EXCEPT !.line = FALSE, !.high = 0]
  /\ truth' = [width |-> sensor.high, latest |-> sensor.latest, polls |-> 0]
  /\ EchoInterrupt(FALSE)
  /\ UNCHANGED <<driver, poll>>

\* Another board, or a wiring error, holds TRIG high, or lets go of it.
TriggerHeld ==
  /\ sensor' = [sensor EXCEPT !.held = ~@]
  /\ UNCHANGED <<capture, driver, poll, truth>>

\* A tick of time: the sensor answers within RiseDelay, a poll ends within MaxLag.
TickDriver ==
  /\ sensor.due < RiseDelay \/ sensor.line
  /\ poll.at # "idle" => poll.lag < MaxLag
  /\ poll' = IF poll.at = "idle" THEN poll ELSE [poll EXCEPT !.lag = @ + 1]
  /\ capture' = [capture EXCEPT !.rise = IF capture.phase = "fall" THEN Older1(@, Longest) ELSE @]
  /\ driver' = [driver EXCEPT !.quiet = Older1(@, QuietTime + MaxLag),
                              !.ping = Older1(@, EchoTimeout + MaxLag),
                              !.left = IF @ > -MaxLag THEN @ - 1 ELSE @]
  /\ sensor' = [sensor EXCEPT !.high = IF sensor.line THEN Older1(@, Longest) ELSE @,
                              !.due = IF sensor.line THEN @ ELSE Older1(@, RiseDelay)]
  /\ UNCHANGED truth

-----------------------------------------------------------------------------
(* poll() *)

\* Stamps and deadlines made from the clock of this poll.
Now == poll.lag
AfterInterval == PingInterval - poll.lag
Deadline == driver.left + poll.lag <= 0

Return(event) == poll' = [at |-> "idle", lag |-> 0, seen |-> 0, event |-> event]

\* Both lines go back to inputs, the interrupt is taken off, and only reset(),
\* which nothing calls after begin(), clears the fault.
LatchFault ==
  /\ driver' = [driver EXCEPT !.fault = TRUE, !.attached = FALSE,
                              !.recovering = FALSE, !.quiet = Unset]
  /\ capture' = [capture EXCEPT !.phase = "idle"]
  /\ Return("fault")

\* Mutant of StartRecovery: an answer that timed out is retried at once.
StartRecoveryAtOnce(event) ==
  /\ capture' = [capture EXCEPT !.phase = "idle"]
  /\ driver' = [driver EXCEPT !.attached = TRUE, !.left = -poll.lag]
  /\ Return(event)

\* The poll that finds TRIG held while it recovers latches the fault instead.
StartRecovery(event) ==
  IF sensor.held THEN LatchFault
  ELSE /\ capture' = [capture EXCEPT !.phase = "idle"]
       /\ driver' = [driver EXCEPT !.attached = TRUE, !.recovering = TRUE, !.left = AfterInterval]
       /\ Return(event)

\* The poll reads the clock, and copies the capture when there is one to copy.
PollBegins ==
  /\ poll.at = "idle"
  /\ poll' = [at |-> IF driver.attached THEN "copy" ELSE "arm", lag |-> 0, seen |-> 0,
              event |-> "none"]
  /\ truth' = [truth EXCEPT !.polls = IF @ < 2 THEN @ + 1 ELSE @]
  /\ UNCHANGED <<capture, driver, sensor>>

PollWithFault ==
  /\ poll.at \in {"arm", "copy"}
  /\ driver.fault \/ sensor.held
  /\ LatchFault
  /\ UNCHANGED <<sensor, truth>>

\* Before it is armed: TRIG is claimed when both lines are low, which begins the
\* window; ECHO must be found low in every poll for QuietTime.
PollUnarmed ==
  /\ poll.at = "arm" /\ ~driver.fault /\ ~sensor.held
  /\ UNCHANGED <<capture, sensor, truth>>
  /\ \/ /\ sensor.line
        /\ driver' = [driver EXCEPT !.quiet = Unset]
        /\ Return("none")
     \/ /\ ~sensor.line /\ driver.quiet = Unset
        /\ driver' = [driver EXCEPT !.quiet = Now]
        /\ Return("none")
     \/ /\ ~sensor.line /\ driver.quiet # Unset
        /\ UNCHANGED driver
        /\ IF driver.quiet - poll.lag < QuietTime THEN Return("none")
           ELSE poll' = [poll EXCEPT !.at = "attach"]

\* ECHO may have risen between its last reading and the attachment.
ArmEchoCapture ==
  /\ poll.at = "attach"
  /\ IF sensor.held THEN LatchFault
     ELSE IF sensor.line THEN StartRecovery("timeout")
     ELSE /\ driver' = [driver EXCEPT !.attached = TRUE, !.left = AfterInterval]
          /\ capture' = [capture EXCEPT !.phase = "idle"]
          /\ Return("armed")
  /\ UNCHANGED <<sensor, truth>>

CopyCapture ==
  /\ poll.at = "copy" /\ ~driver.fault /\ ~sensor.held
  /\ poll' = [poll EXCEPT !.at = IF capture.unread > 0 THEN "consume"
                                 ELSE IF driver.recovering THEN "recover"
                                 ELSE IF capture.phase # "idle" THEN "wait" ELSE "ping",
                          !.seen = capture.unread]
  /\ driver' = [driver EXCEPT !.width = IF capture.unread > 0 THEN capture.width ELSE @]
  /\ UNCHANGED <<capture, sensor, truth>>

ConsumeCapture ==
  /\ poll.at = "consume"
  /\ capture' = [capture EXCEPT !.unread = @ - poll.seen]
  /\ driver' = [driver EXCEPT !.recovering = FALSE, !.left = AfterInterval]
  /\ Return(IF driver.width \in 1..Reach THEN "sample" ELSE "outOfRange")
  /\ UNCHANGED <<sensor, truth>>

Recover ==
  /\ poll.at = "recover"
  /\ driver' = IF sensor.line THEN driver
               ELSE [driver EXCEPT !.recovering = FALSE, !.left = AfterInterval]
  /\ Return(IF sensor.line THEN "none" ELSE "recovered")
  /\ UNCHANGED <<capture, sensor, truth>>

\* The echo may rise or end between the copy and the start of the recovery.
WaitForEcho ==
  /\ poll.at = "wait"
  /\ IF driver.ping - poll.lag >= EchoTimeout THEN StartRecovery("timeout")
     ELSE Return("none") /\ UNCHANGED <<capture, driver>>
  /\ UNCHANGED <<sensor, truth>>

\* A ping into a raised ECHO would take its end for an answer.
StartPing ==
  /\ poll.at = "ping"
  /\ IF ~Deadline THEN Return("none") /\ UNCHANGED <<capture, driver>>
     ELSE IF sensor.held THEN LatchFault
     ELSE IF sensor.line THEN StartRecovery("timeout")
     ELSE /\ capture' = [capture EXCEPT !.phase = "rise"]
          /\ driver' = [driver EXCEPT !.ping = Now]
          /\ poll' = [poll EXCEPT !.at = "trigger"]
  /\ UNCHANGED <<sensor, truth>>

\* The trigger pulse: a sensor that is busy does not hear it, and any may fail to.
SendTrigger ==
  /\ poll.at = "trigger"
  /\ IF sensor.line \/ sensor.due # Unset
     THEN sensor' = [sensor EXCEPT !.latest = FALSE]
     ELSE \E due \in {0, Unset} : sensor' = [sensor EXCEPT !.latest = TRUE, !.due = due]
  /\ truth' = [truth EXCEPT !.latest = FALSE]
  /\ IF sensor.held THEN LatchFault ELSE Return("none") /\ UNCHANGED <<capture, driver>>

DriverNext ==
  \/ EchoRises \/ EchoFalls \/ TriggerHeld \/ TickDriver
  \/ PollBegins \/ PollWithFault \/ PollUnarmed \/ ArmEchoCapture
  \/ CopyCapture \/ ConsumeCapture \/ Recover \/ WaitForEcho \/ StartPing \/ SendTrigger

DriverSpec == DriverInit /\ [][DriverNext]_driverVars

-----------------------------------------------------------------------------
(* Properties *)

\* A distance the loop is given is that of the echo of the latest ping, all of
\* it, and that echo ended after the previous poll began: the time of the pass
\* that stamps it is right to within one pass.  A late answer to a ping given up,
\* or to one of an earlier boot, is never measured.
DistanceIsOfThePing ==
  poll.event \in {"sample", "outOfRange"} =>
    truth.latest /\ driver.width = truth.width /\ truth.polls <= 1

\* The sensor is triggered only when it has answered the trigger before, or
\* never will.
PingsAreApart == poll.at = "trigger" => ~sensor.line /\ sensor.due = Unset

\* The two together.
EchoIsOfThePing == DistanceIsOfThePing /\ PingsAreApart
=============================================================================
