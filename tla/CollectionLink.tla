--------------------------- MODULE CollectionLink ---------------------------
(***************************************************************************)
(* The collection session as the ESP32 and the server share it             *)
(* (firmware/esp32/src/network_uplink.cpp, model_control.cpp).             *)
(*                                                                         *)
(* The touch screen runs on one core and only sets requests under          *)
(* simulation_mux_; the network task on the other core takes one request   *)
(* at a time and makes its HTTP call without the lock, so a press can come *)
(* between any two critical sections of the task.  A call can fail before  *)
(* the server saw it, after the server acted on it, or while it is still   *)
(* on its way; the device can lose Wi-Fi or restart at any moment, and an  *)
(* operator can open and complete sessions at the console.  The server     *)
(* keeps the promises of SessionService; session ids are never used twice. *)
(***************************************************************************)
EXTENDS Naturals, FiniteSets

CONSTANTS
  MaxSessions,  \* bound: sessions ever started
  NoId

ASSUME LinkAssumption == MaxSessions \in Nat /\ NoId \notin Nat

Sids == 1 .. MaxSessions
States == {"idle", "starting", "active", "stopping", "stopped", "startFailed", "stopFailed"}
Calls == {"recover", "start", "conflict", "stop", "post"}

VARIABLES
  dev,        \* simulation_.state
  sid,        \* simulation_.session_id, NoId when it is empty
  startReq,   \* simulation_start_requested_
  stopReq,    \* simulation_stop_requested_
  recReq,     \* simulation_recovery_requested_
  recDue,     \* next_simulation_recovery_ms has passed
  connected,  \* was_connected
  pc,         \* where the network task is: "loop", in an HTTP call, or between
              \* two critical sections after one
  arg,        \* session id the call carries
  wire,       \* the call: "none", "sent" or "answered"
  answer,     \* [code, sid]; code 0 is a transport error
  srv,        \* srv[s]: state of session s at the server
  stray,      \* a start or stop the device gave up on and the server has yet to see
  pending,    \* have_pending: a telemetry frame waits for upload
  storedIn    \* the session that already holds that frame's seq

ui == <<dev, sid, startReq, stopReq>>
call == <<pc, arg, wire, answer>>
server == <<srv, stray>>
frame == <<pending, storedIn>>
linkVars == <<dev, sid, startReq, stopReq, recReq, recDue, connected, pc, arg, wire, answer,
              srv, stray, pending, storedIn>>

Open == dev \in {"active", "stopping", "stopFailed"}
CanStart == dev \in {"idle", "stopped", "startFailed"}
CanStop == dev \in {"active", "stopFailed"}

NoAnswer == [code |-> 0, sid |-> NoId]

\* begin(): an idle session state and a recovery request.
Boot ==
  /\ dev' = "idle" /\ sid' = NoId
  /\ startReq' = FALSE /\ stopReq' = FALSE
  /\ recReq' = TRUE /\ recDue' = TRUE
  /\ connected' = FALSE
  /\ pc' = "loop" /\ arg' = NoId /\ wire' = "none" /\ answer' = NoAnswer
  /\ pending' = FALSE /\ storedIn' = NoId

LinkInit ==
  /\ dev = "idle" /\ sid = NoId
  /\ startReq = FALSE /\ stopReq = FALSE
  /\ recReq = TRUE /\ recDue = TRUE
  /\ connected = FALSE
  /\ pc = "loop" /\ arg = NoId /\ wire = "none" /\ answer = NoAnswer
  /\ srv = [s \in Sids |-> "absent"] /\ stray = NoId
  /\ pending = FALSE /\ storedIn = NoId

-----------------------------------------------------------------------------
(* The touch screen *)

\* requestSimulationStart() from the collection button.
PressStart ==
  /\ ~startReq /\ ~stopReq /\ CanStart
  /\ dev' = "starting" /\ sid' = NoId /\ startReq' = TRUE
  /\ UNCHANGED <<stopReq, recReq, recDue, connected, call, server, frame>>

\* requestSimulationStop() from the confirmed collection button.
PressStop ==
  /\ ~startReq /\ ~stopReq /\ CanStop /\ sid # NoId
  /\ dev' = "stopping" /\ stopReq' = TRUE
  /\ UNCHANGED <<sid, startReq, recReq, recDue, connected, call, server, frame>>

-----------------------------------------------------------------------------
(* The network task between calls *)

\* Wi-Fi came up: recovery is due at once, and asked for unless a session is
\* open.
Reconnect ==
  /\ pc = "loop" /\ ~connected
  /\ connected' = TRUE /\ recDue' = TRUE
  /\ recReq' = (recReq \/ ~Open)
  /\ UNCHANGED <<ui, call, server, frame>>

Disconnect ==
  /\ pc = "loop" /\ connected
  /\ connected' = FALSE
  /\ UNCHANGED <<ui, recReq, recDue, call, server, frame>>

\* The backoff of a failed recovery ends.
RecoveryDue ==
  /\ ~recDue /\ recDue' = TRUE
  /\ UNCHANGED <<ui, recReq, connected, call, server, frame>>

\* The queue is drained: the newest frame replaces the one that waits.
NewFrame ==
  /\ pc = "loop"
  /\ ~pending \/ storedIn # NoId
  /\ pending' = TRUE /\ storedIn' = NoId
  /\ UNCHANGED <<ui, recReq, recDue, connected, call, server>>

Send(what, a) ==
  /\ pc = "loop" /\ connected
  /\ pc' = what /\ arg' = a /\ wire' = "sent"
  /\ UNCHANGED <<dev, sid, recDue, connected, answer, server, frame>>

SendRecover ==
  /\ recReq /\ recDue
  /\ Send("recover", NoId)
  /\ recReq' = FALSE
  /\ UNCHANGED <<startReq, stopReq>>

SendStop ==
  /\ ~(recReq /\ recDue) /\ stopReq
  /\ Send("stop", sid)
  /\ stopReq' = FALSE
  /\ UNCHANGED <<startReq, recReq>>

SendStart ==
  /\ ~(recReq /\ recDue) /\ ~stopReq /\ startReq
  /\ Send("start", NoId)
  /\ startReq' = FALSE
  /\ UNCHANGED <<stopReq, recReq>>

\* postTelemetry() names the session when one is open.
SendTelemetry ==
  /\ pending
  /\ Send("post", IF Open THEN sid ELSE NoId)
  /\ UNCHANGED <<startReq, stopReq, recReq>>

-----------------------------------------------------------------------------
(* The server and the network *)

Active == {s \in Sids : srv[s] = "active"}
Reply(code, s) == wire' = "answered" /\ answer' = [code |-> code, sid |-> s]

\* The next session id; ids are never used twice.
StartAtServer(s) ==
  /\ Active = {}
  /\ srv[s] = "absent" /\ \A t \in Sids : t < s => srv[t] # "absent"
  /\ srv' = [srv EXCEPT ![s] = "active"]

CompleteAtServer(s) ==
  /\ s \in Active
  /\ srv' = [srv EXCEPT ![s] = "completed"]

\* A start is refused while a session is active, and when the device has no
\* scenario.
HandleStart ==
  /\ pc = "start" /\ wire = "sent"
  /\ \/ \E s \in Sids : StartAtServer(s) /\ Reply(200, s)
     \/ Reply(409, NoId) /\ UNCHANGED srv
  /\ UNCHANGED <<ui, recReq, recDue, connected, pc, arg, stray, frame>>

HandleActive ==
  /\ pc \in {"recover", "conflict"} /\ wire = "sent"
  /\ IF Active = {} THEN Reply(404, NoId) ELSE \E s \in Active : Reply(200, s)
  /\ UNCHANGED <<ui, recReq, recDue, connected, pc, arg, server, frame>>

HandleStop ==
  /\ pc = "stop" /\ wire = "sent"
  /\ IF arg \in Active
       THEN CompleteAtServer(arg) /\ Reply(200, arg)
       ELSE Reply(409, NoId) /\ UNCHANGED srv
  /\ UNCHANGED <<ui, recReq, recDue, connected, pc, arg, stray, frame>>

\* A frame is refused by a completed session and by one that has its seq.
HandleTelemetry ==
  /\ pc = "post" /\ wire = "sent"
  /\ IF arg = NoId THEN Reply(200, NoId) /\ UNCHANGED storedIn
     ELSE IF arg \in Active /\ storedIn # arg
            THEN Reply(200, NoId) /\ storedIn' = arg
            ELSE Reply(409, NoId) /\ UNCHANGED storedIn
  /\ UNCHANGED <<ui, recReq, recDue, connected, pc, arg, server, pending>>

\* A transport error or timeout; a start or stop the server has not seen yet
\* is lost or arrives later.
TimeOut ==
  /\ wire \in {"sent", "answered"}
  /\ answer # NoAnswer \/ wire = "sent"
  /\ wire' = "answered" /\ answer' = NoAnswer
  /\ \/ UNCHANGED stray
     \/ /\ wire = "sent" /\ pc \in {"start", "stop"} /\ stray = NoId
        /\ stray' = [op |-> pc, sid |-> arg]
  /\ UNCHANGED <<ui, recReq, recDue, connected, pc, arg, srv, frame>>

StrayArrives ==
  /\ stray # NoId
  /\ stray' = NoId
  /\ \/ stray.op = "start" /\ \E s \in Sids : StartAtServer(s)
     \/ stray.op = "stop" /\ CompleteAtServer(stray.sid)
     \/ UNCHANGED srv
  /\ UNCHANGED <<ui, recReq, recDue, connected, call, frame>>

\* An operator opens or completes a session at the console.
Operator ==
  /\ \E s \in Sids : StartAtServer(s) \/ CompleteAtServer(s)
  /\ UNCHANGED <<ui, recReq, recDue, connected, call, stray, frame>>

-----------------------------------------------------------------------------
(* The network task after a call *)

Answered(what) == pc = what /\ wire = "answered"
Code == answer.code
Return == pc' = "loop" /\ arg' = NoId /\ wire' = "none" /\ answer' = NoAnswer
Continue(where) == pc' = where /\ arg' = NoId /\ wire' = "none" /\ UNCHANGED answer
SetState(s) == dev' = s /\ UNCHANGED <<sid, startReq, stopReq>>

\* Recovery found a session: first the requests are dropped ...
RecoverOk ==
  /\ Answered("recover") /\ Code = 200
  /\ startReq' = FALSE /\ stopReq' = FALSE
  /\ Continue("recovered")
  /\ UNCHANGED <<dev, sid, recReq, recDue, connected, server, frame>>

\* ... then, in another critical section, the session is published.
RecoverPublish ==
  /\ pc = "recovered"
  /\ dev' = "active" /\ sid' = answer.sid
  /\ Return
  /\ UNCHANGED <<startReq, stopReq, recReq, recDue, connected, server, frame>>

\* Recovery found nothing: the state is read ...
RecoverNone ==
  /\ Answered("recover") /\ Code = 404
  /\ IF dev = "idle" THEN Continue("noActive") ELSE Return
  /\ UNCHANGED <<ui, recReq, recDue, connected, server, frame>>

\* ... and an idle state written back later.
RecoverIdle ==
  /\ pc = "noActive"
  /\ SetState("idle")
  /\ Return
  /\ UNCHANGED <<recReq, recDue, connected, server, frame>>

\* Mutant of RecoverRetry: a failed recovery is not asked for again.
RecoverGivesUp ==
  /\ Answered("recover") /\ Code \notin {200, 404}
  /\ Return
  /\ UNCHANGED <<ui, recReq, recDue, connected, server, frame>>

\* Recovery failed: ask again after a backoff.
RecoverRetry ==
  /\ Answered("recover") /\ Code \notin {200, 404}
  /\ recReq' = TRUE /\ recDue' = FALSE
  /\ Return
  /\ UNCHANGED <<ui, connected, server, frame>>

\* The session is published by a start, or by the recovery after its conflict.
StartPublish ==
  /\ Answered("start") \/ Answered("conflict")
  /\ Code = 200
  /\ dev' = "active" /\ sid' = answer.sid
  /\ Continue(IF pc = "start" THEN "started" ELSE "conflictRecovered")
  /\ UNCHANGED <<startReq, stopReq, recReq, recDue, connected, server, frame>>

\* A recovery request is dropped; a start also drops the frame that waits.
StartFinish ==
  /\ pc \in {"started", "conflictRecovered"}
  /\ recReq' = FALSE
  /\ IF pc = "started" THEN pending' = FALSE /\ storedIn' = NoId ELSE UNCHANGED frame
  /\ Return
  /\ UNCHANGED <<ui, recDue, connected, server>>

\* 409: another session may be active; ask for it.
StartConflict ==
  /\ Answered("start") /\ Code = 409
  /\ pc' = "conflict" /\ wire' = "sent" /\ answer' = NoAnswer
  /\ UNCHANGED <<ui, recReq, recDue, connected, arg, server, frame>>

StartFail ==
  /\ Answered("start") /\ Code \notin {200, 409}
  /\ SetState("startFailed")
  /\ Return
  /\ UNCHANGED <<recReq, recDue, connected, server, frame>>

\* Mutant of ConflictFail: the display is not told.
ConflictFailSilent ==
  /\ Answered("conflict") /\ Code # 200
  /\ IF Code = 404
       THEN Return /\ UNCHANGED recDue
       ELSE Continue("conflictUnknown") /\ recDue' = FALSE
  /\ UNCHANGED <<ui, recReq, connected, server, frame>>

\* No session is active after all, or the query failed as well: the start has
\* failed.
ConflictFail ==
  /\ Answered("conflict") /\ Code # 200
  /\ SetState("startFailed")
  /\ IF Code = 404
       THEN Return /\ UNCHANGED recDue
       ELSE Continue("conflictUnknown") /\ recDue' = FALSE
  /\ UNCHANGED <<recReq, connected, server, frame>>

\* The server's session is unknown: recover it later.
ConflictRetry ==
  /\ pc = "conflictUnknown"
  /\ recReq' = TRUE
  /\ Return
  /\ UNCHANGED <<ui, recDue, connected, server, frame>>

\* Mutant of StopDone: a stop without an answer counts as done.
StopDoneUnanswered ==
  /\ Answered("stop")
  /\ SetState(IF Code \in {0, 200} THEN "stopped" ELSE "stopFailed")
  /\ IF Code = 200 THEN pending' = FALSE /\ storedIn' = NoId ELSE UNCHANGED frame
  /\ Return
  /\ UNCHANGED <<recReq, recDue, connected, server>>

\* Only a 2xx stops; it also drops the frame that waits.
StopDone ==
  /\ Answered("stop")
  /\ SetState(IF Code = 200 THEN "stopped" ELSE "stopFailed")
  /\ IF Code = 200 THEN pending' = FALSE /\ storedIn' = NoId ELSE UNCHANGED frame
  /\ Return
  /\ UNCHANGED <<recReq, recDue, connected, server>>

\* An accepted frame is done; another waits for its retry or a newer frame.
TelemetryDone ==
  /\ Answered("post")
  /\ IF Code = 200 THEN pending' = FALSE /\ storedIn' = NoId ELSE UNCHANGED frame
  /\ Return
  /\ UNCHANGED <<ui, recReq, recDue, connected, server>>

\* A restart of the device; a call it had made may still arrive.
Reboot ==
  /\ Boot
  /\ \/ UNCHANGED stray
     \/ /\ wire = "sent" /\ pc \in {"start", "stop"} /\ stray = NoId
        /\ stray' = [op |-> pc, sid |-> arg]
  /\ UNCHANGED srv

Loop == SendRecover \/ SendStop \/ SendStart \/ SendTelemetry
Handle == HandleStart \/ HandleActive \/ HandleStop \/ HandleTelemetry
After ==
  \/ RecoverOk \/ RecoverPublish \/ RecoverNone \/ RecoverIdle \/ RecoverRetry
  \/ StartPublish \/ StartFinish \/ StartConflict \/ StartFail
  \/ ConflictFail \/ ConflictRetry \/ StopDone \/ TelemetryDone

LinkNext ==
  \/ PressStart \/ PressStop
  \/ Reconnect \/ Disconnect \/ RecoveryDue \/ NewFrame
  \/ Loop \/ Handle \/ After
  \/ TimeOut \/ StrayArrives \/ Operator \/ Reboot

LinkSpec == LinkInit /\ [][LinkNext]_linkVars

\* The task keeps running, Wi-Fi comes back, backoffs end and calls time out;
\* each iteration of the task's loop looks at every request, and a server that
\* is asked again and again answers some day, while the device is up.
Fairness ==
  /\ WF_linkVars(Reconnect) /\ WF_linkVars(RecoveryDue) /\ WF_linkVars(TimeOut) /\ WF_linkVars(After)
  /\ SF_linkVars(SendRecover) /\ SF_linkVars(SendStop) /\ SF_linkVars(SendStart)
  /\ SF_linkVars(HandleActive) /\ SF_linkVars(RecoverOk) /\ SF_linkVars(RecoverPublish)
  /\ SF_linkVars(StartPublish)
FairSpec == LinkSpec /\ Fairness

-----------------------------------------------------------------------------
(* Properties *)

Flags ==
  /\ startReq \in BOOLEAN /\ stopReq \in BOOLEAN /\ recReq \in BOOLEAN
  /\ recDue \in BOOLEAN /\ connected \in BOOLEAN /\ pending \in BOOLEAN

\* The variables have their types, a call is on the wire exactly while the task
\* waits in it, and a stop names a session.
LinkTypeOK ==
  /\ dev \in States
  /\ sid \in Sids \cup {NoId}
  /\ Flags
  /\ pc \in Calls \cup {"loop", "recovered", "noActive", "started",
                        "conflictRecovered", "conflictUnknown"}
  /\ arg \in Sids \cup {NoId} /\ (pc = "stop" => arg # NoId)
  /\ wire \in {"none", "sent", "answered"} /\ (wire = "none" <=> pc \notin Calls)
  /\ answer \in [code : {0, 200, 404, 409}, sid : Sids \cup {NoId}]
  /\ srv \in [Sids -> {"absent", "active", "completed"}]
  /\ stray \in {NoId} \cup [op : {"start", "stop"}, sid : Sids \cup {NoId}]
  /\ storedIn \in Sids \cup {NoId}

\* A session is about to take the place of the one the device shows: a start
\* waits or is under way, or a recovery is about to publish what it found.
Replaced == startReq \/ pc \in {"start", "conflict", "recovered"}

\* An open session has the id of a session the server really started.  Only
\* STOP FAILED can be left without one, by a START pressed while the stop was
\* under way, and then not for long.
OpenHasServerId ==
  Open => \/ sid # NoId /\ srv[sid] # "absent"
          \/ dev = "stopFailed" /\ sid = NoId /\ Replaced

\* STOPPED on the display means the server has completed that session, however
\* many answers were lost before; its id is gone only under a START pressed
\* meanwhile.
StoppedIsCompleted ==
  dev = "stopped" => IF sid = NoId THEN Replaced ELSE srv[sid] = "completed"

\* What the display says of the session is true of the server, through presses
\* between any two critical sections of the task.
DisplayIsTrue == OpenHasServerId /\ StoppedIsCompleted

\* A request of the user is never left without anybody working on it: the flag
\* stands, or the task is in the call that answers it, or about to publish the
\* session it found.
RequestIsServed ==
  /\ dev = "starting" => Replaced
  /\ dev = "stopping" => stopReq \/ pc \in {"stop", "recovered"}

\* A failed stop leaves the session open under its id, to be named by the frames
\* and by the next stop (firmware/esp32/README.md:222 "若停止失败，页面显示 HTTP
\* 错误并保持会话为 open，继续用原 session id 上传", if a stop fails the page shows
\* the HTTP error, keeps the session open and goes on uploading with the original
\* session id).
StopFailedKeepsId == dev = "stopFailed" => sid # NoId

\* STARTING and STOPPING end, whatever the user presses meanwhile.
Transient == dev \in {"starting", "stopping"}
TransientEnds == Transient ~> ~Transient

\* After a restart, while a session stays active at the server, the device ends
\* up in an open session (simulation_store.py:702 "so a rebooted ESP can resume
\* safely").  It need not be that one: an operator can replace the session while
\* the answer is on its way.
ResumesAfterReboot ==
  \A s \in Sids : dev = "idle" /\ recReq /\ srv[s] = "active" ~> Open \/ srv[s] # "active"

\* A device whose Wi-Fi keeps coming back finds out that its session is over
\* (overview of 2026-08-14, line 242: "ESP32 重启或重连后会查询 active session
\* 并恢复", after a restart or a reconnect the ESP32 queries the active session
\* and recovers).
Zombie(s) == Open /\ sid = s /\ srv[s] = "completed"
ReconnectFindsOut == []<>~connected => \A s \in Sids : Zombie(s) ~> ~Zombie(s)
=============================================================================
