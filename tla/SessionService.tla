--------------------------- MODULE SessionService ---------------------------
(***************************************************************************)
(* What the collection-session service promises its clients, operation by  *)
(* operation and with nothing between them: a device has one open session  *)
(* at a time, samples enter only an open session of their device and each  *)
(* seq once, and what a completed session holds never changes until it is  *)
(* deleted whole.                                                          *)
(***************************************************************************)
CONSTANTS Devices, Sessions, Seqs, None

VARIABLES
  owner,    \* owner[s]: the device of session s, None when there is no such row
  status,   \* status[s] \in {"absent", "active", "completed"}
  data      \* data[s]: the seqs collected in s

svars == <<owner, status, data>>

SessionInit ==
  /\ owner = [s \in Sessions |-> None]
  /\ status = [s \in Sessions |-> "absent"]
  /\ data = [s \in Sessions |-> {}]

Open(d) == {s \in Sessions : owner[s] = d /\ status[s] = "active"}

StartSession(s, d) ==
  /\ status[s] = "absent"
  /\ Open(d) = {}
  /\ owner' = [owner EXCEPT ![s] = d]
  /\ status' = [status EXCEPT ![s] = "active"]
  /\ UNCHANGED data

AppendSample(s, d, q) ==
  /\ s \in Open(d)
  /\ q \notin data[s]
  /\ data' = [data EXCEPT ![s] = @ \cup {q}]
  /\ UNCHANGED <<owner, status>>

CompleteSession(s, d) ==
  /\ s \in Open(d)
  /\ status' = [status EXCEPT ![s] = "completed"]
  /\ UNCHANGED <<owner, data>>

DeleteSession(s) ==
  /\ status[s] = "completed"
  /\ owner' = [owner EXCEPT ![s] = None]
  /\ status' = [status EXCEPT ![s] = "absent"]
  /\ data' = [data EXCEPT ![s] = {}]

SessionNext ==
  \E s \in Sessions :
    \/ DeleteSession(s)
    \/ \E d \in Devices :
         \/ StartSession(s, d)
         \/ CompleteSession(s, d)
         \/ \E q \in Seqs : AppendSample(s, d, q)

SessionSpec == SessionInit /\ [][SessionNext]_svars
=============================================================================
