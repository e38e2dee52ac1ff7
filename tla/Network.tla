------------------------------ MODULE Network ------------------------------
(***************************************************************************)
(* The WebSocket connections, as the code uses the websockets, uvicorn and *)
(* starlette libraries.  A frame is handed to the transport before send    *)
(* can suspend, so frames of one connection arrive in the order sent.  A   *)
(* connection is                                                           *)
(*   "free"    not opened yet,                                             *)
(*   "open"    usable from both ends,                                      *)
(*   "lost"    gone, but the coordinator's library has not noticed: what   *)
(*             it sends succeeds and vanishes,                             *)
(*   "closed"  known to be gone: the coordinator's sends raise, and its    *)
(*             receive raises once the frames that had arrived are read.   *)
(***************************************************************************)
EXTENDS ClusterTypes

VARIABLES
  link,      (* state of each connection                                   *)
  toCoord,   (* frames in flight or buffered, worker to coordinator        *)
  toWorker   (* frames in flight or buffered, coordinator to worker        *)

netVars == <<link, toCoord, toWorker>>

RegisterFrame == [type |-> "REGISTER"]
ResultFrame(t, s) == [type |-> "TASK_RESULT", task |-> t, status |-> s]
AckFrame == [type |-> "REGISTER_ACK"]
AssignFrame(t) == [type |-> "TASK_ASSIGN", task |-> t]

Outcomes == {"completed", "failed"}

CoordFrames ==
  {RegisterFrame} \cup [type: {"TASK_RESULT"}, task: TaskIds, status: Outcomes]
WorkerFrames == {AckFrame} \cup [type: {"TASK_ASSIGN"}, task: TaskIds]

NetTypeOK ==
  /\ link \in [Conns -> {"free", "open", "lost", "closed"}]
  /\ toCoord \in [Conns -> Seq(CoordFrames)]
  /\ toWorker \in [Conns -> Seq(WorkerFrames)]

NetInit ==
  /\ link = [c \in Conns |-> "free"]
  /\ toCoord = [c \in Conns |-> << >>]
  /\ toWorker = [c \in Conns |-> << >>]

\* The frames to workers after the coordinator sends f on connection c.
Delivering(c, f) ==
  IF link[c] = "open" THEN [toWorker EXCEPT ![c] = Append(@, f)] ELSE toWorker

\* A connection drops.  Of the frames under way a prefix has arrived, on
\* either side; the rest is lost.
LoseConnection(c) ==
  /\ link[c] = "open"
  /\ link' = [link EXCEPT ![c] = "lost"]
  /\ \E i \in 0 .. Len(toCoord[c]) :
       toCoord' = [toCoord EXCEPT ![c] = SubSeq(@, 1, i)]
  /\ \E i \in 0 .. Len(toWorker[c]) :
       toWorker' = [toWorker EXCEPT ![c] = SubSeq(@, 1, i)]

\* The coordinator's library learns of it: a close frame, a reset, or no
\* answer to its keepalive pings.
NoticeLoss(c) ==
  /\ link[c] = "lost"
  /\ link' = [link EXCEPT ![c] = "closed"]
  /\ UNCHANGED <<toCoord, toWorker>>
=============================================================================
