----------------------------- MODULE Coordinator -----------------------------
(***************************************************************************)
(* The coordinator process (server.py and scheduler.py): coroutines of one *)
(* asyncio event loop, one per WebSocket connection and one per HTTP       *)
(* request, over the shared task table and registry.                       *)
(*                                                                         *)
(* An action is what a coroutine does between two suspension points.  The  *)
(* locks of JobManager and NodeRegistry are never contended, since nothing *)
(* is awaited under them, so only sending and receiving suspend.  The      *)
(* broadcast to dashboards that ends each handler changes no state of this *)
(* module: it only delays the coroutine's next action.                     *)
(***************************************************************************)
EXTENDS Network, Scheduler, JobManager, NodeRegistry

VARIABLES
  tasks,    (* JobManager._tasks                                           *)
  nodes,    (* NodeRegistry._nodes                                         *)
  pc,       (* where each coroutine is suspended                           *)
  job,      (* the locals of a coroutine suspended in _assignTask          *)
  nodeId    (* the local nodeId of each websocketEndpoint coroutine        *)

coordVars == <<tasks, nodes, pc, job, nodeId>>

\* "recv": waiting for a frame; "ack": sending REGISTER_ACK; the Sending
\* locations: in _assignTask, sending TASK_ASSIGN, on behalf of an HTTP
\* request, handleRegister, handleTaskResult or the finally clause.
Sending == {"request", "register", "result", "finally"}
Locations == {"idle", "recv", "ack", "done"} \cup Sending

Assignment == [task: TaskIds, node: Workers, websocket: Conns]

CoordTypeOK ==
  /\ tasks \in [TaskIds -> Task]
  /\ nodes \in [Workers -> WorkerNode]
  /\ pc \in [Coroutines -> Locations]
  /\ job \in [Coroutines -> Assignment \cup {None}]
  /\ nodeId \in [Conns -> Workers \cup {None}]

CoordInit ==
  /\ tasks = [t \in TaskIds |-> NoTask]
  /\ nodes = [n \in Workers |-> NoNode]
  /\ pc = [h \in Coroutines |-> "idle"]
  /\ job = [h \in Coroutines |-> None]
  /\ nodeId = [c \in Conns |-> None]

-----------------------------------------------------------------------------
(* dispatchPending, started or resumed with task table T and registry N.   *)

\* The next turn of the loop gives task t to worker n.
CanAssign(T, N, t, n) ==
  /\ IsNextPendingTask(T, t)
  /\ T[t].need.wellFormed
  /\ n \in SelectWorker(T[t].need, GetAvailableWorkers(N))

CanDispatch(T, N) == \E t \in TaskIds, n \in Workers : CanAssign(T, N, t, n)

\* The next turn raises: float() rejects the oldest task's minRamGb.
SelectionRaises(T, N) ==
  /\ GetAvailableWorkers(N) # {}
  /\ \E t \in TaskIds : IsNextPendingTask(T, t) /\ ~ T[t].need.wellFormed

\* Variant: the worker is not marked busy.
AssignTaskToIdle(h, T, N, at) ==
  \E t \in TaskIds, n \in Workers :
    /\ CanAssign(T, N, t, n)
    /\ tasks' = MarkTaskRunning(T, t, n)
    /\ nodes' = N
    /\ toWorker' = Delivering(N[n].websocket, AssignFrame(t))
    /\ job' = [job EXCEPT ![h] = [task |-> t, node |-> n,
                                  websocket |-> N[n].websocket]]
    /\ pc' = [pc EXCEPT ![h] = at]

\* _assignTask up to the send; coroutine h is then suspended at location at.
AssignTask(h, T, N, at) ==
  \E t \in TaskIds, n \in Workers :
    /\ CanAssign(T, N, t, n)
    /\ tasks' = MarkTaskRunning(T, t, n)
    /\ nodes' = SetNodeBusy(N, n, TRUE)
    /\ toWorker' = Delivering(N[n].websocket, AssignFrame(t))
    /\ job' = [job EXCEPT ![h] = [task |-> t, node |-> n,
                                  websocket |-> N[n].websocket]]
    /\ pc' = [pc EXCEPT ![h] = at]

\* dispatchPending is over, with a break or an exception; h goes on to to.
EndDispatch(h, T, N, to) ==
  /\ tasks' = T
  /\ nodes' = N
  /\ job' = [job EXCEPT ![h] = None]
  /\ pc' = [pc EXCEPT ![h] = to]
  /\ UNCHANGED toWorker

\* From an HTTP route, where an exception only makes the response a 500.
RequestDispatch(h, T, N) ==
  /\ \/ AssignTask(h, T, N, "request")
     \/ ~ CanDispatch(T, N) /\ EndDispatch(h, T, N, "idle")
  /\ UNCHANGED <<link, nodeId>>

\* From the finally clause, where an exception ends the coroutine as well.
FinallyDispatch(c, T, N) ==
  /\ \/ AssignTask(c, T, N, "finally") /\ UNCHANGED link
     \/ /\ ~ CanDispatch(T, N)
        /\ EndDispatch(c, T, N, "done")
        /\ link' = [link EXCEPT ![c] = "closed"]
  /\ UNCHANGED nodeId

\* The finally clause of websocketEndpoint.
Finally(c, T, N) ==
  \/ /\ nodeId[c] = None
     /\ EndDispatch(c, T, N, "done")
     /\ link' = [link EXCEPT ![c] = "closed"]
     /\ UNCHANGED nodeId
  \/ /\ nodeId[c] # None
     /\ FinallyDispatch(c, FailTasksAssignedTo(T, nodeId[c]),
                           Unregister(N, nodeId[c]))

\* From handleRegister or handleTaskResult (at says which).  A coroutine
\* learns its nodeId when handleRegister returns.
HandlerDispatch(c, T, N, at) ==
  \/ AssignTask(c, T, N, at) /\ UNCHANGED <<link, nodeId>>
  \/ /\ ~ CanDispatch(T, N) /\ ~ SelectionRaises(T, N)
     /\ EndDispatch(c, T, N, "recv")
     /\ nodeId' = IF at = "register" THEN [nodeId EXCEPT ![c] = Owner(c)]
                                     ELSE nodeId
     /\ UNCHANGED link
  \/ SelectionRaises(T, N) /\ Finally(c, T, N)

\* Variant: dispatchPending without its loop.
EndAfterOne(h, T, N) ==
  /\ EndDispatch(h, T, N, CASE pc[h] = "request" -> "idle"
                            [] pc[h] \in {"register", "result"} -> "recv"
                            [] pc[h] = "finally" -> "done")
  /\ IF pc[h] = "finally" THEN link' = [link EXCEPT ![h] = "closed"]
                           ELSE UNCHANGED link
  /\ IF pc[h] = "register"
       THEN nodeId' = [nodeId EXCEPT ![h] = Owner(h)]
       ELSE UNCHANGED nodeId

ResumeDispatch(h, T, N) ==
  \/ pc[h] = "request" /\ RequestDispatch(h, T, N)
  \/ pc[h] \in {"register", "result"} /\ HandlerDispatch(h, T, N, pc[h])
  \/ pc[h] = "finally" /\ FinallyDispatch(h, T, N)

-----------------------------------------------------------------------------
(* Suspended in _assignTask.                                               *)

\* The send returned.  Sends on one socket complete in order, so not before
\* the REGISTER_ACK of that socket.
SendSucceeded(h) ==
  /\ pc[h] \in Sending
  /\ link[job[h].websocket] \in {"open", "lost"}
  /\ pc[job[h].websocket] # "ack"
  /\ ResumeDispatch(h, tasks, nodes)
  /\ UNCHANGED toCoord

\* Variant: the rollback leaves the task running.
SendFailedKeepingTask(h) ==
  /\ pc[h] \in Sending
  /\ link[job[h].websocket] = "closed"
  /\ ResumeDispatch(h, tasks, SetNodeBusy(nodes, job[h].node, FALSE))
  /\ UNCHANGED toCoord

\* The send raised: roll back, then take the next turn of the loop.
SendFailed(h) ==
  /\ pc[h] \in Sending
  /\ link[job[h].websocket] = "closed"
  /\ ResumeDispatch(h, MarkTaskFailed(tasks, job[h].task),
                       SetNodeBusy(nodes, job[h].node, FALSE))
  /\ UNCHANGED toCoord

-----------------------------------------------------------------------------
(* HTTP routes.                                                            *)

SubmitJob(h, need) ==
  /\ pc[h] = "idle"
  /\ \E t \in TaskIds :
       /\ IsNextId(tasks, t)
       /\ RequestDispatch(h, EnqueueTask(tasks, t, need), nodes)
  /\ UNCHANGED toCoord

\* Variant: retryJob asks only whether the task is known.
RetryAnyJob(h, t) ==
  /\ pc[h] = "idle"
  /\ tasks[t].status # "absent"
  /\ RequestDispatch(h, RequeueFailedTask(tasks, t), nodes)
  /\ UNCHANGED toCoord

RetryJob(h, t) ==
  /\ pc[h] = "idle"
  /\ tasks[t].status = "failed"
  /\ RequestDispatch(h, RequeueFailedTask(tasks, t), nodes)
  /\ UNCHANGED toCoord

-----------------------------------------------------------------------------
(* The WebSocket endpoint.                                                 *)

Accept(c) == pc[c] = "idle" /\ pc' = [pc EXCEPT ![c] = "recv"]

Receiving(c, type) ==
  /\ pc[c] = "recv"
  /\ toCoord[c] # << >>
  /\ Head(toCoord[c]).type = type
  /\ toCoord' = [toCoord EXCEPT ![c] = Tail(@)]

\* Variant: the node is dispatched to without an acknowledgement.
HandleRegisterWithoutAck(c) ==
  /\ Receiving(c, "REGISTER")
  /\ HandlerDispatch(c, tasks, Register(nodes, Owner(c), c), "register")

\* handleRegister up to the send of REGISTER_ACK.
HandleRegister(c) ==
  /\ Receiving(c, "REGISTER")
  /\ nodes' = Register(nodes, Owner(c), c)
  /\ toWorker' = Delivering(c, AckFrame)
  /\ pc' = [pc EXCEPT ![c] = "ack"]
  /\ UNCHANGED <<tasks, job, nodeId, link>>

AckSent(c) ==
  /\ pc[c] = "ack"
  /\ link[c] \in {"open", "lost"}
  /\ HandlerDispatch(c, tasks, nodes, "register")
  /\ UNCHANGED toCoord

AckFailed(c) ==
  /\ pc[c] = "ack"
  /\ link[c] = "closed"
  /\ Finally(c, tasks, nodes)
  /\ UNCHANGED toCoord

\* Variant: the worker stays busy.
HandleResultStayingBusy(c) ==
  /\ Receiving(c, "TASK_RESULT")
  /\ LET msg == Head(toCoord[c])
         settled == IF msg.status = "completed"
                    THEN MarkTaskCompleted(tasks, msg.task)
                    ELSE MarkTaskFailed(tasks, msg.task)
     IN  HandlerDispatch(c, settled, nodes, "result")

HandleTaskResult(c) ==
  /\ Receiving(c, "TASK_RESULT")
  /\ LET msg == Head(toCoord[c])
         settled == IF msg.status = "completed"
                    THEN MarkTaskCompleted(tasks, msg.task)
                    ELSE MarkTaskFailed(tasks, msg.task)
     IN  HandlerDispatch(c, settled, SetNodeBusy(nodes, Owner(c), FALSE),
                         "result")

\* receive raises once every frame that arrived has been handled.
Disconnect(c) ==
  /\ pc[c] = "recv"
  /\ link[c] = "closed"
  /\ toCoord[c] = << >>
  /\ Finally(c, tasks, nodes)
  /\ UNCHANGED toCoord

-----------------------------------------------------------------------------

Resolve(h) == SendSucceeded(h) \/ SendFailed(h)

ServeConnection(c) ==
  \/ HandleRegister(c)
  \/ AckSent(c)
  \/ AckFailed(c)
  \/ HandleTaskResult(c)
  \/ Disconnect(c)

ServeRequest(h) ==
  \/ \E need \in Needs : SubmitJob(h, need)
  \/ \E t \in TaskIds : RetryJob(h, t)
=============================================================================
