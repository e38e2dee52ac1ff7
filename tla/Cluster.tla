------------------------------- MODULE Cluster -------------------------------
(***************************************************************************)
(* The whole cluster: the coordinator, its workers and the network between *)
(* them, with users who submit and retry jobs, connections that drop and   *)
(* workers that crash, restart and reconnect.                              *)
(***************************************************************************)
EXTENDS Coordinator, Worker

vars == <<netVars, coordVars, workerVars>>

TypeOK == NetTypeOK /\ CoordTypeOK /\ WorkerTypeOK

Init == NetInit /\ CoordInit /\ WorkerInit

\* The WebSocket handshake: both ends come up in one step.
Connect(w) ==
  /\ OpenSession(w)
  /\ Accept(<<w, session[w] + 1>>)
  /\ UNCHANGED <<tasks, nodes, job, nodeId>>

CoordinatorStep ==
  /\ \/ \E h \in Coroutines : Resolve(h)
     \/ \E c \in Conns : ServeConnection(c)
     \/ \E h \in Requests : ServeRequest(h)
  /\ UNCHANGED workerVars

ClientStep ==
  /\ \E w \in Workers : WorkerStep(w) \/ Crash(w)
  /\ UNCHANGED coordVars

NetworkStep ==
  /\ \E c \in Conns : LoseConnection(c) \/ NoticeLoss(c)
  /\ UNCHANGED <<coordVars, workerVars>>

Next ==
  \/ \E w \in Workers : Connect(w)
  \/ CoordinatorStep
  \/ ClientStep
  \/ NetworkStep

\* Coroutines that can run do run, handlers of tasks return, and a dead
\* connection is noticed (uvicorn pings every connection).  Users, crashes
\* and losses are under no obligation, nor are reconnects.
Fairness ==
  /\ \A h \in Coroutines : WF_vars(Resolve(h) /\ UNCHANGED workerVars)
  /\ \A c \in Conns :
       /\ WF_vars(ServeConnection(c) /\ UNCHANGED workerVars)
       /\ WF_vars(NoticeLoss(c) /\ UNCHANGED <<coordVars, workerVars>>)
  /\ \A w \in Workers : WF_vars(WorkerStep(w) /\ UNCHANGED coordVars)

Spec == Init /\ [][Next]_vars

FairSpec == Spec /\ Fairness

-----------------------------------------------------------------------------
(* Safety                                                                  *)

AllWellFormed ==
  \A t \in TaskIds : tasks[t].status # "absent" => tasks[t].need.wellFormed

\* A registration whose connection handler has ended: nothing in the code
\* removes it any more, except the same node registering again.
IsGhost(n) == n \in Registered(nodes) /\ pc[nodes[n].websocket] = "done"

\* The first frame a worker can read on a connection is REGISTER_ACK, so the
\* receive in _register, which drops any frame it gets, never drops a task.
\* worker.py expects otherwise: line 167, "Could be a TASK_ASSIGN that arrived
\* immediately; put back in the pipeline by raising" (the code only logs it),
\* and line 129, "Ack may arrive here if coordinator sends it after some queued
\* messages".  This says that the order cannot happen; the acknowledgement gets
\* to line 129 only when _register has stopped waiting for it.
AckComesFirst ==
  \A w \in Workers :
    phase[w] = "register" /\ toWorker[Socket(w)] # << >>
      => Head(toWorker[Socket(w)]) = AckFrame

\* A coroutine that still has a turn of dispatchPending to take: it is in
\* _assignTask, or about to return from the REGISTER_ACK of the node's
\* current registration.
DispatchPromised ==
  \/ \E h \in Coroutines : pc[h] \in Sending
  \/ \E n \in Registered(nodes) : pc[nodes[n].websocket] = "ack"

\* When the oldest pending task fits an idle worker, somebody is about to
\* dispatch it: no wakeup is lost, although every event handler looks at the
\* queue only once, while others are suspended halfway through their own look.
NoLostWakeup ==
  CanDispatch(tasks, nodes) => DispatchPromised \/ \E n \in Workers : IsGhost(n)

\* Connection c will run the finally clause for worker n.
WillCleanUp(c, n) ==
  \/ nodeId[c] = n /\ pc[c] \in {"recv", "ack", "result"}
  \/ Owner(c) = n /\ pc[c] = "register"

\* A running task is never forgotten: a coroutine is still sending it and
\* rolls back on failure, or a connection of its worker is open whose handler
\* fails it when it ends.
RunningTaskHasOwner ==
  AllWellFormed =>
    \A t \in TaskIds, n \in Workers :
      t \in GetTasksAssignedTo(tasks, n) =>
        \/ \E h \in Coroutines :
             pc[h] \in Sending /\ job[h].task = t /\ job[h].node = n
        \/ \E c \in Conns : WillCleanUp(c, n)

\* The worker still owes the coordinator a result on connection c.
Owes(c) ==
  \/ \E i \in DOMAIN toWorker[c] : toWorker[c][i].type = "TASK_ASSIGN"
  \/ executing[Owner(c)] # None /\ Socket(Owner(c)) = c
  \/ \E i \in DOMAIN toCoord[c] : toCoord[c][i].type = "TASK_RESULT"

\* No worker stays busy for ever: whoever marked it busy is still sending, or
\* a result is due on its socket, or the socket is dead and its handler has
\* yet to unregister the node.
BusyIsTransient ==
  AllWellFormed =>
    \A n \in Registered(nodes) : nodes[n].isBusy =>
      \/ \E h \in Coroutines : pc[h] \in Sending /\ job[h].node = n
      \/ Owes(nodes[n].websocket)
      \/ link[nodes[n].websocket] # "open" /\ ~ IsGhost(n)

\* Until a worker reconnects, getAvailableWorkers does not return it while it
\* is executing a task it was assigned on the open connection it is registered
\* with, whatever results, rollbacks and other workers do meanwhile.
IdleUntilReconnect ==
  \A n \in GetAvailableWorkers(nodes) :
    session[n] = 1 /\ nodes[n].websocket = Socket(n) /\ link[Socket(n)] = "open"
      => phase[n] # "execute"

-----------------------------------------------------------------------------
(* Liveness                                                                *)

\* Every running task is eventually settled, even if its worker dies, unless a
\* malformed payload was submitted: handleRegister may then have raised between
\* registering a node and remembering its nodeId, and nobody cleans up after it.
RunningSettles ==
  \A t \in TaskIds :
    tasks[t].status = "running" ~> tasks[t].status # "running" \/ ~ AllWellFormed

\* The oldest pending task could not be placed if every registered worker were
\* idle: its payload is malformed, or it requires a GPU and would get none.
\* dispatchPending then passes over all the tasks behind it, too.
QueueIsBlocked ==
  \E t \in TaskIds :
    /\ IsNextPendingTask(tasks, t)
    /\ \/ ~ tasks[t].need.wellFormed
       \/ SelectWorker(tasks[t].need, Registered(nodes)) = {}

\* A pending task waits for ever only if, again and again, no worker is
\* registered, the queue is blocked by its head, or a ghost is in the way: a
\* queue that is not blocked moves on, whatever other tasks are submitted,
\* retried, lost with their workers or reported late.
PendingIsServed ==
  \A t \in TaskIds :
    tasks[t].status = "pending" ~>
      \/ tasks[t].status # "pending"
      \/ Registered(nodes) = {}
      \/ QueueIsBlocked
      \/ \E n \in Workers : IsGhost(n)
=============================================================================
