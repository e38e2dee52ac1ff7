---------------------------- MODULE ClusterProofs ----------------------------
(***************************************************************************)
(* Proofs, for every set of workers, jobs, requests and every bound, that  *)
(* the cluster keeps its types, loses no wakeup and forgets no running     *)
(* task.                                                                   *)
(***************************************************************************)
EXTENDS ClusterInv, TLAPS

-----------------------------------------------------------------------------
(* Connections and the data types.                                         *)

LEMMA ConnFacts ==
  /\ \A c \in Conns : c \in Coroutines /\ Owner(c) \in Workers /\ c # None
  /\ \A h \in Requests : h \in Coroutines /\ h \notin Conns
  /\ \A w \in Workers : w # None
<1>1. \A c \in Conns : Owner(c) \in Workers
  BY DEF Conns, Owner
<1> QED
  BY <1>1, RequestAssumption, NoneAssumption DEF Coroutines

LEMMA SocketFacts ==
  ASSUME NEW w \in Workers, NEW k \in Nat, k >= 1, k <= MaxSessions[w]
  PROVE  <<w, k>> \in Conns /\ Owner(<<w, k>>) = w
<1>1. k \in 1 .. MaxSessions[w]
  BY BoundsAssumption
<1>2. <<w, k>> \in {w} \X (1 .. MaxSessions[w])
  BY <1>1
<1> QED
  BY <1>2 DEF Conns, Owner

Tables == [TaskIds -> Task]
Registries == [Workers -> WorkerNode]

LEMMA TableTypes ==
  ASSUME NEW T \in Tables, NEW t \in TaskIds
  PROVE  /\ \A n \in Workers : MarkTaskRunning(T, t, n) \in Tables
         /\ MarkTaskCompleted(T, t) \in Tables
         /\ MarkTaskFailed(T, t) \in Tables
         /\ \A n \in Workers : FailTasksAssignedTo(T, n) \in Tables
         /\ \A need \in Needs : EnqueueTask(T, t, need) \in Tables
         /\ RequeueFailedTask(T, t) \in Tables
BY DEF Tables, Task, TaskStatus, MarkTaskRunning, MarkTaskCompleted,
       MarkTaskFailed, SettleTask, FailTasksAssignedTo, EnqueueTask,
       RequeueFailedTask

LEMMA RegistryTypes ==
  ASSUME NEW N \in Registries, NEW n \in Workers
  PROVE  /\ \A c \in Conns : Register(N, n, c) \in Registries
         /\ Unregister(N, n) \in Registries
         /\ \A busy \in BOOLEAN : SetNodeBusy(N, n, busy) \in Registries
         /\ n \in Registered(N) => N[n].websocket \in Conns
BY DEF Registries, WorkerNode, NoNode, Register, Unregister, SetNodeBusy,
       Registered

LEMMA DeliveringTypes ==
  ASSUME NetTypeOK, NEW c \in Conns, NEW f \in WorkerFrames
  PROVE  Delivering(c, f) \in [Conns -> Seq(WorkerFrames)]
BY DEF NetTypeOK, Delivering

-----------------------------------------------------------------------------
(* Steps of workers and of the network change nothing in the coordinator.  *)

LEMMA FrameTypes ==
  /\ \A t \in TaskIds, s \in Outcomes : ResultFrame(t, s) \in CoordFrames
  /\ \A t \in TaskIds : AssignFrame(t) \in WorkerFrames
  /\ RegisterFrame \in CoordFrames
  /\ AckFrame \in WorkerFrames
BY DEF ResultFrame, AssignFrame, RegisterFrame, AckFrame, CoordFrames,
       WorkerFrames

LEMMA ConnectTypes ==
  ASSUME TypeOK, WorkerInv, NEW w \in Workers, Connect(w)
  PROVE  /\ TypeOK' /\ WorkerInv'
         /\ <<w, session[w] + 1>> \in Conns
<1> DEFINE c == <<w, session[w] + 1>>
<1>1. /\ session[w] \in Nat
      /\ session[w] + 1 <= MaxSessions[w]
      /\ session[w] + 1 \in Nat
      /\ session[w] + 1 >= 1
  <2>1. session[w] < MaxSessions[w]
    BY DEF Connect, OpenSession
  <2>2. session[w] \in Nat /\ MaxSessions[w] \in Nat
    BY BoundsAssumption DEF TypeOK, WorkerTypeOK
  <2> QED
    BY <2>1, <2>2
<1>2. c \in Conns
  BY <1>1, SocketFacts
<1>3. NetTypeOK'
  BY <1>2, FrameTypes
  DEF TypeOK, NetTypeOK, Connect, OpenSession
<1>4. CoordTypeOK'
  BY <1>2 DEF TypeOK, CoordTypeOK, Connect, OpenSession, Accept, Locations
<1>5. WorkerTypeOK'
  BY <1>1 DEF TypeOK, WorkerTypeOK, Connect, OpenSession
<1>6. WorkerInv'
  BY <1>1 DEF TypeOK, WorkerTypeOK, WorkerInv, Connect, OpenSession
<1> QED
  BY <1>2, <1>3, <1>4, <1>5, <1>6 DEF TypeOK

LEMMA ClientTypes ==
  ASSUME TypeOK, WorkerInv, NEW w \in Workers, WorkerStep(w) \/ Crash(w),
         UNCHANGED coordVars
  PROVE  /\ TypeOK' /\ WorkerInv'
         /\ \A c \in Conns : link[c] = "closed" => link'[c] = "closed"
<1> DEFINE s == Socket(w)
<1>1. phase[w] # "down" => s \in Conns /\ Owner(s) = w
  BY SocketFacts DEF TypeOK, WorkerTypeOK, WorkerInv, Socket
<1>2. CoordTypeOK'
  BY DEF TypeOK, CoordTypeOK, coordVars
<1> USE DEF TypeOK, NetTypeOK, WorkerTypeOK, WorkerInv
<1>3. CASE ReceiveFirst(w)
  BY <1>1, <1>2, <1>3 DEF ReceiveFirst, Consume
<1>4. CASE AckTimeout(w)
  BY <1>1, <1>2, <1>4 DEF AckTimeout, netVars
<1>5. CASE ReceiveAck(w)
  BY <1>1, <1>2, <1>5 DEF ReceiveAck, Consume, workerVars
<1>6. CASE ReceiveTask(w)
  <2>1. Head(toWorker[s]) \in WorkerFrames
    BY <1>1, <1>6 DEF ReceiveTask, Consume
  <2>2. Head(toWorker[s]).task \in TaskIds
    BY <1>6, <2>1 DEF ReceiveTask, WorkerFrames, AckFrame
  <2> QED
    BY <1>1, <1>2, <1>6, <2>2 DEF ReceiveTask, Consume
<1>7. ASSUME NEW outcome \in Outcomes, SendResult(w, outcome)
      PROVE  /\ TypeOK' /\ WorkerInv'
             /\ \A c \in Conns : link[c] = "closed" => link'[c] = "closed"
  <2>1. ResultFrame(executing[w], outcome) \in CoordFrames
    BY <1>7, FrameTypes DEF SendResult
  <2>2. s \in Conns
    BY <1>1, <1>7 DEF SendResult
  <2>3. CASE link[s] = "open"
    <3>1. toCoord' = [toCoord EXCEPT ![s] =
                        Append(@, ResultFrame(executing[w], outcome))]
      BY <1>7, <2>3 DEF SendResult
    <3>2. toCoord' \in [Conns -> Seq(CoordFrames)]
      BY <2>1, <2>2, <3>1
    <3> QED
      BY <1>2, <1>7, <2>3, <3>2 DEF SendResult
  <2>4. CASE link[s] # "open"
    BY <1>2, <1>7, <2>4 DEF SendResult
  <2> QED
    BY <2>3, <2>4
<1>8. CASE EndSession(w)
  BY <1>1, <1>2, <1>8 DEF EndSession, netVars
<1>9. CASE Crash(w)
  BY <1>1, <1>2, <1>9 DEF Crash
<1> QED
  BY <1>3, <1>4, <1>5, <1>6, <1>7, <1>8, <1>9 DEF WorkerStep

LEMMA NetworkTypes ==
  ASSUME TypeOK, NEW c \in Conns, LoseConnection(c) \/ NoticeLoss(c),
         UNCHANGED <<coordVars, workerVars>>
  PROVE  /\ TypeOK'
         /\ \A d \in Conns : link[d] = "closed" => link'[d] = "closed"
<1>1. CoordTypeOK' /\ WorkerTypeOK'
  BY DEF TypeOK, CoordTypeOK, WorkerTypeOK, coordVars, workerVars
<1>2. CASE LoseConnection(c)
  BY <1>1, <1>2 DEF LoseConnection, TypeOK, NetTypeOK
<1>3. CASE NoticeLoss(c)
  BY <1>1, <1>3 DEF NoticeLoss, TypeOK, NetTypeOK
<1> QED
  BY <1>2, <1>3

-----------------------------------------------------------------------------
(* What the steps of a coroutine have in common.                           *)

\* Coroutine h goes to location at; a connection handler that does may learn
\* its nodeId, and once it is past handleRegister, it has.
Moves(h, at) ==
  /\ at \in Locations
  /\ pc' = [pc EXCEPT ![h] = at]
  /\ h \in Requests => at \in {"idle", "request"} /\ UNCHANGED nodeId
  /\ h \in Conns =>
       /\ at \notin {"idle", "request"}
       /\ UNCHANGED nodeId \/ nodeId' = [nodeId EXCEPT ![h] = Owner(h)]
       /\ \/ pc[h] \notin {"ack", "register", "done"}
          \/ at \in {"ack", "register", "done"}
          \/ nodeId'[h] = Owner(h)

\* Coroutine h takes a turn of dispatchPending on task table T and registry
\* N, or ends it with nothing to dispatch.
Turn(h, T, N) ==
  \E at \in Locations :
    /\ Moves(h, at)
    /\ \/ /\ at \in Sending
          /\ AssignTask(h, T, N, at)
          /\ UNCHANGED link
       \/ /\ at \notin Sending \cup {"ack"}
          /\ ~ CanDispatch(T, N)
          /\ EndDispatch(h, T, N, at)
          /\ IF at = "done" THEN link' = [link EXCEPT ![h] = "closed"]
                            ELSE UNCHANGED link

\* A malformed task at the head of the queue is not dispatched.
LEMMA RaisesNoDispatch ==
  ASSUME NEW T, NEW N, SelectionRaises(T, N)
  PROVE  ~ CanDispatch(T, N)
<1> SUFFICES ASSUME NEW t \in TaskIds, IsNextPendingTask(T, t),
                    T[t].need.wellFormed,
                    NEW u \in TaskIds, IsNextPendingTask(T, u),
                    ~ T[u].need.wellFormed
             PROVE  FALSE
  BY DEF SelectionRaises, CanDispatch, CanAssign
<1>1. t <= u /\ u <= t /\ t \in Nat /\ u \in Nat
  BY BoundsAssumption DEF IsNextPendingTask, TaskIds, Pending
<1>2. t = u
  BY <1>1
<1> QED
  BY <1>2

\* The pieces of dispatch code are turns.
LEMMA RequestTurn ==
  ASSUME NEW h \in Requests, NEW T, NEW N, RequestDispatch(h, T, N)
  PROVE  Turn(h, T, N)
<1>1. h \notin Conns
  BY ConnFacts
<1>2. CASE AssignTask(h, T, N, "request")
  <2>1. Moves(h, "request")
    BY <1>1, <1>2 DEF Moves, AssignTask, RequestDispatch, Locations, Sending
  <2> QED
    BY <1>2, <2>1 DEF Turn, Locations, Sending, RequestDispatch
<1>3. CASE ~ CanDispatch(T, N) /\ EndDispatch(h, T, N, "idle")
  <2>1. Moves(h, "idle")
    BY <1>1, <1>3 DEF Moves, EndDispatch, RequestDispatch, Locations, Sending
  <2> QED
    BY <1>3, <2>1 DEF Turn, Locations, Sending, RequestDispatch
<1> QED
  BY <1>2, <1>3 DEF RequestDispatch

LEMMA FinallyTurn ==
  ASSUME NEW c \in Conns, NEW T, NEW N, FinallyDispatch(c, T, N),
         pc[c] \in {"ack", "register"} => nodeId[c] = Owner(c),
         pc[c] # "done"
  PROVE  Turn(c, T, N)
<1>1. c \notin Requests
  BY ConnFacts
<1>2. CASE AssignTask(c, T, N, "finally") /\ UNCHANGED link
  <2>1. Moves(c, "finally")
    BY <1>1, <1>2 DEF Moves, AssignTask, FinallyDispatch, Locations, Sending
  <2> QED
    BY <1>2, <2>1 DEF Turn, Locations, Sending
<1>3. CASE /\ ~ CanDispatch(T, N)
           /\ EndDispatch(c, T, N, "done")
           /\ link' = [link EXCEPT ![c] = "closed"]
  <2>1. Moves(c, "done")
    BY <1>1, <1>3 DEF Moves, EndDispatch, FinallyDispatch, Locations, Sending
  <2> QED
    BY <1>3, <2>1 DEF Turn, Locations, Sending
<1> QED
  BY <1>2, <1>3 DEF FinallyDispatch

\* A turn, or the finally clause and then a turn.
Turns(h, T, N) ==
  \/ Turn(h, T, N)
  \/ /\ h \in Conns
     /\ nodeId[h] \in Workers
     /\ Turn(h, FailTasksAssignedTo(T, nodeId[h]), Unregister(N, nodeId[h]))

LEMMA CleanUpTurns ==
  ASSUME TypeOK, HandlerInv, NEW c \in Conns, NEW T, NEW N, Finally(c, T, N),
         nodeId[c] = None => ~ CanDispatch(T, N),
         pc[c] # "done"
  PROVE  Turns(c, T, N)
<1>1. CASE nodeId[c] = None
  <2>1. /\ EndDispatch(c, T, N, "done")
        /\ link' = [link EXCEPT ![c] = "closed"]
        /\ UNCHANGED nodeId
    BY <1>1 DEF Finally
  <2>2. Moves(c, "done")
    BY <2>1, ConnFacts DEF Moves, EndDispatch, Locations, Sending
  <2> QED
    BY <1>1, <2>1, <2>2 DEF Turns, Turn, Locations, Sending
<1>2. CASE nodeId[c] # None
  <2>1. nodeId[c] \in Workers /\ nodeId[c] = Owner(c)
    BY <1>2, ConnFacts DEF HandlerInv
  <2>2. FinallyDispatch(c, FailTasksAssignedTo(T, nodeId[c]),
                           Unregister(N, nodeId[c]))
    BY <1>2 DEF Finally
  <2> QED
    BY <2>1, <2>2, FinallyTurn DEF Turns
<1> QED
  BY <1>1, <1>2

LEMMA HandlerTurn ==
  ASSUME TypeOK,
         NEW c \in Conns, NEW T, NEW N, NEW at \in {"register", "result"},
         at = "register" => pc[c] \in {"ack", "register"},
         at = "result" => pc[c] \in {"recv", "result"},
         HandlerDispatch(c, T, N, at), ~ SelectionRaises(T, N)
  PROVE  Turn(c, T, N)
<1>1. CASE AssignTask(c, T, N, at) /\ UNCHANGED <<link, nodeId>>
  <2>1. Moves(c, at)
    BY <1>1, ConnFacts DEF Moves, AssignTask, Locations, Sending
  <2> QED
    BY <1>1, <2>1 DEF Turn, Locations, Sending
<1>2. CASE /\ ~ CanDispatch(T, N)
           /\ EndDispatch(c, T, N, "recv")
           /\ nodeId' = IF at = "register" THEN [nodeId EXCEPT ![c] = Owner(c)]
                                           ELSE nodeId
           /\ UNCHANGED link
  <2>1. pc[c] # "done"
    OBVIOUS
  <2>2. pc[c] \in {"ack", "register"} => nodeId'[c] = Owner(c)
    BY <1>2 DEF TypeOK, CoordTypeOK
  <2>3. Moves(c, "recv")
    BY <1>2, <2>1, <2>2, ConnFacts DEF Moves, EndDispatch, Locations, Sending
  <2> QED
    BY <1>2, <2>3 DEF Turn, Locations, Sending
<1> QED
  BY <1>1, <1>2 DEF HandlerDispatch

LEMMA HandlerTurns ==
  ASSUME TypeOK, HandlerInv,
         NEW c \in Conns, NEW T, NEW N, NEW at \in {"register", "result"},
         at = "register" => pc[c] \in {"ack", "register"},
         at = "result" => pc[c] \in {"recv", "result"},
         HandlerDispatch(c, T, N, at)
  PROVE  Turns(c, T, N)
<1>1. CASE SelectionRaises(T, N)
  <2>1. ~ CanDispatch(T, N)
    BY <1>1, RaisesNoDispatch
  <2>2. Finally(c, T, N)
    BY <1>1, <2>1 DEF HandlerDispatch, AssignTask, CanDispatch
  <2> QED
    BY <2>1, <2>2, CleanUpTurns
<1>2. CASE ~ SelectionRaises(T, N)
  BY <1>2, HandlerTurn DEF Turns
<1> QED
  BY <1>1, <1>2

-----------------------------------------------------------------------------
(* What a turn preserves.                                                  *)

RegInv(N) == \A n \in Registered(N) : Served(N[n].websocket, n)

DoneClosed == \A c \in Conns : pc[c] = "done" => link[c] = "closed"

LEMMA ServedKept ==
  ASSUME TypeOK, NEW h \in Coroutines, NEW at, Moves(h, at),
         NEW c, NEW n, Served(c, n)
  PROVE  Served(c, n)'
<1>1. c \in Conns /\ c \in Coroutines /\ Owner(c) = n
  BY ConnFacts DEF Served
<1>2. CASE c # h
  BY <1>1, <1>2, ConnFacts
  DEF Served, Moves, TypeOK, CoordTypeOK, Coroutines
<1>3. CASE c = h
  <2>1. pc'[c] = at
    BY <1>1, <1>3 DEF Moves, TypeOK, CoordTypeOK
  <2>2. nodeId'[c] = nodeId[c] \/ nodeId'[c] = n
    BY <1>1, <1>3 DEF Moves, TypeOK, CoordTypeOK
  <2> QED
    BY <1>1, <1>3, <2>1, <2>2 DEF Served, Moves
<1> QED
  BY <1>2, <1>3

LEMMA MovesInv ==
  ASSUME TypeOK, HandlerInv, NEW h \in Coroutines, NEW at, Moves(h, at)
  PROVE  /\ HandlerInv'
         /\ pc' \in [Coroutines -> Locations]
         /\ nodeId' \in [Conns -> Workers \cup {None}]
<1>1. pc' \in [Coroutines -> Locations]
  BY DEF Moves, TypeOK, CoordTypeOK
<1>2. nodeId' \in [Conns -> Workers \cup {None}]
  BY ConnFacts DEF Moves, TypeOK, CoordTypeOK, Coroutines
<1>3. \A g \in Requests : pc'[g] \in {"idle", "request"}
  BY ConnFacts DEF Moves, TypeOK, CoordTypeOK, HandlerInv
<1>4. \A c \in Conns : pc'[c] # "request"
  BY ConnFacts DEF Moves, TypeOK, CoordTypeOK, HandlerInv
<1>5. \A c \in Conns : nodeId'[c] \in {None, Owner(c)}
  BY ConnFacts DEF Moves, TypeOK, CoordTypeOK, HandlerInv, Coroutines
<1> QED
  BY <1>1, <1>2, <1>3, <1>4, <1>5 DEF HandlerInv

LEMMA AssignTaskTypes ==
  ASSUME TypeOK, NEW h \in Coroutines, NEW T \in Tables, NEW N \in Registries,
         NEW at, AssignTask(h, T, N, at)
  PROVE  /\ tasks' \in Tables
         /\ nodes' \in Registries
         /\ toWorker' \in [Conns -> Seq(WorkerFrames)]
         /\ job' \in [Coroutines -> Assignment \cup {None}]
<1>1. PICK t \in TaskIds, n \in Workers :
        /\ CanAssign(T, N, t, n)
        /\ tasks' = MarkTaskRunning(T, t, n)
        /\ nodes' = SetNodeBusy(N, n, TRUE)
        /\ toWorker' = Delivering(N[n].websocket, AssignFrame(t))
        /\ job' = [job EXCEPT ![h] = [task |-> t, node |-> n,
                                      websocket |-> N[n].websocket]]
  BY DEF AssignTask
<1>2. N[n].websocket \in Conns
  BY <1>1, RegistryTypes
  DEF CanAssign, SelectWorker, Candidates, Eligible, GetAvailableWorkers
<1>3. tasks' \in Tables /\ nodes' \in Registries
  BY <1>1, TableTypes, RegistryTypes
<1>4. toWorker' \in [Conns -> Seq(WorkerFrames)]
  BY <1>1, <1>2, FrameTypes, DeliveringTypes DEF TypeOK
<1>5. [task |-> t, node |-> n, websocket |-> N[n].websocket] \in Assignment
  BY <1>2 DEF Assignment
<1> QED
  BY <1>1, <1>3, <1>4, <1>5 DEF TypeOK, CoordTypeOK

LEMMA TurnTypes ==
  ASSUME TypeOK, HandlerInv,
         NEW h \in Coroutines, NEW T \in Tables, NEW N \in Registries,
         Turn(h, T, N), toCoord' \in [Conns -> Seq(CoordFrames)],
         UNCHANGED workerVars
  PROVE  TypeOK'
<1>1. PICK at \in Locations :
        /\ Moves(h, at)
        /\ \/ /\ AssignTask(h, T, N, at)
              /\ UNCHANGED link
           \/ /\ EndDispatch(h, T, N, at)
              /\ IF at = "done" THEN link' = [link EXCEPT ![h] = "closed"]
                                ELSE UNCHANGED link
  BY DEF Turn
<1>2. link' \in [Conns -> {"free", "open", "lost", "closed"}]
  BY <1>1 DEF TypeOK, NetTypeOK
<1>3. WorkerTypeOK'
  BY DEF TypeOK, WorkerTypeOK, workerVars
<1>4. /\ pc' \in [Coroutines -> Locations]
      /\ nodeId' \in [Conns -> Workers \cup {None}]
  BY <1>1, MovesInv
<1>5. CASE AssignTask(h, T, N, at)
  BY <1>2, <1>3, <1>4, <1>5, AssignTaskTypes
  DEF TypeOK, NetTypeOK, CoordTypeOK, Tables, Registries
<1>6. CASE EndDispatch(h, T, N, at)
  BY <1>2, <1>3, <1>4, <1>6
  DEF TypeOK, NetTypeOK, CoordTypeOK, Tables, Registries, EndDispatch
<1> QED
  BY <1>1, <1>5, <1>6

\* Registrations and suspended assignments stay served.
LEMMA TurnServed ==
  ASSUME TypeOK, AssignmentInv,
         NEW h \in Coroutines, NEW T \in Tables, NEW N \in Registries,
         RegInv(N), Turn(h, T, N)
  PROVE  RegistryInv' /\ AssignmentInv'
<1>1. PICK at \in Locations :
        /\ Moves(h, at)
        /\ \/ AssignTask(h, T, N, at)
           \/ at \notin Sending /\ EndDispatch(h, T, N, at)
  BY DEF Turn
<1>2. \A c \in Conns, n \in Workers : Served(c, n) => Served(c, n)'
  BY <1>1, ServedKept
<1>3. \A g \in Coroutines :
        pc[g] \in Sending /\ job'[g] = job[g]
          => (job[g] \in Assignment /\ Served(job[g].websocket, job[g].node))'
  BY <1>2 DEF AssignmentInv, Assignment
<1>4. \A g \in Coroutines \ {h} : pc'[g] = pc[g]
  BY <1>1 DEF Moves, TypeOK, CoordTypeOK
<1>5. CASE AssignTask(h, T, N, at)
  <2>1. PICK t \in TaskIds, n \in Workers :
          /\ CanAssign(T, N, t, n)
          /\ nodes' = SetNodeBusy(N, n, TRUE)
          /\ job' = [job EXCEPT ![h] = [task |-> t, node |-> n,
                                        websocket |-> N[n].websocket]]
    BY <1>5 DEF AssignTask
  <2>2. n \in Registered(N)
    BY <2>1
    DEF CanAssign, SelectWorker, Candidates, Eligible, GetAvailableWorkers
  <2>3. \A m \in Workers : nodes'[m].websocket = N[m].websocket
    BY <2>1, <2>2 DEF SetNodeBusy, Registries, WorkerNode
  <2>4. RegistryInv'
    BY <1>2, <2>3, RegistryTypes DEF RegistryInv, RegInv, Registered
  <2>5. job'[h] = [task |-> t, node |-> n, websocket |-> N[n].websocket]
    BY <2>1 DEF TypeOK, CoordTypeOK
  <2>6. job'[h] \in Assignment
    BY <2>2, <2>5, RegistryTypes DEF Assignment
  <2>7. Served(job[h].websocket, job[h].node)'
    <3>1. Served(N[n].websocket, n)'
      BY <1>2, <2>2, RegistryTypes DEF RegInv
    <3> QED
      BY <2>5, <3>1
  <2>8. \A g \in Coroutines \ {h} : job'[g] = job[g]
    BY <2>1 DEF TypeOK, CoordTypeOK
  <2> QED
    BY <1>3, <1>4, <2>4, <2>6, <2>7, <2>8 DEF AssignmentInv
<1>6. CASE at \notin Sending /\ EndDispatch(h, T, N, at)
  <2>1. RegistryInv'
    BY <1>2, <1>6, RegistryTypes DEF RegistryInv, RegInv, EndDispatch, Registered
  <2>2. \A g \in Coroutines \ {h} : job'[g] = job[g]
    BY <1>6 DEF EndDispatch, TypeOK, CoordTypeOK
  <2>3. pc'[h] \notin Sending
    BY <1>1, <1>6 DEF Moves, TypeOK, CoordTypeOK
  <2> QED
    BY <1>3, <1>4, <2>1, <2>2, <2>3 DEF AssignmentInv
<1> QED
  BY <1>1, <1>5, <1>6

LEMMA TurnWakes ==
  ASSUME TypeOK, DoneClosed, NEW h \in Coroutines, NEW T, NEW N, Turn(h, T, N)
  PROVE  NoLostWakeup' /\ DoneClosed'
<1>1. PICK at \in Locations :
        /\ Moves(h, at)
        /\ \/ at \in Sending /\ UNCHANGED link
           \/ /\ at \notin Sending \cup {"ack"}
              /\ ~ CanDispatch(T, N)
              /\ EndDispatch(h, T, N, at)
              /\ IF at = "done" THEN link' = [link EXCEPT ![h] = "closed"]
                                ELSE UNCHANGED link
  BY DEF Turn
<1>2. pc' = [pc EXCEPT ![h] = at] /\ pc'[h] = at
  BY <1>1 DEF Moves, TypeOK, CoordTypeOK
<1>3. NoLostWakeup'
  <2>1. CASE at \in Sending
    BY <1>2, <2>1 DEF NoLostWakeup, DispatchPromised
  <2>2. CASE ~ CanDispatch(T, N) /\ EndDispatch(h, T, N, at)
    BY <2>2 DEF NoLostWakeup, EndDispatch, CanDispatch
  <2> QED
    BY <1>1, <2>1, <2>2
<1>4. DoneClosed'
  <2> SUFFICES ASSUME NEW c \in Conns, pc'[c] = "done"
               PROVE  link'[c] = "closed"
    BY DEF DoneClosed
  <2>1. CASE c = h
    BY <1>1, <1>2, <2>1 DEF TypeOK, NetTypeOK, Sending
  <2>2. CASE c # h
    BY <1>1, <1>2, <2>2, ConnFacts
    DEF DoneClosed, TypeOK, NetTypeOK, CoordTypeOK
  <2> QED
    BY <2>1, <2>2
<1> QED
  BY <1>3, <1>4

LEMMA RegInvKept ==
  ASSUME NEW N \in Registries, RegInv(N), NEW n \in Workers
  PROVE  /\ RegInv(Unregister(N, n))
         /\ \A busy \in BOOLEAN : RegInv(SetNodeBusy(N, n, busy))
BY DEF RegInv, Registered, Unregister, SetNodeBusy, NoNode, Registries,
       WorkerNode

BasicInv ==
  /\ TypeOK
  /\ WorkerInv
  /\ HandlerInv
  /\ RegistryInv
  /\ AssignmentInv
  /\ DoneClosed
  /\ NoLostWakeup

LEMMA TurnsBasic ==
  ASSUME BasicInv,
         NEW h \in Coroutines, NEW T \in Tables, NEW N \in Registries,
         RegInv(N), Turns(h, T, N), toCoord' \in [Conns -> Seq(CoordFrames)],
         UNCHANGED workerVars
  PROVE  BasicInv'
<1>1. ASSUME NEW S \in Tables, NEW M \in Registries, RegInv(M), Turn(h, S, M)
      PROVE  BasicInv'
  <2>1. TypeOK' /\ HandlerInv'
    <3>1. \E at \in Locations : Moves(h, at)
      BY <1>1 DEF Turn
    <3> QED
      BY <1>1, <3>1, TurnTypes, MovesInv DEF BasicInv
  <2>2. RegistryInv' /\ AssignmentInv'
    BY <1>1, TurnServed DEF BasicInv
  <2>3. NoLostWakeup' /\ DoneClosed'
    BY <1>1, TurnWakes DEF BasicInv
  <2>4. WorkerInv'
    BY DEF BasicInv, WorkerInv, workerVars
  <2> QED
    BY <2>1, <2>2, <2>3, <2>4 DEF BasicInv
<1>2. CASE Turn(h, T, N)
  BY <1>1, <1>2
<1>3. CASE /\ h \in Conns
           /\ nodeId[h] \in Workers
           /\ Turn(h, FailTasksAssignedTo(T, nodeId[h]),
                      Unregister(N, nodeId[h]))
  <2>1. FailTasksAssignedTo(T, nodeId[h]) \in Tables
    BY <1>3 DEF FailTasksAssignedTo, Tables, Task, TaskStatus
  <2>2. /\ Unregister(N, nodeId[h]) \in Registries
        /\ RegInv(Unregister(N, nodeId[h]))
    BY <1>3, RegistryTypes, RegInvKept
  <2> QED
    BY <1>1, <1>3, <2>1, <2>2
<1> QED
  BY <1>2, <1>3 DEF Turns

LEMMA ResumeTurns ==
  ASSUME TypeOK, HandlerInv, NEW h \in Coroutines, NEW T, NEW N,
         ResumeDispatch(h, T, N)
  PROVE  Turns(h, T, N)
<1>1. CASE pc[h] = "request" /\ RequestDispatch(h, T, N)
  <2>1. h \in Requests
    BY <1>1 DEF HandlerInv, Coroutines
  <2> QED
    BY <1>1, <2>1, RequestTurn DEF Turns
<1>2. CASE pc[h] \in {"register", "result"} /\ HandlerDispatch(h, T, N, pc[h])
  <2>1. h \in Conns
    BY <1>2 DEF HandlerInv, Coroutines
  <2> QED
    BY <1>2, <2>1, HandlerTurns
<1>3. CASE pc[h] = "finally" /\ FinallyDispatch(h, T, N)
  <2>1. h \in Conns
    BY <1>3 DEF HandlerInv, Coroutines
  <2> QED
    BY <1>3, <2>1, FinallyTurn DEF Turns
<1> QED
  BY <1>1, <1>2, <1>3 DEF ResumeDispatch

-----------------------------------------------------------------------------
(* Every step preserves BasicInv.                                          *)

LEMMA TailTypes ==
  ASSUME TypeOK, NEW c \in Conns, NEW type, Receiving(c, type)
  PROVE  /\ toCoord' \in [Conns -> Seq(CoordFrames)]
         /\ Head(toCoord[c]) \in CoordFrames
         /\ type = "TASK_RESULT" => Head(toCoord[c]).task \in TaskIds
<1>1. toCoord[c] \in Seq(CoordFrames) /\ toCoord[c] # << >>
  BY DEF TypeOK, NetTypeOK, Receiving
<1>2. Head(toCoord[c]) \in CoordFrames /\ Tail(toCoord[c]) \in Seq(CoordFrames)
  BY <1>1
<1> QED
  BY <1>2 DEF TypeOK, NetTypeOK, Receiving, CoordFrames, RegisterFrame

LEMMA ResolveBasic ==
  ASSUME BasicInv, NEW h \in Coroutines, Resolve(h), UNCHANGED workerVars
  PROVE  BasicInv'
<1>1. /\ tasks \in Tables /\ nodes \in Registries /\ RegInv(nodes)
      /\ toCoord \in [Conns -> Seq(CoordFrames)]
  BY DEF BasicInv, TypeOK, CoordTypeOK, NetTypeOK, Tables, Registries,
         RegistryInv, RegInv
<1>2. CASE SendSucceeded(h)
  BY <1>1, <1>2, ResumeTurns, TurnsBasic DEF SendSucceeded, BasicInv
<1>3. CASE SendFailed(h)
  <2>1. job[h] \in Assignment
    BY <1>3 DEF SendFailed, BasicInv, AssignmentInv
  <2>2. MarkTaskFailed(tasks, job[h].task) \in Tables
    BY <1>1, <2>1, TableTypes DEF Assignment
  <2>3. /\ SetNodeBusy(nodes, job[h].node, FALSE) \in Registries
        /\ RegInv(SetNodeBusy(nodes, job[h].node, FALSE))
    BY <1>1, <2>1, RegistryTypes, RegInvKept DEF Assignment
  <2> QED
    BY <1>1, <1>3, <2>2, <2>3, ResumeTurns, TurnsBasic DEF SendFailed, BasicInv
<1> QED
  BY <1>2, <1>3 DEF Resolve

LEMMA RequestBasic ==
  ASSUME BasicInv, NEW h \in Requests, ServeRequest(h), UNCHANGED workerVars
  PROVE  BasicInv'
<1>1. /\ tasks \in Tables /\ nodes \in Registries /\ RegInv(nodes)
      /\ toCoord \in [Conns -> Seq(CoordFrames)]
  BY DEF BasicInv, TypeOK, CoordTypeOK, NetTypeOK, Tables, Registries,
         RegistryInv, RegInv
<1>2. ASSUME NEW T \in Tables, RequestDispatch(h, T, nodes), UNCHANGED toCoord
      PROVE  BasicInv'
  BY <1>1, <1>2, ConnFacts, RequestTurn, TurnsBasic DEF Turns
<1>3. ASSUME NEW need \in Needs, SubmitJob(h, need)
      PROVE  BasicInv'
  BY <1>1, <1>2, <1>3, TableTypes DEF SubmitJob
<1>4. ASSUME NEW t \in TaskIds, RetryJob(h, t)
      PROVE  BasicInv'
  BY <1>1, <1>2, <1>4, TableTypes DEF RetryJob
<1> QED
  BY <1>3, <1>4 DEF ServeRequest

\* A handler that raised before it knew its nodeId, or whose client never
\* registered, ends and cleans nothing up.
LEMMA LeaveBasic ==
  ASSUME BasicInv, NEW c \in Conns, pc[c] \in {"recv", "ack"},
         nodeId[c] = None, Finally(c, tasks, nodes),
         UNCHANGED toCoord, UNCHANGED workerVars
  PROVE  BasicInv'
<1>1. /\ EndDispatch(c, tasks, nodes, "done")
      /\ link' = [link EXCEPT ![c] = "closed"]
      /\ UNCHANGED nodeId
  BY DEF Finally
<1>2. Moves(c, "done") /\ c \in Coroutines
  BY <1>1, ConnFacts DEF Moves, EndDispatch, Locations
<1>3. HandlerInv' /\ TypeOK'
  BY <1>1, <1>2, MovesInv
  DEF BasicInv, TypeOK, NetTypeOK, CoordTypeOK, WorkerTypeOK, workerVars,
      EndDispatch
<1>4. \A d \in Conns, n \in Workers : Served(d, n) => Served(d, n)'
  BY <1>2, ServedKept DEF BasicInv
<1>5. RegistryInv'
  BY <1>1, <1>4, RegistryTypes
  DEF BasicInv, RegistryInv, EndDispatch, TypeOK, CoordTypeOK, Registries,
      Registered
<1>6. \A g \in Coroutines \ {c} : pc'[g] = pc[g] /\ job'[g] = job[g]
  BY <1>1 DEF EndDispatch, BasicInv, TypeOK, CoordTypeOK
<1>7. pc'[c] = "done"
  BY <1>1, <1>2 DEF EndDispatch, BasicInv, TypeOK, CoordTypeOK
<1>8. AssignmentInv'
  BY <1>4, <1>6, <1>7 DEF BasicInv, AssignmentInv, Assignment, Sending
<1>9. DoneClosed'
  BY <1>1, <1>6, ConnFacts DEF BasicInv, DoneClosed, TypeOK, NetTypeOK
<1>10. NoLostWakeup'
  <2> SUFFICES ASSUME CanDispatch(tasks, nodes)
               PROVE  DispatchPromised' \/ \E n \in Workers : IsGhost(n)'
    BY <1>1 DEF NoLostWakeup, EndDispatch
  <2>1. CASE \E h \in Coroutines : pc[h] \in Sending
    <3>1. PICK h \in Coroutines : pc[h] \in Sending
      BY <2>1
    <3>2. h # c
      BY <3>1 DEF Sending
    <3> QED
      BY <1>6, <3>1, <3>2 DEF DispatchPromised
  <2>2. ASSUME NEW n \in Registered(nodes), pc[nodes[n].websocket] \in {"ack", "done"}
        PROVE  DispatchPromised' \/ \E m \in Workers : IsGhost(m)'
    <3>1. n \in Registered(nodes)' /\ nodes'[n].websocket = nodes[n].websocket
      BY <1>1 DEF EndDispatch
    <3>2. nodes[n].websocket \in Coroutines
      BY RegistryTypes, ConnFacts
      DEF BasicInv, TypeOK, CoordTypeOK, Registries, Registered
    <3>3. pc'[nodes[n].websocket] \in {"ack", "done"}
      BY <1>6, <1>7, <2>2, <3>2
    <3> QED
      BY <3>1, <3>3 DEF DispatchPromised, IsGhost, Registered
  <2> QED
    BY <2>1, <2>2
    DEF BasicInv, NoLostWakeup, DispatchPromised, IsGhost
<1> QED
  BY <1>3, <1>5, <1>8, <1>9, <1>10 DEF BasicInv, WorkerInv, workerVars

LEMMA RegisterBasic ==
  ASSUME BasicInv, NEW c \in Conns, HandleRegister(c), UNCHANGED workerVars
  PROVE  BasicInv'
<1>1. /\ pc' = [pc EXCEPT ![c] = "ack"]
      /\ nodes' = Register(nodes, Owner(c), c)
      /\ toWorker' = Delivering(c, AckFrame)
      /\ UNCHANGED <<tasks, job, nodeId, link>>
      /\ pc[c] = "recv"
  BY DEF HandleRegister, Receiving
<1>2. c \in Coroutines /\ Owner(c) \in Workers /\ c # None
  BY ConnFacts
<1>3. pc'[c] = "ack" /\ \A g \in Coroutines \ {c} : pc'[g] = pc[g]
  BY <1>1, <1>2 DEF BasicInv, TypeOK, CoordTypeOK
<1>4. Moves(c, "ack")
  BY <1>1, ConnFacts DEF Moves, Locations
<1>5. TypeOK'
  <2>1. toCoord' \in [Conns -> Seq(CoordFrames)]
    BY TailTypes DEF BasicInv, HandleRegister
  <2>2. toWorker' \in [Conns -> Seq(WorkerFrames)]
    BY <1>1, FrameTypes, DeliveringTypes DEF BasicInv, TypeOK
  <2>3. nodes' \in Registries
    BY <1>1, <1>2, RegistryTypes DEF BasicInv, TypeOK, CoordTypeOK, Registries
  <2>4. pc' \in [Coroutines -> Locations]
    BY <1>4, ConnFacts, MovesInv DEF BasicInv
  <2> QED
    BY <1>1, <2>1, <2>2, <2>3, <2>4
    DEF BasicInv, TypeOK, NetTypeOK, CoordTypeOK, WorkerTypeOK, workerVars,
        Registries
<1>6. HandlerInv'
  BY <1>2, <1>4, MovesInv DEF BasicInv
<1>7. \A d \in Conns, n \in Workers : Served(d, n) => Served(d, n)'
  BY <1>2, <1>4, ServedKept DEF BasicInv
<1>8. RegistryInv'
  <2> SUFFICES ASSUME NEW n \in Registered(nodes)'
               PROVE  Served(nodes[n].websocket, n)'
    BY DEF RegistryInv
  <2>1. CASE n = Owner(c)
    <3>1. nodes'[n].websocket = c
      BY <1>1, <1>2, <2>1
      DEF Register, BasicInv, TypeOK, CoordTypeOK
    <3> QED
      BY <1>3, <2>1, <3>1 DEF Served
  <2>2. CASE n # Owner(c)
    <3>1. n \in Registered(nodes) /\ nodes'[n].websocket = nodes[n].websocket
      BY <1>1, <2>2
      DEF Register, Registered, BasicInv, TypeOK, CoordTypeOK
    <3>2. Served(nodes[n].websocket, n)
      BY <3>1 DEF BasicInv, RegistryInv
    <3> QED
      BY <1>7, <3>1, <3>2 DEF Served, Registered
  <2> QED
    BY <2>1, <2>2
<1>9. AssignmentInv'
  BY <1>1, <1>3, <1>7 DEF BasicInv, AssignmentInv, Assignment, Sending
<1>10. DoneClosed'
  BY <1>1, <1>3, ConnFacts DEF BasicInv, DoneClosed
<1>11. NoLostWakeup'
  <2>1. Owner(c) \in Registered(nodes)' /\ nodes'[Owner(c)].websocket = c
    BY <1>1, <1>2 DEF Register, Registered, BasicInv, TypeOK, CoordTypeOK
  <2> QED
    BY <1>3, <2>1 DEF NoLostWakeup, DispatchPromised
<1> QED
  BY <1>5, <1>6, <1>8, <1>9, <1>10, <1>11 DEF BasicInv, WorkerInv, workerVars

LEMMA ConnectionBasic ==
  ASSUME BasicInv, NEW c \in Conns, ServeConnection(c), UNCHANGED workerVars
  PROVE  BasicInv'
<1>1. /\ tasks \in Tables /\ nodes \in Registries /\ RegInv(nodes)
      /\ toCoord \in [Conns -> Seq(CoordFrames)]
      /\ TypeOK /\ HandlerInv
  BY DEF BasicInv, TypeOK, CoordTypeOK, NetTypeOK, Tables, Registries,
         RegistryInv, RegInv
<1>2. c \in Coroutines /\ Owner(c) \in Workers
  BY ConnFacts
<1>3. CASE HandleRegister(c)
  BY <1>3, RegisterBasic
<1>4. CASE AckSent(c)
  <2>1. Turns(c, tasks, nodes)
    BY <1>1, <1>4, HandlerTurns DEF AckSent
  <2> QED
    BY <1>1, <1>2, <1>4, <2>1, TurnsBasic DEF AckSent
<1>5. ASSUME pc[c] \in {"recv", "ack"}, Finally(c, tasks, nodes),
             UNCHANGED toCoord
      PROVE  BasicInv'
  <2>1. CASE nodeId[c] = None
    BY <1>5, <2>1, LeaveBasic
  <2>2. CASE nodeId[c] # None
    <3>1. Turns(c, tasks, nodes)
      BY <1>1, <1>5, <2>2, CleanUpTurns
    <3> QED
      BY <1>1, <1>2, <1>5, <3>1, TurnsBasic
  <2> QED
    BY <2>1, <2>2
<1>6. CASE AckFailed(c)
  BY <1>5, <1>6 DEF AckFailed
<1>7. CASE HandleTaskResult(c)
  <2>1. Head(toCoord[c]).task \in TaskIds
    BY <1>1, <1>7, TailTypes DEF HandleTaskResult
  <2>2. toCoord' \in [Conns -> Seq(CoordFrames)]
    BY <1>1, <1>7, TailTypes DEF HandleTaskResult
  <2>3. PICK T \in Tables :
          HandlerDispatch(c, T, SetNodeBusy(nodes, Owner(c), FALSE), "result")
    BY <1>1, <1>7, <2>1, TableTypes DEF HandleTaskResult
  <2>4. /\ SetNodeBusy(nodes, Owner(c), FALSE) \in Registries
        /\ RegInv(SetNodeBusy(nodes, Owner(c), FALSE))
    BY <1>1, <1>2, RegistryTypes, RegInvKept
  <2>5. pc[c] = "recv"
    BY <1>7 DEF HandleTaskResult, Receiving
  <2>6. Turns(c, T, SetNodeBusy(nodes, Owner(c), FALSE))
    BY <1>1, <2>3, <2>5, HandlerTurns
  <2> QED
    BY <1>2, <2>2, <2>4, <2>6, TurnsBasic
<1>8. CASE Disconnect(c)
  BY <1>5, <1>8 DEF Disconnect
<1> QED
  BY <1>3, <1>4, <1>6, <1>7, <1>8 DEF ServeConnection

\* Steps that leave the coordinator alone.
LEMMA OutsideBasic ==
  ASSUME BasicInv, TypeOK', WorkerInv', UNCHANGED coordVars,
         \A c \in Conns : link[c] = "closed" => link'[c] = "closed"
  PROVE  BasicInv'
<1>1. UNCHANGED <<tasks, nodes, pc, job, nodeId>>
  BY DEF coordVars
<1>2. HandlerInv' /\ DoneClosed'
  BY <1>1 DEF BasicInv, HandlerInv, DoneClosed
<1>3. RegistryInv' /\ AssignmentInv'
  BY <1>1 DEF BasicInv, RegistryInv, AssignmentInv, Served
<1>4. NoLostWakeup'
  BY <1>1 DEF BasicInv, NoLostWakeup, DispatchPromised, IsGhost, CanDispatch
<1> QED
  BY <1>2, <1>3, <1>4 DEF BasicInv

LEMMA ConnectBasic ==
  ASSUME BasicInv, NEW w \in Workers, Connect(w)
  PROVE  BasicInv'
<1> DEFINE c == <<w, session[w] + 1>>
<1>1. TypeOK' /\ WorkerInv' /\ c \in Conns
  BY ConnectTypes DEF BasicInv
<1>2. /\ pc[c] = "idle"
      /\ pc' = [pc EXCEPT ![c] = "recv"]
      /\ link' = [link EXCEPT ![c] = "open"]
      /\ UNCHANGED <<tasks, nodes, job, nodeId>>
  BY DEF Connect, OpenSession, Accept
<1>3. Moves(c, "recv") /\ c \in Coroutines
  BY <1>1, <1>2, ConnFacts DEF Moves, Locations
<1>4. HandlerInv'
  BY <1>3, MovesInv DEF BasicInv
<1>5. pc'[c] = "recv" /\ \A g \in Coroutines \ {c} : pc'[g] = pc[g]
  BY <1>2, <1>3 DEF BasicInv, TypeOK, CoordTypeOK
<1>6. \A d \in Conns, n \in Workers : Served(d, n) => Served(d, n)'
  BY <1>3, ServedKept DEF BasicInv
<1>7. RegistryInv'
  BY <1>2, <1>6, RegistryTypes
  DEF BasicInv, RegistryInv, TypeOK, CoordTypeOK, Registries, Registered
<1>8. AssignmentInv'
  BY <1>2, <1>5, <1>6 DEF BasicInv, AssignmentInv, Assignment, Sending
<1>9. DoneClosed'
  BY <1>1, <1>2, <1>5, ConnFacts
  DEF BasicInv, DoneClosed, TypeOK, NetTypeOK
<1>10. NoLostWakeup'
  <2>1. \A n \in Registered(nodes) : nodes[n].websocket \in Coroutines \ {c}
    BY <1>2, ConnFacts DEF BasicInv, RegistryInv, Served
  <2>2. \A h \in Coroutines : pc[h] \in Sending => pc'[h] \in Sending
    BY <1>2, <1>5 DEF Sending
  <2> QED
    BY <1>2, <1>5, <2>1, <2>2
    DEF BasicInv, NoLostWakeup, DispatchPromised, IsGhost, CanDispatch
<1> QED
  BY <1>1, <1>4, <1>7, <1>8, <1>9, <1>10 DEF BasicInv

LEMMA NextBasic ==
  ASSUME BasicInv, Next
  PROVE  BasicInv'
<1>1. CASE \E w \in Workers : Connect(w)
  BY <1>1, ConnectBasic
<1>2. CASE CoordinatorStep
  BY <1>2, ResolveBasic, ConnectionBasic, RequestBasic DEF CoordinatorStep
<1>3. CASE ClientStep
  BY <1>3, ClientTypes, OutsideBasic DEF ClientStep, BasicInv
<1>4. CASE NetworkStep
  <2>1. TypeOK' /\ \A c \in Conns : link[c] = "closed" => link'[c] = "closed"
    BY <1>4, NetworkTypes DEF NetworkStep, BasicInv
  <2>2. WorkerInv' /\ UNCHANGED coordVars
    BY <1>4 DEF NetworkStep, BasicInv, WorkerInv, workerVars
  <2> QED
    BY <2>1, <2>2, OutsideBasic
<1> QED
  BY <1>1, <1>2, <1>3, <1>4 DEF Next

LEMMA InitBasic == Init => BasicInv
<1> SUFFICES ASSUME Init PROVE BasicInv
  OBVIOUS
<1>1. NetTypeOK
  BY DEF Init, NetInit, NetTypeOK
<1>2. CoordTypeOK
  BY DEF Init, CoordInit, CoordTypeOK, Task, TaskStatus, NoTask, WorkerNode,
         NoNode, Locations
<1>3. WorkerTypeOK /\ WorkerInv
  BY BoundsAssumption DEF Init, WorkerInit, WorkerTypeOK, WorkerInv
<1>4. HandlerInv /\ DoneClosed
  BY ConnFacts DEF Init, CoordInit, HandlerInv, DoneClosed
<1>5. RegistryInv /\ AssignmentInv
  BY DEF Init, CoordInit, RegistryInv, Registered, NoNode, AssignmentInv,
         Sending
<1>6. NoLostWakeup
  BY DEF Init, CoordInit, NoLostWakeup, CanDispatch, CanAssign,
         IsNextPendingTask, Pending, NoTask
<1> QED
  BY <1>1, <1>2, <1>3, <1>4, <1>5, <1>6 DEF BasicInv, TypeOK

-----------------------------------------------------------------------------
(* No running task is forgotten.                                           *)

WellFormed(T) == \A t \in TaskIds : T[t].status # "absent" => T[t].need.wellFormed

FinallyClosed ==
  AllWellFormed => \A c \in Conns : pc[c] = "finally" => link[c] = "closed"

\* Who will settle task t should worker n not report.
Sends(h, t, n) == pc[h] \in Sending /\ job[h].task = t /\ job[h].node = n

Accounted(t, n) ==
  \/ \E h \in Coroutines : Sends(h, t, n)
  \/ \E c \in Conns : WillCleanUp(c, n)

\* What a turn started on table T may lose track of: coroutine h stops
\* sending, and stops watching over a worker.
LosesNothing(h, T) ==
  \A t \in TaskIds, n \in Workers : t \in GetTasksAssignedTo(T, n) =>
    /\ t \in GetTasksAssignedTo(tasks, n)
    /\ Sends(h, t, n) => \E c \in Conns : WillCleanUp(c, n)'
    /\ h \in Conns /\ WillCleanUp(h, n) => WillCleanUp(h, n)'

LEMMA TurnTables ==
  ASSUME TypeOK, NEW h \in Coroutines, NEW T \in Tables, NEW N \in Registries,
         Turn(h, T, N)
  PROVE  /\ AllWellFormed' => WellFormed(T)
         /\ \A t \in TaskIds, n \in Workers :
              t \in GetTasksAssignedTo(tasks', n) =>
                t \in GetTasksAssignedTo(T, n) \/ Sends(h, t, n)'
<1>1. PICK at \in Locations :
        /\ Moves(h, at)
        /\ \/ at \in Sending /\ AssignTask(h, T, N, at)
           \/ EndDispatch(h, T, N, at)
  BY DEF Turn
<1>2. CASE at \in Sending /\ AssignTask(h, T, N, at)
  <2>1. PICK u \in TaskIds, m \in Workers :
          /\ CanAssign(T, N, u, m)
          /\ tasks' = MarkTaskRunning(T, u, m)
          /\ job' = [job EXCEPT ![h] = [task |-> u, node |-> m,
                                        websocket |-> N[m].websocket]]
    BY <1>2 DEF AssignTask
  <2>2. Sends(h, u, m)'
    BY <1>1, <1>2, <2>1 DEF Sends, Moves, TypeOK, CoordTypeOK
  <2>3. \A t \in TaskIds \ {u} : tasks'[t] = T[t]
    BY <2>1 DEF MarkTaskRunning, Tables
  <2>4. /\ tasks'[u].need = T[u].need
        /\ tasks'[u].assignedTo = m
        /\ tasks'[u].status = "running"
    BY <2>1
    DEF MarkTaskRunning, Tables, Task, CanAssign, IsNextPendingTask, Pending
  <2>5. AllWellFormed' => WellFormed(T)
    BY <2>3, <2>4 DEF AllWellFormed, WellFormed
  <2>6. ASSUME NEW t \in TaskIds, NEW n \in Workers,
               t \in GetTasksAssignedTo(tasks', n)
        PROVE  t \in GetTasksAssignedTo(T, n) \/ Sends(h, t, n)'
    <3>1. CASE t = u
      BY <2>2, <2>4, <2>6, <3>1 DEF GetTasksAssignedTo
    <3>2. CASE t # u
      BY <2>3, <2>6, <3>2 DEF GetTasksAssignedTo
    <3> QED
      BY <3>1, <3>2
  <2> QED
    BY <2>5, <2>6
<1>3. CASE EndDispatch(h, T, N, at)
  BY <1>3 DEF EndDispatch, AllWellFormed, WellFormed, GetTasksAssignedTo
<1> QED
  BY <1>1, <1>2, <1>3

LEMMA TurnMoves ==
  ASSUME TypeOK, NEW h \in Coroutines, NEW T, NEW N, Turn(h, T, N)
  PROVE  /\ \A g \in Coroutines \ {h} : pc'[g] = pc[g] /\ job'[g] = job[g]
         /\ \A c \in Conns \ {h} : nodeId'[c] = nodeId[c] /\ link'[c] = link[c]
         /\ \A c \in Conns : link[c] = "closed" => link'[c] = "closed"
<1>1. PICK at \in Locations :
        /\ Moves(h, at)
        /\ \/ AssignTask(h, T, N, at) /\ UNCHANGED link
           \/ /\ EndDispatch(h, T, N, at)
              /\ IF at = "done" THEN link' = [link EXCEPT ![h] = "closed"]
                                ELSE UNCHANGED link
  BY DEF Turn
<1>2. \A g \in Coroutines \ {h} : pc'[g] = pc[g]
  BY <1>1 DEF Moves, TypeOK, CoordTypeOK
<1>3. \A g \in Coroutines \ {h} : job'[g] = job[g]
  BY <1>1 DEF AssignTask, EndDispatch, TypeOK, CoordTypeOK
<1>4. \A c \in Conns \ {h} : nodeId'[c] = nodeId[c]
  BY <1>1 DEF Moves, TypeOK, CoordTypeOK, Coroutines
<1>5. UNCHANGED link \/ link' = [link EXCEPT ![h] = "closed"]
  BY <1>1
<1>6. \A c \in Conns \ {h} : link'[c] = link[c]
  BY <1>5 DEF TypeOK, NetTypeOK
<1>7. \A c \in Conns : link[c] = "closed" => link'[c] = "closed"
  BY <1>5 DEF TypeOK, NetTypeOK
<1> QED
  BY <1>2, <1>3, <1>4, <1>6, <1>7

LEMMA TurnOwned ==
  ASSUME TypeOK, RunningTaskHasOwner, AllWellFormed,
         NEW h \in Coroutines, NEW T \in Tables, NEW N \in Registries,
         Turn(h, T, N), LosesNothing(h, T)
  PROVE  RunningTaskHasOwner'
<1> SUFFICES ASSUME NEW t \in TaskIds, NEW n \in Workers,
                    t \in GetTasksAssignedTo(tasks', n)
             PROVE  Accounted(t, n)'
  BY DEF RunningTaskHasOwner, Accounted, Sends
<1>1. CASE Sends(h, t, n)'
  BY <1>1 DEF Accounted
<1>2. CASE t \in GetTasksAssignedTo(T, n)
  <2>1. t \in GetTasksAssignedTo(tasks, n)
    BY <1>2 DEF LosesNothing
  <2>2. Accounted(t, n)
    BY <2>1 DEF RunningTaskHasOwner, Accounted, Sends
  <2>3. ASSUME NEW g \in Coroutines, Sends(g, t, n)
        PROVE  Accounted(t, n)'
    <3>1. CASE g = h
      BY <1>2, <2>3, <3>1 DEF LosesNothing, Accounted
    <3>2. CASE g # h
      BY <2>3, <3>2, TurnMoves DEF Sends, Accounted
    <3> QED
      BY <3>1, <3>2
  <2>4. ASSUME NEW c \in Conns, WillCleanUp(c, n)
        PROVE  Accounted(t, n)'
    <3>1. CASE c = h
      BY <1>2, <2>4, <3>1 DEF LosesNothing, Accounted
    <3>2. CASE c # h
      <4>1. pc'[c] = pc[c] /\ nodeId'[c] = nodeId[c]
        BY <3>2, TurnMoves, ConnFacts
      <4> QED
        BY <2>4, <4>1 DEF WillCleanUp, Accounted
    <3> QED
      BY <3>1, <3>2
  <2> QED
    BY <2>2, <2>3, <2>4 DEF Accounted
<1> QED
  BY <1>1, <1>2, TurnTables

LEMMA RaisesMalformed ==
  ASSUME NEW T, NEW N, SelectionRaises(T, N)
  PROVE  ~ WellFormed(T)
BY DEF SelectionRaises, WellFormed, IsNextPendingTask, Pending

\* No operation on the table heals a malformed task, and those that make no
\* task running let no new one appear among the running.
LEMMA TableHistory ==
  ASSUME NEW T \in Tables, NEW t \in TaskIds
  PROVE  /\ \A S \in {MarkTaskCompleted(T, t), MarkTaskFailed(T, t)} :
              /\ WellFormed(S) => WellFormed(T)
              /\ \A n \in Workers :
                   GetTasksAssignedTo(S, n) = GetTasksAssignedTo(T, n) \ {t}
         /\ \A m \in Workers :
              LET S == FailTasksAssignedTo(T, m)
              IN  /\ WellFormed(S) => WellFormed(T)
                  /\ GetTasksAssignedTo(S, m) = {}
                  /\ \A n \in Workers :
                       GetTasksAssignedTo(S, n) \subseteq GetTasksAssignedTo(T, n)
         /\ \A need \in Needs : T[t].status = "absent" =>
              LET S == EnqueueTask(T, t, need)
              IN  /\ WellFormed(S) => WellFormed(T)
                  /\ \A n \in Workers :
                       GetTasksAssignedTo(S, n) \subseteq GetTasksAssignedTo(T, n)
         /\ LET S == RequeueFailedTask(T, t)
            IN  T[t].status = "failed" =>
                  /\ WellFormed(S) => WellFormed(T)
                  /\ \A n \in Workers :
                       GetTasksAssignedTo(S, n) \subseteq GetTasksAssignedTo(T, n)
<1> USE DEF WellFormed, GetTasksAssignedTo, Tables, Task, TaskStatus
<1>1. \A S \in {MarkTaskCompleted(T, t), MarkTaskFailed(T, t)} :
        /\ WellFormed(S) => WellFormed(T)
        /\ \A n \in Workers :
             GetTasksAssignedTo(S, n) = GetTasksAssignedTo(T, n) \ {t}
  BY DEF MarkTaskCompleted, MarkTaskFailed, SettleTask
<1>2. \A m \in Workers :
        LET S == FailTasksAssignedTo(T, m)
        IN  /\ WellFormed(S) => WellFormed(T)
            /\ GetTasksAssignedTo(S, m) = {}
            /\ \A n \in Workers :
                 GetTasksAssignedTo(S, n) \subseteq GetTasksAssignedTo(T, n)
  BY DEF FailTasksAssignedTo
<1>3. \A need \in Needs : T[t].status = "absent" =>
        LET S == EnqueueTask(T, t, need)
        IN  /\ WellFormed(S) => WellFormed(T)
            /\ \A n \in Workers :
                 GetTasksAssignedTo(S, n) \subseteq GetTasksAssignedTo(T, n)
  BY DEF EnqueueTask
<1>4. LET S == RequeueFailedTask(T, t)
      IN  T[t].status = "failed" =>
            /\ WellFormed(S) => WellFormed(T)
            /\ \A n \in Workers :
                 GetTasksAssignedTo(S, n) \subseteq GetTasksAssignedTo(T, n)
  BY DEF RequeueFailedTask
<1> QED
  BY <1>1, <1>2, <1>3, <1>4

\* A handler that goes on keeps watching over its worker.
LEMMA HandlerKeeps ==
  ASSUME TypeOK, NEW c \in Conns, NEW T, NEW N,
         NEW at \in {"register", "result"},
         HandlerDispatch(c, T, N, at), ~ SelectionRaises(T, N),
         at = "register" \/ nodeId[c] = Owner(c)
  PROVE  /\ WillCleanUp(c, Owner(c))'
         /\ pc'[c] # "finally"
<1>1. CASE AssignTask(c, T, N, at) /\ UNCHANGED <<link, nodeId>>
  BY <1>1, ConnFacts DEF AssignTask, WillCleanUp, TypeOK, CoordTypeOK
<1>2. CASE /\ EndDispatch(c, T, N, "recv")
           /\ nodeId' = IF at = "register" THEN [nodeId EXCEPT ![c] = Owner(c)]
                                           ELSE nodeId
  BY <1>2, ConnFacts DEF EndDispatch, WillCleanUp, TypeOK, CoordTypeOK
<1> QED
  BY <1>1, <1>2 DEF HandlerDispatch

OwnedInv == FinallyClosed /\ RunningTaskHasOwner

LEMMA TurnOwnedInv ==
  ASSUME BasicInv, OwnedInv, AllWellFormed,
         NEW h \in Coroutines, NEW T \in Tables, NEW N \in Registries,
         Turn(h, T, N), LosesNothing(h, T),
         pc'[h] = "finally" => link[h] = "closed"
  PROVE  OwnedInv'
<1>1. RunningTaskHasOwner'
  BY TurnOwned DEF BasicInv, OwnedInv
<1>2. FinallyClosed'
  <2> SUFFICES ASSUME NEW c \in Conns, pc'[c] = "finally"
               PROVE  link'[c] = "closed"
    BY DEF FinallyClosed
  <2>1. link[c] = "closed" => link'[c] = "closed"
    BY TurnMoves DEF BasicInv
  <2>2. CASE c = h
    BY <2>1, <2>2
  <2>3. CASE c # h
    BY <2>1, <2>3, TurnMoves, ConnFacts DEF BasicInv, OwnedInv, FinallyClosed
  <2> QED
    BY <2>2, <2>3
<1> QED
  BY <1>1, <1>2 DEF OwnedInv

\* While no task is malformed, a coroutine that resumes takes one more turn.
LEMMA ResumeKeeps ==
  ASSUME BasicInv, AllWellFormed', NEW h \in Coroutines,
         NEW T \in Tables, NEW N \in Registries, ResumeDispatch(h, T, N)
  PROVE  /\ Turn(h, T, N)
         /\ WellFormed(T)
         /\ pc'[h] = "finally" => pc[h] = "finally"
         /\ \A n \in Workers :
              h \in Conns /\ WillCleanUp(h, n) => WillCleanUp(h, n)'
<1>0. TypeOK /\ HandlerInv
  BY DEF BasicInv
<1>1. CASE pc[h] = "request" /\ RequestDispatch(h, T, N)
  <2>1. h \in Requests /\ h \notin Conns
    BY <1>0, <1>1, ConnFacts DEF HandlerInv, Coroutines
  <2>2. Turn(h, T, N)
    BY <1>1, <2>1, RequestTurn
  <2>3. pc'[h] # "finally"
    BY <1>0, <1>1 DEF RequestDispatch, AssignTask, EndDispatch, TypeOK, CoordTypeOK
  <2> QED
    BY <1>0, <2>1, <2>2, <2>3, TurnTables
<1>2. CASE pc[h] \in {"register", "result"} /\ HandlerDispatch(h, T, N, pc[h])
  <2>1. h \in Conns
    BY <1>0, <1>2 DEF HandlerInv, Coroutines
  <2>2. ~ SelectionRaises(T, N)
    <3> SUFFICES ASSUME SelectionRaises(T, N) PROVE FALSE
      OBVIOUS
    <3>1. CASE Turn(h, T, N)
      BY <1>0, <3>1, TurnTables, RaisesMalformed
    <3>2. CASE /\ nodeId[h] \in Workers
               /\ Turn(h, FailTasksAssignedTo(T, nodeId[h]),
                          Unregister(N, nodeId[h]))
      <4>1. FailTasksAssignedTo(T, nodeId[h]) \in Tables
        BY <3>2 DEF FailTasksAssignedTo, Tables, Task, TaskStatus
      <4>2. WellFormed(FailTasksAssignedTo(T, nodeId[h]))
        BY <1>0, <3>2, <4>1, RegistryTypes, TurnTables
      <4>3. WellFormed(T)
        BY <3>2, <4>2 DEF FailTasksAssignedTo, WellFormed, Tables, Task
      <4> QED
        BY <4>3, RaisesMalformed
    <3> QED
      BY <1>0, <1>2, <2>1, <3>1, <3>2, HandlerTurns DEF Turns
  <2>3. Turn(h, T, N)
    BY <1>0, <1>2, <2>1, <2>2, HandlerTurn
  <2>4. ASSUME NEW n \in Workers, WillCleanUp(h, n)
        PROVE  WillCleanUp(h, n)'
    <3>1. n = Owner(h) /\ (pc[h] = "register" \/ nodeId[h] = Owner(h))
      BY <1>0, <1>2, <2>1, <2>4, ConnFacts DEF WillCleanUp, HandlerInv
    <3> QED
      BY <1>0, <1>2, <2>1, <2>2, <3>1, HandlerKeeps
  <2>5. pc'[h] # "finally"
    BY <1>0, <1>2, <2>2
    DEF HandlerDispatch, AssignTask, EndDispatch, TypeOK, CoordTypeOK
  <2> QED
    BY <1>0, <2>3, <2>4, <2>5, TurnTables
<1>3. CASE pc[h] = "finally" /\ FinallyDispatch(h, T, N)
  <2>1. h \in Conns
    BY <1>0, <1>3 DEF HandlerInv, Coroutines
  <2>2. Turn(h, T, N)
    BY <1>3, <2>1, FinallyTurn
  <2> QED
    BY <1>0, <1>3, <2>2, TurnTables DEF WillCleanUp
<1> QED
  BY <1>1, <1>2, <1>3 DEF ResumeDispatch

LEMMA ResolveOwned ==
  ASSUME BasicInv, OwnedInv, NEW h \in Coroutines, Resolve(h)
  PROVE  OwnedInv'
<1> SUFFICES ASSUME AllWellFormed' PROVE OwnedInv'
  BY DEF OwnedInv, FinallyClosed, RunningTaskHasOwner
<1>1. tasks \in Tables /\ nodes \in Registries
  BY DEF BasicInv, TypeOK, CoordTypeOK, Tables, Registries
<1>2. pc[h] \in Sending =>
        /\ job[h] \in Assignment
        /\ Served(job[h].websocket, job[h].node)
  BY DEF BasicInv, AssignmentInv
<1>3. CASE SendSucceeded(h)
  <2>1. /\ ResumeDispatch(h, tasks, nodes)
        /\ pc[h] \in Sending
        /\ link[job[h].websocket] \in {"open", "lost"}
        /\ pc[job[h].websocket] # "ack"
    BY <1>3 DEF SendSucceeded
  <2>2. /\ Turn(h, tasks, nodes)
        /\ AllWellFormed
        /\ pc'[h] = "finally" => pc[h] = "finally"
        /\ \A n \in Workers :
             h \in Conns /\ WillCleanUp(h, n) => WillCleanUp(h, n)'
    BY <1>1, <2>1, ResumeKeeps DEF WellFormed, AllWellFormed
  <2>3. pc'[h] = "finally" => link[h] = "closed"
    BY <2>2 DEF OwnedInv, FinallyClosed, BasicInv, HandlerInv, Coroutines
  <2>4. ASSUME NEW n \in Workers, n = job[h].node
        PROVE  \E c \in Conns : WillCleanUp(c, n)'
    <3>1. PICK c \in Conns : c = job[h].websocket
      BY <1>2, <2>1 DEF Assignment
    <3>2. c \in Coroutines /\ Served(c, n)
      BY <1>2, <2>1, <2>4, <3>1, ConnFacts
    <3>3. pc[c] \in {"recv", "register", "result"}
      BY <2>1, <2>2, <3>1, <3>2
      DEF Served, BasicInv, DoneClosed, OwnedInv, FinallyClosed, HandlerInv,
          TypeOK, CoordTypeOK, Locations, Sending
    <3>4. WillCleanUp(c, n)
      BY <3>2, <3>3 DEF Served, WillCleanUp
    <3>5. CASE c = h
      BY <2>2, <3>4, <3>5
    <3>6. CASE c # h
      <4>1. pc'[c] = pc[c] /\ nodeId'[c] = nodeId[c]
        BY <1>1, <2>2, <3>2, <3>6, TurnMoves DEF BasicInv
      <4> QED
        BY <3>4, <4>1 DEF WillCleanUp
    <3> QED
      BY <3>5, <3>6
  <2>5. LosesNothing(h, tasks)
    BY <1>2, <2>1, <2>2, <2>4 DEF LosesNothing, Sends, Assignment
  <2> QED
    BY <1>1, <2>2, <2>3, <2>5, TurnOwnedInv
<1>4. CASE SendFailed(h)
  <2> DEFINE T == MarkTaskFailed(tasks, job[h].task)
             N == SetNodeBusy(nodes, job[h].node, FALSE)
  <2>1. /\ ResumeDispatch(h, T, N)
        /\ pc[h] \in Sending
        /\ job[h] \in Assignment
    BY <1>2, <1>4 DEF SendFailed
  <2>2. T \in Tables /\ N \in Registries
    BY <1>1, <2>1, TableTypes, RegistryTypes DEF Assignment
  <2> HIDE DEF T, N
  <2>3. /\ Turn(h, T, N)
        /\ WellFormed(T)
        /\ pc'[h] = "finally" => pc[h] = "finally"
        /\ \A n \in Workers :
             h \in Conns /\ WillCleanUp(h, n) => WillCleanUp(h, n)'
    BY <2>1, <2>2, ResumeKeeps
  <2>4. /\ AllWellFormed
        /\ \A n \in Workers :
             GetTasksAssignedTo(T, n) = GetTasksAssignedTo(tasks, n) \ {job[h].task}
    BY <1>1, <2>1, <2>3, TableHistory DEF T, Assignment, WellFormed, AllWellFormed
  <2>5. pc'[h] = "finally" => link[h] = "closed"
    BY <2>3, <2>4 DEF OwnedInv, FinallyClosed, BasicInv, HandlerInv, Coroutines
  <2>6. LosesNothing(h, T)
    BY <2>3, <2>4 DEF LosesNothing, Sends
  <2> QED
    BY <2>2, <2>3, <2>4, <2>5, <2>6, TurnOwnedInv
<1> QED
  BY <1>3, <1>4 DEF Resolve

LEMMA RequestOwned ==
  ASSUME BasicInv, OwnedInv, NEW h \in Requests, ServeRequest(h)
  PROVE  OwnedInv'
<1> SUFFICES ASSUME AllWellFormed' PROVE OwnedInv'
  BY DEF OwnedInv, FinallyClosed, RunningTaskHasOwner
<1>1. /\ tasks \in Tables /\ nodes \in Registries
      /\ TypeOK /\ h \in Coroutines /\ h \notin Conns
  BY ConnFacts DEF BasicInv, TypeOK, CoordTypeOK, Tables, Registries
<1>2. ASSUME NEW T \in Tables, RequestDispatch(h, T, nodes), pc[h] = "idle",
             WellFormed(T) => WellFormed(tasks),
             \A n \in Workers :
               GetTasksAssignedTo(T, n) \subseteq GetTasksAssignedTo(tasks, n)
      PROVE  OwnedInv'
  <2>1. Turn(h, T, nodes)
    BY <1>2, RequestTurn
  <2>2. AllWellFormed
    BY <1>1, <1>2, <2>1, TurnTables DEF WellFormed, AllWellFormed
  <2>3. LosesNothing(h, T)
    BY <1>1, <1>2 DEF LosesNothing, Sends, Sending
  <2>4. pc'[h] # "finally"
    BY <1>1, <1>2
    DEF RequestDispatch, AssignTask, EndDispatch, TypeOK, CoordTypeOK
  <2> QED
    BY <1>1, <2>1, <2>2, <2>3, <2>4, TurnOwnedInv
<1>3. ASSUME NEW need \in Needs, SubmitJob(h, need)
      PROVE  OwnedInv'
  <2>1. PICK t \in TaskIds :
          /\ tasks[t].status = "absent"
          /\ RequestDispatch(h, EnqueueTask(tasks, t, need), nodes)
    BY <1>3 DEF SubmitJob, IsNextId
  <2> DEFINE T == EnqueueTask(tasks, t, need)
  <2>2. T \in Tables
    BY <1>1, <1>3, TableTypes
  <2>3. /\ WellFormed(T) => WellFormed(tasks)
        /\ \A n \in Workers :
             GetTasksAssignedTo(T, n) \subseteq GetTasksAssignedTo(tasks, n)
    BY <1>1, <1>3, <2>1, TableHistory
  <2>4. pc[h] = "idle"
    BY <1>3 DEF SubmitJob
  <2> HIDE DEF T
  <2> QED
    BY <1>2, <2>1, <2>2, <2>3, <2>4 DEF T
<1>4. ASSUME NEW t \in TaskIds, RetryJob(h, t)
      PROVE  OwnedInv'
  BY <1>1, <1>2, <1>4, TableTypes, TableHistory DEF RetryJob
<1> QED
  BY <1>3, <1>4 DEF ServeRequest

\* A handler that ends fails the running tasks of the worker it knows.
LEMMA FinallyOwned ==
  ASSUME BasicInv, OwnedInv, NEW c \in Conns, pc[c] \in {"recv", "ack"},
         link[c] = "closed", Finally(c, tasks, nodes), AllWellFormed'
  PROVE  OwnedInv'
<1>1. /\ tasks \in Tables /\ nodes \in Registries
      /\ TypeOK /\ HandlerInv /\ c \in Coroutines
  BY ConnFacts DEF BasicInv, TypeOK, CoordTypeOK, Tables, Registries
<1>2. CASE nodeId[c] = None
  <2>1. /\ EndDispatch(c, tasks, nodes, "done")
        /\ link' = [link EXCEPT ![c] = "closed"]
        /\ UNCHANGED nodeId
    BY <1>2 DEF Finally
  <2>2. /\ AllWellFormed
        /\ \A g \in Coroutines \ {c} : pc'[g] = pc[g] /\ job'[g] = job[g]
        /\ pc'[c] = "done"
    BY <1>1, <2>1 DEF EndDispatch, AllWellFormed, TypeOK, CoordTypeOK
  <2>3. FinallyClosed'
    BY <1>1, <2>1, <2>2, ConnFacts
    DEF OwnedInv, FinallyClosed, TypeOK, NetTypeOK
  <2>4. RunningTaskHasOwner'
    <3> SUFFICES ASSUME NEW t \in TaskIds, NEW n \in Workers,
                        t \in GetTasksAssignedTo(tasks, n)
                 PROVE  Accounted(t, n)'
      BY <2>1 DEF RunningTaskHasOwner, Accounted, Sends, EndDispatch
    <3>1. Accounted(t, n)
      BY <2>2 DEF OwnedInv, RunningTaskHasOwner, Accounted, Sends
    <3>2. \A g \in Coroutines : Sends(g, t, n) => Sends(g, t, n)'
      BY <2>2 DEF Sends, Sending
    <3>3. \A d \in Conns : WillCleanUp(d, n) => WillCleanUp(d, n)'
      BY <1>2, <2>1, <2>2, ConnFacts DEF WillCleanUp
    <3> QED
      BY <3>1, <3>2, <3>3 DEF Accounted
  <2> QED
    BY <2>3, <2>4 DEF OwnedInv
<1>3. CASE nodeId[c] # None
  <2> DEFINE T == FailTasksAssignedTo(tasks, nodeId[c])
             N == Unregister(nodes, nodeId[c])
  <2>1. nodeId[c] \in Workers /\ nodeId[c] = Owner(c)
    BY <1>1, <1>3, ConnFacts DEF HandlerInv
  <2>2. FinallyDispatch(c, T, N)
    BY <1>3 DEF Finally
  <2>3. N \in Registries
    BY <1>1, <2>1, RegistryTypes
  <2>4. T \in Tables
    BY <1>1, <2>1 DEF FailTasksAssignedTo, Tables, Task, TaskStatus
  <2>5. Turn(c, T, N)
    BY <2>1, <2>2, FinallyTurn
  <2>6. WellFormed(T)
    BY <1>1, <2>3, <2>4, <2>5, TurnTables
  <2>7. AllWellFormed
    BY <1>1, <2>6
    DEF FailTasksAssignedTo, WellFormed, AllWellFormed, Tables, Task
  <2>8. LosesNothing(c, T)
    <3> SUFFICES ASSUME NEW t \in TaskIds, NEW n \in Workers,
                        t \in GetTasksAssignedTo(T, n)
                 PROVE  /\ t \in GetTasksAssignedTo(tasks, n)
                        /\ ~ Sends(c, t, n) /\ ~ WillCleanUp(c, n)
      BY DEF LosesNothing
    <3>1. t \in GetTasksAssignedTo(tasks, n) /\ n # nodeId[c]
      BY <1>1 DEF FailTasksAssignedTo, GetTasksAssignedTo, Tables, Task
    <3> QED
      BY <3>1 DEF Sends, WillCleanUp, Sending
  <2> QED
    BY <1>1, <2>3, <2>4, <2>5, <2>7, <2>8, TurnOwnedInv
<1> QED
  BY <1>2, <1>3

LEMMA ConnectionOwned ==
  ASSUME BasicInv, OwnedInv, NEW c \in Conns, ServeConnection(c)
  PROVE  OwnedInv'
<1> SUFFICES ASSUME AllWellFormed' PROVE OwnedInv'
  BY DEF OwnedInv, FinallyClosed, RunningTaskHasOwner
<1>1. /\ tasks \in Tables /\ nodes \in Registries
      /\ TypeOK /\ HandlerInv
      /\ c \in Coroutines /\ Owner(c) \in Workers
  BY ConnFacts DEF BasicInv, TypeOK, CoordTypeOK, Tables, Registries
<1>2. ASSUME NEW T \in Tables, NEW N \in Registries,
             NEW at \in {"register", "result"},
             at = "register" => pc[c] = "ack",
             at = "result" => pc[c] = "recv",
             HandlerDispatch(c, T, N, at),
             WellFormed(T) => WellFormed(tasks),
             \A n \in Workers :
               GetTasksAssignedTo(T, n) \subseteq GetTasksAssignedTo(tasks, n)
      PROVE  OwnedInv'
  <2>1. ~ SelectionRaises(T, N)
    <3> SUFFICES ASSUME SelectionRaises(T, N) PROVE FALSE
      OBVIOUS
    <3>1. CASE Turn(c, T, N)
      BY <1>1, <3>1, TurnTables, RaisesMalformed
    <3>2. CASE /\ nodeId[c] \in Workers
               /\ Turn(c, FailTasksAssignedTo(T, nodeId[c]),
                          Unregister(N, nodeId[c]))
      <4>1. FailTasksAssignedTo(T, nodeId[c]) \in Tables
        BY <3>2 DEF FailTasksAssignedTo, Tables, Task, TaskStatus
      <4>2. WellFormed(FailTasksAssignedTo(T, nodeId[c]))
        BY <1>1, <3>2, <4>1, RegistryTypes, TurnTables
      <4>3. WellFormed(T)
        BY <3>2, <4>2 DEF FailTasksAssignedTo, WellFormed, Tables, Task
      <4> QED
        BY <4>3, RaisesMalformed
    <3> QED
      BY <1>1, <1>2, <3>1, <3>2, HandlerTurns DEF Turns
  <2>2. Turn(c, T, N)
    BY <1>1, <1>2, <2>1, HandlerTurn
  <2>3. AllWellFormed
    BY <1>1, <1>2, <2>2, TurnTables DEF WellFormed, AllWellFormed
  <2>4. pc'[c] # "finally"
    BY <1>1, <1>2, <2>1
    DEF HandlerDispatch, AssignTask, EndDispatch, TypeOK, CoordTypeOK
  <2>5. ASSUME NEW n \in Workers, WillCleanUp(c, n)
        PROVE  WillCleanUp(c, n)'
    <3>1. n = Owner(c) /\ (at = "register" \/ nodeId[c] = Owner(c))
      BY <1>1, <1>2, <2>5, ConnFacts DEF WillCleanUp, HandlerInv
    <3> QED
      BY <1>1, <1>2, <2>1, <3>1, HandlerKeeps
  <2>6. LosesNothing(c, T)
    BY <1>2, <2>5 DEF LosesNothing, Sends, Sending
  <2> QED
    BY <1>1, <1>2, <2>2, <2>3, <2>4, <2>6, TurnOwnedInv
<1>3. CASE HandleRegister(c)
  <2>1. /\ pc[c] = "recv"
        /\ pc' = [pc EXCEPT ![c] = "ack"]
        /\ UNCHANGED <<tasks, job, nodeId, link>>
    BY <1>3 DEF HandleRegister, Receiving
  <2>2. pc'[c] = "ack" /\ \A g \in Coroutines \ {c} : pc'[g] = pc[g]
    BY <1>1, <2>1 DEF TypeOK, CoordTypeOK
  <2>3. FinallyClosed'
    BY <2>1, <2>2, ConnFacts DEF OwnedInv, FinallyClosed, AllWellFormed
  <2>4. \A g \in Coroutines, t \in TaskIds, n \in Workers :
          Sends(g, t, n) => Sends(g, t, n)'
    BY <2>1, <2>2 DEF Sends, Sending
  <2>5. \A d \in Conns, n \in Workers : WillCleanUp(d, n) => WillCleanUp(d, n)'
    BY <2>1, <2>2, ConnFacts DEF WillCleanUp
  <2>6. \A t \in TaskIds, n \in Workers : Accounted(t, n) => Accounted(t, n)'
    BY <2>4, <2>5 DEF Accounted
  <2>7. RunningTaskHasOwner'
    BY <2>1, <2>6
    DEF OwnedInv, RunningTaskHasOwner, AllWellFormed, Accounted, Sends
  <2> QED
    BY <2>3, <2>7 DEF OwnedInv
<1>4. CASE AckSent(c)
  BY <1>1, <1>2, <1>4 DEF AckSent
<1>5. CASE AckFailed(c)
  BY <1>5, FinallyOwned DEF AckFailed
<1>6. CASE HandleTaskResult(c)
  <2>1. Head(toCoord[c]).task \in TaskIds
    BY <1>1, <1>6, TailTypes DEF HandleTaskResult
  <2>2. PICK T \in {MarkTaskCompleted(tasks, Head(toCoord[c]).task),
                    MarkTaskFailed(tasks, Head(toCoord[c]).task)} :
          HandlerDispatch(c, T, SetNodeBusy(nodes, Owner(c), FALSE), "result")
    BY <1>6 DEF HandleTaskResult
  <2>3. /\ T \in Tables
        /\ WellFormed(T) => WellFormed(tasks)
        /\ \A n \in Workers :
             GetTasksAssignedTo(T, n) \subseteq GetTasksAssignedTo(tasks, n)
    BY <1>1, <2>1, <2>2, TableTypes, TableHistory
  <2>4. SetNodeBusy(nodes, Owner(c), FALSE) \in Registries
    BY <1>1, RegistryTypes
  <2>5. pc[c] = "recv"
    BY <1>6 DEF HandleTaskResult, Receiving
  <2> QED
    BY <1>2, <2>2, <2>3, <2>4, <2>5
<1>7. CASE Disconnect(c)
  BY <1>7, FinallyOwned DEF Disconnect
<1> QED
  BY <1>3, <1>4, <1>5, <1>6, <1>7 DEF ServeConnection

LEMMA OutsideOwned ==
  ASSUME OwnedInv, UNCHANGED coordVars,
         \A c \in Conns : link[c] = "closed" => link'[c] = "closed"
  PROVE  OwnedInv'
<1>1. UNCHANGED <<tasks, nodes, pc, job, nodeId>>
  BY DEF coordVars
<1>2. FinallyClosed'
  BY <1>1 DEF OwnedInv, FinallyClosed, AllWellFormed
<1>3. RunningTaskHasOwner'
  BY <1>1 DEF OwnedInv, RunningTaskHasOwner, AllWellFormed, WillCleanUp,
              GetTasksAssignedTo
<1> QED
  BY <1>2, <1>3 DEF OwnedInv

LEMMA ConnectOwned ==
  ASSUME BasicInv, OwnedInv, NEW w \in Workers, Connect(w)
  PROVE  OwnedInv'
<1> DEFINE c == <<w, session[w] + 1>>
<1>1. c \in Conns /\ c \in Coroutines
  BY ConnectTypes, ConnFacts DEF BasicInv
<1>2. /\ pc[c] = "idle"
      /\ pc' = [pc EXCEPT ![c] = "recv"]
      /\ link' = [link EXCEPT ![c] = "open"]
      /\ UNCHANGED <<tasks, nodes, job, nodeId>>
  BY DEF Connect, OpenSession, Accept
<1>3. pc'[c] = "recv" /\ \A g \in Coroutines \ {c} : pc'[g] = pc[g]
  BY <1>1, <1>2 DEF BasicInv, TypeOK, CoordTypeOK
<1>4. FinallyClosed'
  BY <1>1, <1>2, <1>3, ConnFacts
  DEF OwnedInv, FinallyClosed, AllWellFormed, BasicInv, TypeOK, NetTypeOK
<1>5. \A g \in Coroutines, t \in TaskIds, n \in Workers :
        Sends(g, t, n) => Sends(g, t, n)'
  BY <1>2, <1>3 DEF Sends, Sending
<1>6. \A d \in Conns, n \in Workers : WillCleanUp(d, n) => WillCleanUp(d, n)'
  BY <1>2, <1>3, ConnFacts DEF WillCleanUp
<1>7. \A t \in TaskIds, n \in Workers : Accounted(t, n) => Accounted(t, n)'
  BY <1>5, <1>6 DEF Accounted
<1>8. RunningTaskHasOwner'
  BY <1>2, <1>7
  DEF OwnedInv, RunningTaskHasOwner, AllWellFormed, Accounted, Sends
<1> QED
  BY <1>4, <1>8 DEF OwnedInv

LEMMA NextOwned ==
  ASSUME BasicInv, OwnedInv, Next
  PROVE  OwnedInv'
<1>1. CASE \E w \in Workers : Connect(w)
  BY <1>1, ConnectOwned
<1>2. CASE CoordinatorStep
  BY <1>2, ResolveOwned, ConnectionOwned, RequestOwned DEF CoordinatorStep
<1>3. CASE ClientStep
  BY <1>3, ClientTypes, OutsideOwned DEF ClientStep, BasicInv
<1>4. CASE NetworkStep
  <2>1. \A c \in Conns : link[c] = "closed" => link'[c] = "closed"
    BY <1>4, NetworkTypes DEF NetworkStep, BasicInv
  <2>2. UNCHANGED coordVars
    BY <1>4 DEF NetworkStep
  <2> QED
    BY <2>1, <2>2, OutsideOwned
<1> QED
  BY <1>1, <1>2, <1>3, <1>4 DEF Next

LEMMA InitOwned == Init => OwnedInv
BY ConnFacts
DEF Init, CoordInit, OwnedInv, FinallyClosed, RunningTaskHasOwner,
    GetTasksAssignedTo, NoTask

LEMMA IInvSplit == IInv <=> BasicInv /\ OwnedInv
BY DEF IInv, BasicInv, OwnedInv, ClosedInv, DoneClosed, FinallyClosed

-----------------------------------------------------------------------------
(* The theorems.                                                           *)

\* IInv is an inductive invariant of the cluster.
THEOREM Invariance == Spec => []IInv
<1>1. Init => IInv
  BY InitBasic, InitOwned, IInvSplit
<1>2. IInv /\ [Next]_vars => IInv'
  <2> SUFFICES ASSUME IInv, [Next]_vars
               PROVE  IInv'
    OBVIOUS
  <2>1. BasicInv /\ OwnedInv
    BY IInvSplit
  <2>2. CASE Next
    <3>1. BasicInv' /\ OwnedInv'
      BY <2>1, <2>2, NextBasic, NextOwned
    <3> QED
      BY <3>1, IInvSplit
      DEF IInv, BasicInv, OwnedInv, ClosedInv, DoneClosed, FinallyClosed
  <2>3. CASE UNCHANGED vars
    <3>1. UNCHANGED <<coordVars, workerVars, netVars>>
      BY <2>3 DEF vars
    <3>2. TypeOK' /\ WorkerInv' /\ UNCHANGED link
      BY <2>1, <3>1
      DEF BasicInv, TypeOK, NetTypeOK, CoordTypeOK, WorkerTypeOK, WorkerInv,
          coordVars, workerVars, netVars
    <3>3. BasicInv' /\ OwnedInv'
      BY <2>1, <3>1, <3>2, OutsideBasic, OutsideOwned
    <3> QED
      BY <3>3
      DEF IInv, BasicInv, OwnedInv, ClosedInv, DoneClosed, FinallyClosed
  <2> QED
    BY <2>2, <2>3
<1> QED
  BY <1>1, <1>2, PTL DEF Spec

\* Every variable of coordinator, workers and network keeps its type,
\* whatever is lost, crashes or raises.
THEOREM TypeCorrectness == Spec => []TypeOK
<1>1. IInv => TypeOK
  BY DEF IInv
<1> QED
  BY <1>1, Invariance, PTL

\* dispatchPending's callers lose no wakeup: an assignable task is about to
\* be looked at by some coroutine, or a ghost registration is in the way.
THEOREM WakeupsAreKept == Spec => []NoLostWakeup
<1>1. IInv => NoLostWakeup
  BY DEF IInv
<1> QED
  BY <1>1, Invariance, PTL

\* A task marked RUNNING is being sent, or its worker's connection handler
\* is alive and fails it at the latest when the connection ends.
THEOREM RunningTasksAreOwned == Spec => []RunningTaskHasOwner
<1>1. IInv => RunningTaskHasOwner
  BY DEF IInv
<1> QED
  BY <1>1, Invariance, PTL

=============================================================================
