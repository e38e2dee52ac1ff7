----------------------------- MODULE QueueProofs -----------------------------
(***************************************************************************)
(* Proof that Cluster implements TaskQueue: for every set of workers, jobs *)
(* and requests and every bound, a client of /jobs sees a queue.           *)
(***************************************************************************)
EXTENDS ClusterQueue, FrameProofs, FiniteSetTheorems

-----------------------------------------------------------------------------
(* The number of frames of one kind in a queue.                            *)

Match(q, type, t) == {i \in DOMAIN q : q[i].type = type /\ q[i].task = t}

LEMMA MatchFinite ==
  ASSUME NEW S, NEW q \in Seq(S), NEW type, NEW t
  PROVE  /\ DOMAIN q = 1 .. Len(q) /\ Len(q) \in Nat
         /\ IsFiniteSet(Match(q, type, t))
         /\ Frames(q, type, t) = Cardinality(Match(q, type, t))
         /\ Frames(q, type, t) \in Nat
<1>1. DOMAIN q = 1 .. Len(q) /\ Len(q) \in Nat
  BY LenProperties
<1>2. IsFiniteSet(1 .. Len(q))
  BY <1>1, FS_Interval
<1>3. IsFiniteSet(Match(q, type, t))
  BY <1>1, <1>2, FS_Subset DEF Match
<1>4. Frames(q, type, t) = Cardinality(Match(q, type, t))
  BY DEF Frames, Match
<1> QED
  BY <1>1, <1>3, <1>4, FS_CardinalityType

LEMMA FramesOfNone ==
  ASSUME NEW type, NEW t
  PROVE  Frames(<< >>, type, t) = 0
<1>1. Match(<< >>, type, t) = {}
  BY DEF Match
<1> QED
  BY <1>1, FS_EmptySet DEF Frames, Match

LEMMA FramesAppended ==
  ASSUME NEW S, NEW q \in Seq(S), NEW f \in S, NEW type, NEW t
  PROVE  /\ f.type = type /\ f.task = t
              => Frames(Append(q, f), type, t) = Frames(q, type, t) + 1
         /\ ~ (f.type = type /\ f.task = t)
              => Frames(Append(q, f), type, t) = Frames(q, type, t)
<1> DEFINE p == Append(q, f)
<1>1. /\ p \in Seq(S) /\ Len(p) = Len(q) + 1
      /\ \A i \in 1 .. Len(q) : p[i] = q[i]
      /\ p[Len(q) + 1] = f
  BY AppendProperties, LenProperties
<1>2. /\ DOMAIN q = 1 .. Len(q) /\ Len(q) \in Nat
      /\ IsFiniteSet(Match(q, type, t))
      /\ Frames(q, type, t) = Cardinality(Match(q, type, t))
      /\ Frames(q, type, t) \in Nat
  BY MatchFinite
<1>3. /\ DOMAIN p = 1 .. Len(p)
      /\ Frames(p, type, t) = Cardinality(Match(p, type, t))
  BY <1>1, MatchFinite
<1> HIDE DEF p
<1>4. Len(q) + 1 \notin Match(q, type, t)
  BY <1>2 DEF Match
<1>5. CASE f.type = type /\ f.task = t
  <2>1. Match(p, type, t) = Match(q, type, t) \cup {Len(q) + 1}
    BY <1>1, <1>2, <1>3, <1>5 DEF Match
  <2> QED
    BY <1>2, <1>3, <1>4, <1>5, <2>1, FS_AddElement DEF p
<1>6. CASE ~ (f.type = type /\ f.task = t)
  <2>1. Match(p, type, t) = Match(q, type, t)
    BY <1>1, <1>2, <1>3, <1>6 DEF Match
  <2> QED
    BY <1>2, <1>3, <1>6, <2>1 DEF p
<1> QED
  BY <1>5, <1>6

LEMMA FramesTail ==
  ASSUME NEW S, NEW q \in Seq(S), q # << >>, NEW type, NEW t
  PROVE  /\ Frames(Tail(q), type, t) \in Nat
         /\ Frames(Tail(q), type, t) <= Frames(q, type, t)
         /\ Head(q).type = type /\ Head(q).task = t
              => Frames(Tail(q), type, t) <= Frames(q, type, t) - 1
<1> DEFINE p == Tail(q)
           M == Match(q, type, t)
           f == [i \in Match(p, type, t) |-> i + 1]
<1>1. /\ p \in Seq(S) /\ Len(q) \in Nat /\ Len(q) > 0 /\ Len(p) = Len(q) - 1
      /\ \A i \in 1 .. Len(p) : p[i] = q[i + 1]
      /\ Head(q) = q[1]
  BY HeadTailProperties, LenProperties, EmptySeq
<1>2. /\ DOMAIN q = 1 .. Len(q)
      /\ IsFiniteSet(M) /\ Frames(q, type, t) = Cardinality(M)
      /\ Frames(q, type, t) \in Nat
  BY MatchFinite
<1>3. /\ DOMAIN p = 1 .. Len(p)
      /\ Frames(p, type, t) = Cardinality(Match(p, type, t))
      /\ Frames(p, type, t) \in Nat
  BY <1>1, MatchFinite
<1> HIDE DEF p
<1>4. \A i \in Match(p, type, t) : i \in Nat /\ i + 1 \in M \ {1}
  BY <1>1, <1>2, <1>3 DEF Match
<1>5. f \in Injection(Match(p, type, t), M \ {1})
  BY <1>4 DEF Injection, IsInjective
<1>6. /\ IsFiniteSet(M \ {1})
      /\ Cardinality(M \ {1}) = IF 1 \in M THEN Cardinality(M) - 1 ELSE Cardinality(M)
  BY <1>2, FS_RemoveElement
<1>7. Cardinality(Match(p, type, t)) <= Cardinality(M \ {1})
  BY <1>5, <1>6, FS_Injection
<1>8. Head(q).type = type /\ Head(q).task = t => 1 \in M
  BY <1>1, <1>2 DEF Match
<1> QED
  BY <1>2, <1>3, <1>6, <1>7, <1>8 DEF p

LEMMA FramesPrefix ==
  ASSUME NEW S, NEW q \in Seq(S), NEW k \in 0 .. Len(q), NEW type, NEW t
  PROVE  /\ Frames(SubSeq(q, 1, k), type, t) \in Nat
         /\ Frames(SubSeq(q, 1, k), type, t) <= Frames(q, type, t)
<1> DEFINE p == SubSeq(q, 1, k)
<1>1. /\ Len(q) \in Nat /\ DOMAIN q = 1 .. Len(q)
      /\ IsFiniteSet(Match(q, type, t))
      /\ Frames(q, type, t) = Cardinality(Match(q, type, t))
      /\ Frames(q, type, t) \in Nat
  BY MatchFinite
<1>2. p \in Seq(S) /\ Len(p) = k /\ \A j \in 1 .. k : p[j] = q[j]
  BY <1>1, SMT
<1>3. /\ DOMAIN p = 1 .. Len(p)
      /\ Frames(p, type, t) = Cardinality(Match(p, type, t))
      /\ Frames(p, type, t) \in Nat
  BY <1>2, MatchFinite
<1> HIDE DEF p
<1>4. Match(p, type, t) \subseteq Match(q, type, t)
  BY <1>1, <1>2, <1>3 DEF Match
<1> QED
  BY <1>1, <1>3, <1>4, FS_Subset DEF p

-----------------------------------------------------------------------------
(* The abstract state, and how a step of Cluster ends in it.               *)

StatusOf(T) == [t \in TaskIds |-> T[t].status]
OwedNow == [t \in TaskIds |-> [c \in Conns |-> Owed(t, c)]]
SendingNow == {t \in TaskIds : \E h \in Coroutines : IsSending(h, t)}

Statuses == [TaskIds -> TaskStatus]
Debts == [TaskIds -> [Conns -> Nat]]

LEMMA StatusTypes ==
  ASSUME NEW T \in Tables
  PROVE  StatusOf(T) \in Statuses
BY DEF StatusOf, Statuses, Tables, Task

LEMMA OwedTypes == NetTypeOK => OwedNow \in Debts
<1> SUFFICES ASSUME NetTypeOK, NEW t \in TaskIds, NEW c \in Conns
             PROVE  Owed(t, c) \in Nat
  BY DEF OwedNow, Debts
<1>1. toWorker[c] \in Seq(WorkerFrames) /\ toCoord[c] \in Seq(CoordFrames)
  BY DEF NetTypeOK
<1>2. /\ Frames(toWorker[c], "TASK_ASSIGN", t) \in Nat
      /\ Frames(toCoord[c], "TASK_RESULT", t) \in Nat
  BY <1>1, MatchFinite
<1> QED
  BY <1>2 DEF Owed

LEMMA OwedTypesNext == (NetTypeOK => OwedNow \in Debts)'
BY OwedTypes, PTL

\* TaskQueue's AtMost and Proceed, spelled out in the variables of Cluster.
Bounded(O, D) ==
  /\ OwedNow' \in Debts
  /\ \A t \in TaskIds, c \in Conns : OwedNow'[t][c] <= O[t][c]
  /\ SendingNow' \subseteq D

Proceeds(S, O) ==
  \E G \in SUBSET {t \in TaskIds : S[t] = "running"} :
    LET F == [t \in TaskIds |-> IF t \in G THEN "failed" ELSE S[t]]
    IN  \/ StatusOf(tasks') = F /\ Bounded(O, SendingNow)
        \/ \E t \in TaskIds, c \in Conns :
             /\ Queue!Oldest(F, t)
             /\ StatusOf(tasks') = [F EXCEPT ![t] = "running"]
             /\ Bounded([O EXCEPT ![t][c] = @ + 1], SendingNow \cup {t})

\* A step that dispatches nothing and gives up the running tasks of G.
LEMMA EndsThere ==
  ASSUME NetTypeOK', NEW S \in Statuses, NEW O \in Debts,
         NEW G \in SUBSET {t \in TaskIds : S[t] = "running"},
         StatusOf(tasks') = [t \in TaskIds |-> IF t \in G THEN "failed" ELSE S[t]],
         \A t \in TaskIds, c \in Conns : Owed(t, c)' <= O[t][c],
         SendingNow' \subseteq SendingNow
  PROVE  Proceeds(S, O)
<1>1. OwedNow' \in Debts
  BY OwedTypesNext
<1>2. Bounded(O, SendingNow)
  BY <1>1 DEF Bounded, OwedNow
<1> QED
  BY <1>2 DEF Proceeds

\* A step that changes no task, sends no assignment, and executes none.
LEMMA EndsQuietly ==
  ASSUME TypeOK, NetTypeOK', UNCHANGED tasks,
         \A t \in TaskIds, c \in Conns : Owed(t, c)' <= Owed(t, c),
         SendingNow' \subseteq SendingNow
  PROVE  Proceeds(StatusOf(tasks), OwedNow)
<1>1. StatusOf(tasks) \in Statuses /\ OwedNow \in Debts
  BY StatusTypes, OwedTypes DEF TypeOK, CoordTypeOK, Tables
<1>2. PICK G \in SUBSET {t \in TaskIds : StatusOf(tasks)[t] = "running"} : G = {}
  OBVIOUS
<1>3. StatusOf(tasks') = [t \in TaskIds |->
                            IF t \in G THEN "failed" ELSE StatusOf(tasks)[t]]
  BY <1>2 DEF StatusOf
<1>4. \A t \in TaskIds, c \in Conns : Owed(t, c)' <= OwedNow[t][c]
  BY DEF OwedNow
<1> QED
  BY <1>1, <1>3, <1>4, EndsThere

-----------------------------------------------------------------------------
(* Turns of dispatchPending.                                               *)

\* Coroutine h dispatches a task or goes on with something else.
OneTurn(h, T, N) ==
  \/ \E at \in Sending : AssignTask(h, T, N, at)
  \/ \E at \in Locations \ Sending : EndDispatch(h, T, N, at)

\* The same, perhaps with the finally clause before it.
AnyTurn(h, T, N) ==
  \/ OneTurn(h, T, N)
  \/ \E n \in Workers :
       OneTurn(h, FailTasksAssignedTo(T, n), Unregister(N, n))

LEMMA FinallyAnyTurn ==
  ASSUME TypeOK, NEW c \in Conns, NEW T, NEW N, Finally(c, T, N)
  PROVE  AnyTurn(c, T, N)
<1>1. nodeId[c] # None => nodeId[c] \in Workers
  BY DEF TypeOK, CoordTypeOK
<1> QED
  BY <1>1
  DEF Finally, FinallyDispatch, AnyTurn, OneTurn, Sending, Locations

LEMMA ResumeAnyTurn ==
  ASSUME TypeOK, HandlerInv, NEW h \in Coroutines, NEW T, NEW N
  PROVE  /\ RequestDispatch(h, T, N) => AnyTurn(h, T, N)
         /\ \A at \in {"register", "result"} :
              h \in Conns /\ HandlerDispatch(h, T, N, at) => AnyTurn(h, T, N)
         /\ ResumeDispatch(h, T, N) => AnyTurn(h, T, N)
<1>1. RequestDispatch(h, T, N) => AnyTurn(h, T, N)
  BY DEF RequestDispatch, AnyTurn, OneTurn, Sending, Locations
<1>2. ASSUME NEW at \in {"register", "result"}, h \in Conns,
             HandlerDispatch(h, T, N, at)
      PROVE  AnyTurn(h, T, N)
  BY <1>2, FinallyAnyTurn
  DEF HandlerDispatch, AnyTurn, OneTurn, Sending, Locations
<1>3. FinallyDispatch(h, T, N) => AnyTurn(h, T, N)
  BY DEF FinallyDispatch, AnyTurn, OneTurn, Sending, Locations
<1>4. pc[h] \in {"register", "result"} => h \in Conns
  BY DEF HandlerInv, Coroutines
<1> QED
  BY <1>1, <1>2, <1>3, <1>4 DEF ResumeDispatch

\* What is owed before a turn, once the step that leads to it has read.
OwedThen(t, c) ==
  Frames(toWorker[c], "TASK_ASSIGN", t)
    + (IF Executes(t, c) THEN 1 ELSE 0)
    + Frames(toCoord'[c], "TASK_RESULT", t)

LEMMA TurnProceeds ==
  ASSUME TypeOK, TypeOK', UNCHANGED workerVars, NEW h \in Coroutines,
         NEW T \in Tables, NEW N \in Registries, OneTurn(h, T, N),
         NEW S \in Statuses, NEW O \in Debts,
         NEW G \in SUBSET {t \in TaskIds : S[t] = "running"},
         StatusOf(T) = [t \in TaskIds |-> IF t \in G THEN "failed" ELSE S[t]],
         \A t \in TaskIds, c \in Conns : OwedThen(t, c) <= O[t][c]
  PROVE  Proceeds(S, O)
<1>1. NetTypeOK /\ NetTypeOK'
  BY DEF TypeOK
<1>2. \A t \in TaskIds, c \in Conns : Executes(t, c)' <=> Executes(t, c)
  BY DEF Executes, Socket, workerVars
<1>3. ASSUME NEW at \in Locations \ Sending, EndDispatch(h, T, N, at)
      PROVE  Proceeds(S, O)
  <2>1. StatusOf(tasks') = StatusOf(T)
    BY <1>3 DEF EndDispatch
  <2>2. \A t \in TaskIds, c \in Conns : Owed(t, c)' <= O[t][c]
    BY <1>2, <1>3 DEF EndDispatch, Owed, OwedThen
  <2>3. SendingNow' \subseteq SendingNow
    BY <1>3 DEF EndDispatch, SendingNow, IsSending, TypeOK, CoordTypeOK
  <2> QED
    BY <1>1, <2>1, <2>2, <2>3, EndsThere
<1>4. ASSUME NEW at \in Sending, AssignTask(h, T, N, at)
      PROVE  Proceeds(S, O)
  <2>1. PICK u \in TaskIds, n \in Workers :
          /\ CanAssign(T, N, u, n)
          /\ tasks' = MarkTaskRunning(T, u, n)
          /\ toWorker' = Delivering(N[n].websocket, AssignFrame(u))
          /\ job' = [job EXCEPT ![h] = [task |-> u, node |-> n,
                                        websocket |-> N[n].websocket]]
          /\ pc' = [pc EXCEPT ![h] = at]
    BY <1>4 DEF AssignTask
  <2>2. N[n].websocket \in Conns
    BY <2>1, RegistryTypes
    DEF CanAssign, SelectWorker, Candidates, Eligible, GetAvailableWorkers
  <2>3. PICK d \in Conns : d = N[n].websocket
    BY <2>2
  <2>4. T[u].status = "pending"
    BY <2>1 DEF CanAssign, IsNextPendingTask, Pending
  <2>5. \A v \in TaskIds : StatusOf(T)[v] = "pending" => u <= v
    BY <2>1 DEF CanAssign, IsNextPendingTask, Pending, StatusOf
  <2>6. \A t \in TaskIds :
          tasks'[t].status = IF t = u THEN "running" ELSE T[t].status
    <3>1. tasks' = [T EXCEPT ![u].status = "running", ![u].assignedTo = n]
      BY <2>1, <2>4 DEF MarkTaskRunning
    <3> QED
      BY <3>1 DEF Tables, Task
  <2>7. ASSUME NEW t \in TaskIds, NEW c \in Conns
        PROVE  Owed(t, c)' <= O[t][c] + (IF t = u /\ c = d THEN 1 ELSE 0)
    <3> DEFINE more == IF t = u /\ c = d THEN 1 ELSE 0
    <3>1. toWorker[c] \in Seq(WorkerFrames) /\ toCoord'[c] \in Seq(CoordFrames)
      BY <1>1 DEF NetTypeOK
    <3>2. /\ Frames(toWorker[c], "TASK_ASSIGN", t) \in Nat
          /\ Frames(toCoord'[c], "TASK_RESULT", t) \in Nat
      BY <3>1, MatchFinite
    <3>3. \/ toWorker'[c] = toWorker[c]
          \/ c = d /\ toWorker'[c] = Append(toWorker[c], AssignFrame(u))
      <4>1. toWorker' = Delivering(d, AssignFrame(u))
        BY <2>1, <2>3
      <4>2. toWorker \in [Conns -> Seq(WorkerFrames)]
        BY <1>1 DEF NetTypeOK
      <4> QED
        BY <4>1, <4>2 DEF Delivering
    <3>4. AssignFrame(u) \in WorkerFrames
      BY FrameTypes
    <3>5. Frames(toWorker'[c], "TASK_ASSIGN", t)
            <= Frames(toWorker[c], "TASK_ASSIGN", t) + more
      <4>1. CASE toWorker'[c] = toWorker[c]
        BY <3>2, <4>1
      <4>2. CASE c = d /\ toWorker'[c] = Append(toWorker[c], AssignFrame(u))
        <5>1. PICK f \in WorkerFrames : f = AssignFrame(u)
          BY <3>4
        <5>2. f.type = "TASK_ASSIGN" /\ f.task = u
          BY <5>1 DEF AssignFrame
        <5> QED
          BY <3>1, <3>2, <4>2, <5>1, <5>2, FramesAppended
      <4> QED
        BY <3>3, <4>1, <4>2
    <3>6. Frames(toWorker'[c], "TASK_ASSIGN", t) \in Nat
      BY <1>1, MatchFinite DEF NetTypeOK
    <3> QED
      BY <1>2, <3>2, <3>5, <3>6 DEF Owed, OwedThen, Debts
  <2>8. SendingNow' \subseteq SendingNow \cup {u}
    BY <2>1 DEF SendingNow, IsSending, TypeOK, CoordTypeOK
  <2> DEFINE F == [t \in TaskIds |-> IF t \in G THEN "failed" ELSE S[t]]
  <2>9. F = StatusOf(T) /\ F \in Statuses
    BY StatusTypes
  <2> HIDE DEF F
  <2>10. Queue!Oldest(F, u)
    BY <2>4, <2>5, <2>9 DEF Queue!Oldest, StatusOf
  <2>11. StatusOf(tasks') = [F EXCEPT ![u] = "running"]
    BY <2>6, <2>9 DEF StatusOf, Statuses
  <2>12. \A t \in TaskIds, c \in Conns :
           Owed(t, c)' <= [O EXCEPT ![u][d] = @ + 1][t][c]
    BY <2>7 DEF Debts
  <2>13. Bounded([O EXCEPT ![u][d] = @ + 1], SendingNow \cup {u})
    BY <1>1, <2>8, <2>12, OwedTypesNext DEF Bounded, OwedNow
  <2> QED
    BY <2>10, <2>11, <2>13 DEF Proceeds, F
<1> QED
  BY <1>3, <1>4 DEF OneTurn

LEMMA AnyTurnProceeds ==
  ASSUME TypeOK, TypeOK', UNCHANGED workerVars, NEW h \in Coroutines,
         NEW T \in Tables, NEW N \in Registries, AnyTurn(h, T, N),
         NEW O \in Debts,
         \A t \in TaskIds, c \in Conns : OwedThen(t, c) <= O[t][c]
  PROVE  Proceeds(StatusOf(T), O)
<1>1. StatusOf(T) \in Statuses
  BY StatusTypes
<1>2. CASE OneTurn(h, T, N)
  <2>1. PICK G \in SUBSET {t \in TaskIds : StatusOf(T)[t] = "running"} : G = {}
    OBVIOUS
  <2>2. StatusOf(T) = [t \in TaskIds |-> IF t \in G THEN "failed" ELSE StatusOf(T)[t]]
    BY <2>1 DEF StatusOf
  <2> QED
    BY <1>1, <1>2, <2>2, TurnProceeds
<1>3. ASSUME NEW n \in Workers,
             OneTurn(h, FailTasksAssignedTo(T, n), Unregister(N, n))
      PROVE  Proceeds(StatusOf(T), O)
  <2> DEFINE G == GetTasksAssignedTo(T, n)
             F == FailTasksAssignedTo(T, n)
             M == Unregister(N, n)
  <2>1. F \in Tables /\ M \in Registries
    BY RegistryTypes DEF FailTasksAssignedTo, Tables, Task, TaskStatus
  <2>2. G \subseteq {t \in TaskIds : StatusOf(T)[t] = "running"}
    BY DEF GetTasksAssignedTo, StatusOf
  <2>3. StatusOf(F) = [t \in TaskIds |-> IF t \in G THEN "failed" ELSE StatusOf(T)[t]]
    BY DEF FailTasksAssignedTo, StatusOf, Tables, Task
  <2>4. OneTurn(h, F, M)
    BY <1>3
  <2> HIDE DEF F, M, G
  <2> QED
    BY <1>1, <2>1, <2>2, <2>3, <2>4, TurnProceeds
<1> QED
  BY <1>2, <1>3 DEF AnyTurn


-----------------------------------------------------------------------------
(* The steps of the coordinator.                                           *)

\* TaskQueue's QueueNext, spelled out likewise.
QueueStep ==
  \/ Proceeds(StatusOf(tasks), OwedNow)
  \/ \E t \in TaskIds :
       \/ /\ StatusOf(tasks)[t] = "absent"
          /\ \A u \in TaskIds : u < t => StatusOf(tasks)[u] # "absent"
          /\ Proceeds([StatusOf(tasks) EXCEPT ![t] = "pending"], OwedNow)
       \/ /\ StatusOf(tasks)[t] = "failed"
          /\ Proceeds([StatusOf(tasks) EXCEPT ![t] = "pending"], OwedNow)
       \/ /\ t \in SendingNow
          /\ Proceeds([StatusOf(tasks) EXCEPT ![t] = "failed"], OwedNow)
       \/ \E c \in Conns, outcome \in Queue!Settled :
            /\ OwedNow[t][c] > 0
            /\ Proceeds([StatusOf(tasks) EXCEPT ![t] = outcome],
                        [OwedNow EXCEPT ![t][c] = @ - 1])

LEMMA QueueStepIsNext == QueueStep => Queue!QueueNext
BY DEF QueueStep, Proceeds, Bounded, Debts, StatusOf, OwedNow, SendingNow,
       Queue!QueueNext, Queue!Submit, Queue!Retry, Queue!DispatchFails,
       Queue!Answer, Queue!Proceed, Queue!AtMost, Queue!Oldest

\* What the updates of the task table do to statuses.
LEMMA StatusUpdates ==
  ASSUME NEW T \in Tables, NEW t \in TaskIds
  PROVE  /\ \A need \in Needs :
              StatusOf(EnqueueTask(T, t, need)) = [StatusOf(T) EXCEPT ![t] = "pending"]
         /\ StatusOf(RequeueFailedTask(T, t)) = [StatusOf(T) EXCEPT ![t] = "pending"]
         /\ \A s \in Outcomes :
              StatusOf(SettleTask(T, t, s)) =
                IF T[t].status = "absent" THEN StatusOf(T)
                                          ELSE [StatusOf(T) EXCEPT ![t] = s]
<1>1. ASSUME NEW need \in Needs
      PROVE  StatusOf(EnqueueTask(T, t, need)) = [StatusOf(T) EXCEPT ![t] = "pending"]
  BY DEF EnqueueTask, StatusOf, Tables, Task
<1>2. StatusOf(RequeueFailedTask(T, t)) = [StatusOf(T) EXCEPT ![t] = "pending"]
  <2>1. \A u \in TaskIds : RequeueFailedTask(T, t)[u].status =
                             IF u = t THEN "pending" ELSE T[u].status
    BY DEF RequeueFailedTask, Tables, Task
  <2> QED
    BY <2>1 DEF StatusOf
<1>3. ASSUME NEW s \in Outcomes
      PROVE  StatusOf(SettleTask(T, t, s)) =
               IF T[t].status = "absent" THEN StatusOf(T)
                                         ELSE [StatusOf(T) EXCEPT ![t] = s]
  <2>1. CASE T[t].status = "absent"
    BY <2>1 DEF SettleTask
  <2>2. CASE T[t].status # "absent"
    <3>1. \A u \in TaskIds : SettleTask(T, t, s)[u].status =
                               IF u = t THEN s ELSE T[u].status
      BY <2>2 DEF SettleTask, Tables, Task
    <3> QED
      BY <2>2, <3>1 DEF StatusOf
  <2> QED
    BY <2>1, <2>2
<1> QED
  BY <1>1, <1>2, <1>3

LEMMA NothingRead ==
  ASSUME TypeOK, UNCHANGED toCoord
  PROVE  /\ OwedNow \in Debts
         /\ \A t \in TaskIds, c \in Conns : OwedThen(t, c) <= OwedNow[t][c]
<1>1. OwedNow \in Debts
  BY OwedTypes DEF TypeOK
<1>2. \A t \in TaskIds, c \in Conns : OwedThen(t, c) = OwedNow[t][c]
  BY DEF OwedThen, OwedNow, Owed
<1> QED
  BY <1>1, <1>2 DEF Debts

LEMMA ResolveQueue ==
  ASSUME BasicInv, TypeOK', NEW h \in Coroutines, Resolve(h),
         UNCHANGED workerVars
  PROVE  QueueStep
<1>1. /\ TypeOK /\ HandlerInv
      /\ tasks \in Tables /\ nodes \in Registries
  BY DEF BasicInv, TypeOK, CoordTypeOK, Tables, Registries
<1>2. UNCHANGED toCoord
  BY DEF Resolve, SendSucceeded, SendFailed
<1>3. /\ OwedNow \in Debts
      /\ \A t \in TaskIds, c \in Conns : OwedThen(t, c) <= OwedNow[t][c]
  BY <1>1, <1>2, NothingRead
<1>4. CASE SendSucceeded(h)
  <2>1. AnyTurn(h, tasks, nodes)
    BY <1>1, <1>4, ResumeAnyTurn DEF SendSucceeded
  <2> QED
    BY <1>1, <1>3, <2>1, AnyTurnProceeds DEF QueueStep
<1>5. CASE SendFailed(h)
  <2>1. pc[h] \in Sending /\ job[h] \in Assignment
    BY <1>5 DEF SendFailed, BasicInv, AssignmentInv
  <2>2. PICK t \in TaskIds, n \in Workers : t = job[h].task /\ n = job[h].node
    BY <2>1 DEF Assignment
  <2> DEFINE T == MarkTaskFailed(tasks, t)
             N == SetNodeBusy(nodes, n, FALSE)
  <2>3. T \in Tables /\ N \in Registries
    BY <1>1, TableTypes, RegistryTypes
  <2>4. AnyTurn(h, T, N)
    BY <1>1, <1>5, <2>2, ResumeAnyTurn DEF SendFailed
  <2>5. StatusOf(T) = StatusOf(tasks)
          \/ StatusOf(T) = [StatusOf(tasks) EXCEPT ![t] = "failed"]
    BY <1>1, StatusUpdates DEF MarkTaskFailed, Outcomes
  <2>6. t \in SendingNow
    BY <2>1, <2>2 DEF SendingNow, IsSending
  <2> HIDE DEF T, N
  <2>7. Proceeds(StatusOf(T), OwedNow)
    BY <1>1, <1>3, <2>3, <2>4, AnyTurnProceeds
  <2> QED
    BY <2>5, <2>6, <2>7 DEF QueueStep
<1> QED
  BY <1>4, <1>5 DEF Resolve

LEMMA RequestQueue ==
  ASSUME BasicInv, TypeOK', NEW h \in Requests, ServeRequest(h),
         UNCHANGED workerVars
  PROVE  QueueStep
<1>1. /\ TypeOK /\ HandlerInv /\ h \in Coroutines
      /\ tasks \in Tables /\ nodes \in Registries
  BY DEF BasicInv, TypeOK, CoordTypeOK, Tables, Registries, Coroutines
<1>2. UNCHANGED toCoord
  BY DEF ServeRequest, SubmitJob, RetryJob
<1>3. ASSUME NEW T \in Tables, RequestDispatch(h, T, nodes)
      PROVE  Proceeds(StatusOf(T), OwedNow)
  <2>1. AnyTurn(h, T, nodes)
    BY <1>1, <1>3, ResumeAnyTurn
  <2> QED
    BY <1>1, <1>2, <2>1, NothingRead, AnyTurnProceeds
<1>4. ASSUME NEW need \in Needs, SubmitJob(h, need)
      PROVE  QueueStep
  <2>1. PICK t \in TaskIds :
          /\ IsNextId(tasks, t)
          /\ RequestDispatch(h, EnqueueTask(tasks, t, need), nodes)
    BY <1>4 DEF SubmitJob
  <2>2. EnqueueTask(tasks, t, need) \in Tables
    BY <1>1, TableTypes
  <2>3. Proceeds([StatusOf(tasks) EXCEPT ![t] = "pending"], OwedNow)
    BY <1>1, <1>3, <2>1, <2>2, StatusUpdates
  <2>4. /\ StatusOf(tasks)[t] = "absent"
        /\ \A u \in TaskIds : u < t => StatusOf(tasks)[u] # "absent"
    BY <2>1 DEF IsNextId, StatusOf
  <2> QED
    BY <2>3, <2>4 DEF QueueStep
<1>5. ASSUME NEW t \in TaskIds, RetryJob(h, t)
      PROVE  QueueStep
  <2>1. RequeueFailedTask(tasks, t) \in Tables
    BY <1>1, <1>5, TableTypes DEF RetryJob
  <2>2. Proceeds([StatusOf(tasks) EXCEPT ![t] = "pending"], OwedNow)
    BY <1>1, <1>3, <1>5, <2>1, StatusUpdates DEF RetryJob
  <2>3. StatusOf(tasks)[t] = "failed"
    BY <1>5 DEF RetryJob, StatusOf
  <2> QED
    BY <2>2, <2>3 DEF QueueStep
<1> QED
  BY <1>4, <1>5 DEF ServeRequest


\* A frame of connection c is read: no debt grows, and that of the answer in
\* the frame is smaller.
LEMMA FrameRead ==
  ASSUME TypeOK, NEW c \in Conns, NEW type, Receiving(c, type)
  PROVE  /\ OwedNow \in Debts
         /\ \A t \in TaskIds, d \in Conns : OwedThen(t, d) <= OwedNow[t][d]
         /\ \A t \in TaskIds :
              type = "TASK_RESULT" /\ Head(toCoord[c]).task = t
                => OwedThen(t, c) <= OwedNow[t][c] - 1
<1>1. OwedNow \in Debts /\ NetTypeOK
  BY OwedTypes DEF TypeOK
<1>2. /\ toCoord[c] \in Seq(CoordFrames) /\ toCoord[c] # << >>
      /\ Head(toCoord[c]).type = type
      /\ toCoord' = [toCoord EXCEPT ![c] = Tail(@)]
  BY <1>1 DEF Receiving, NetTypeOK
<1>3. \A d \in Conns : toCoord'[d] = IF d = c THEN Tail(toCoord[d]) ELSE toCoord[d]
  BY <1>1, <1>2 DEF NetTypeOK
<1>4. ASSUME NEW t \in TaskIds, NEW d \in Conns
      PROVE  /\ OwedThen(t, d) <= OwedNow[t][d]
             /\ d = c /\ type = "TASK_RESULT" /\ Head(toCoord[c]).task = t
                  => OwedThen(t, d) <= OwedNow[t][d] - 1
  <2>1. toWorker[d] \in Seq(WorkerFrames) /\ toCoord[d] \in Seq(CoordFrames)
    BY <1>1 DEF NetTypeOK
  <2>2. /\ Frames(toWorker[d], "TASK_ASSIGN", t) \in Nat
        /\ Frames(toCoord[d], "TASK_RESULT", t) \in Nat
    BY <2>1, MatchFinite
  <2>3. CASE d # c
    <3>1. OwedThen(t, d) = Owed(t, d)
      BY <1>3, <2>3 DEF OwedThen, Owed
    <3> QED
      BY <1>1, <2>3, <3>1 DEF OwedNow, Debts
  <2>4. CASE d = c
    <3>1. toCoord'[d] = Tail(toCoord[d])
      BY <1>3, <2>4
    <3>2. /\ Frames(toCoord'[d], "TASK_RESULT", t) \in Nat
          /\ Frames(toCoord'[d], "TASK_RESULT", t) <= Frames(toCoord[d], "TASK_RESULT", t)
          /\ type = "TASK_RESULT" /\ Head(toCoord[c]).task = t
               => Frames(toCoord'[d], "TASK_RESULT", t)
                    <= Frames(toCoord[d], "TASK_RESULT", t) - 1
      BY <1>2, <2>4, <3>1, FramesTail
    <3> QED
      BY <2>2, <2>4, <3>2 DEF OwedThen, OwedNow, Owed
  <2> QED
    BY <2>3, <2>4
<1> QED
  BY <1>1, <1>4

LEMMA ConnectionQueue ==
  ASSUME BasicInv, TypeOK', NEW c \in Conns, ServeConnection(c),
         UNCHANGED workerVars
  PROVE  QueueStep
<1>1. /\ TypeOK /\ HandlerInv /\ c \in Coroutines
      /\ tasks \in Tables /\ nodes \in Registries
  BY ConnFacts DEF BasicInv, TypeOK, CoordTypeOK, Tables, Registries
<1>2. ASSUME UNCHANGED toCoord, AnyTurn(c, tasks, nodes)
      PROVE  QueueStep
  BY <1>1, <1>2, NothingRead, AnyTurnProceeds DEF QueueStep
<1>3. CASE HandleRegister(c)
  <2>1. /\ OwedNow \in Debts
        /\ \A t \in TaskIds, d \in Conns : OwedThen(t, d) <= OwedNow[t][d]
    BY <1>1, <1>3, FrameRead DEF HandleRegister
  <2>2. ASSUME NEW t \in TaskIds, NEW d \in Conns
        PROVE  Owed(t, d)' <= Owed(t, d)
    <3>1. Executes(t, d)' <=> Executes(t, d)
      BY DEF Executes, Socket, workerVars
    <3>2. PICK f \in WorkerFrames : f = AckFrame /\ f.type # "TASK_ASSIGN"
      BY FrameTypes DEF AckFrame
    <3>3. toWorker[d] \in Seq(WorkerFrames)
      BY <1>1 DEF TypeOK, NetTypeOK
    <3>4. toWorker'[d] = toWorker[d] \/ toWorker'[d] = Append(toWorker[d], f)
      <4>1. toWorker' = Delivering(c, f)
        BY <1>3, <3>2 DEF HandleRegister
      <4>2. toWorker \in [Conns -> Seq(WorkerFrames)]
        BY <1>1 DEF TypeOK, NetTypeOK
      <4> QED
        BY <4>1, <4>2 DEF Delivering
    <3>5. Frames(toWorker'[d], "TASK_ASSIGN", t) = Frames(toWorker[d], "TASK_ASSIGN", t)
      <4>1. CASE toWorker'[d] = toWorker[d]
        BY <4>1
      <4>2. CASE toWorker'[d] = Append(toWorker[d], f)
        BY <3>2, <3>3, <4>2, FramesAppended
      <4> QED
        BY <3>4, <4>1, <4>2
    <3>6. Owed(t, d)' = OwedThen(t, d)
      BY <3>1, <3>5 DEF Owed, OwedThen
    <3> QED
      BY <2>1, <3>6 DEF OwedNow
  <2>3. SendingNow' \subseteq SendingNow
    BY <1>1, <1>3
    DEF HandleRegister, SendingNow, IsSending, Sending, TypeOK, CoordTypeOK
  <2>4. UNCHANGED tasks /\ NetTypeOK'
    BY <1>3 DEF HandleRegister, TypeOK
  <2> QED
    BY <1>1, <2>2, <2>3, <2>4, EndsQuietly DEF QueueStep
<1>4. CASE AckSent(c)
  <2>1. AnyTurn(c, tasks, nodes)
    BY <1>1, <1>4, ResumeAnyTurn DEF AckSent
  <2> QED
    BY <1>2, <1>4, <2>1 DEF AckSent
<1>5. CASE AckFailed(c) \/ Disconnect(c)
  <2>1. AnyTurn(c, tasks, nodes)
    BY <1>1, <1>5, FinallyAnyTurn DEF AckFailed, Disconnect
  <2> QED
    BY <1>2, <1>5, <2>1 DEF AckFailed, Disconnect
<1>6. CASE HandleTaskResult(c)
  <2>1. Receiving(c, "TASK_RESULT")
    BY <1>6 DEF HandleTaskResult
  <2>2. Head(toCoord[c]) \in CoordFrames /\ Head(toCoord[c]).type = "TASK_RESULT"
    BY <1>1, <2>1, TailTypes DEF Receiving
  <2>3. PICK t \in TaskIds, s \in Outcomes :
          t = Head(toCoord[c]).task /\ s = Head(toCoord[c]).status
    BY <2>2 DEF CoordFrames, RegisterFrame
  <2> DEFINE T == SettleTask(tasks, t, s)
             N == SetNodeBusy(nodes, Owner(c), FALSE)
  <2>4. T \in Tables /\ N \in Registries
    BY <1>1, TableTypes, RegistryTypes, ConnFacts
    DEF MarkTaskCompleted, MarkTaskFailed, Outcomes
  <2>5. HandlerDispatch(c, T, N, "result")
    BY <1>6, <2>3 DEF HandleTaskResult, MarkTaskCompleted, MarkTaskFailed, Outcomes
  <2>6. AnyTurn(c, T, N)
    BY <1>1, <2>5, ResumeAnyTurn
  <2>7. StatusOf(T) = IF tasks[t].status = "absent" THEN StatusOf(tasks)
                                    ELSE [StatusOf(tasks) EXCEPT ![t] = s]
    BY <1>1, StatusUpdates
  <2> HIDE DEF T, N
  <2>8. /\ OwedNow \in Debts
        /\ \A u \in TaskIds, d \in Conns : OwedThen(u, d) <= OwedNow[u][d]
        /\ OwedThen(t, c) <= OwedNow[t][c] - 1
    BY <1>1, <2>1, <2>3, FrameRead
  <2>9. CASE tasks[t].status = "absent"
    <3>1. Proceeds(StatusOf(T), OwedNow)
      BY <1>1, <2>4, <2>6, <2>8, AnyTurnProceeds
    <3> QED
      BY <2>7, <2>9, <3>1 DEF QueueStep
  <2>10. CASE tasks[t].status # "absent"
    <3>1. OwedThen(t, c) \in Nat
      <4>1. toWorker[c] \in Seq(WorkerFrames) /\ toCoord'[c] \in Seq(CoordFrames)
        BY <1>1 DEF TypeOK, NetTypeOK
      <4>2. /\ Frames(toWorker[c], "TASK_ASSIGN", t) \in Nat
            /\ Frames(toCoord'[c], "TASK_RESULT", t) \in Nat
        BY <4>1, MatchFinite
      <4> QED
        BY <4>2 DEF OwedThen
    <3>2. PICK O : O = [OwedNow EXCEPT ![t][c] = @ - 1]
      OBVIOUS
    <3>3. OwedNow[t][c] > 0 /\ O \in Debts
      BY <2>8, <3>1, <3>2 DEF Debts
    <3>4. \A u \in TaskIds, d \in Conns : OwedThen(u, d) <= O[u][d]
      BY <2>8, <3>2 DEF Debts
    <3>5. Proceeds(StatusOf(T), O)
      BY <1>1, <2>4, <2>6, <3>3, <3>4, AnyTurnProceeds
    <3> QED
      BY <2>7, <2>10, <3>2, <3>3, <3>5 DEF QueueStep, Queue!Settled, Outcomes
  <2> QED
    BY <2>9, <2>10
<1> QED
  BY <1>3, <1>4, <1>5, <1>6 DEF ServeConnection


-----------------------------------------------------------------------------
(* The steps of workers and of the network change nothing in the           *)
(* coordinator; they only lose answers, or pass them on.                   *)

LEMMA OutsideQueue ==
  ASSUME TypeOK, NetTypeOK', UNCHANGED coordVars,
         \A t \in TaskIds, c \in Conns : Owed(t, c)' <= Owed(t, c)
  PROVE  QueueStep
<1>1. UNCHANGED tasks /\ SendingNow' = SendingNow
  BY DEF coordVars, SendingNow, IsSending
<1> QED
  BY <1>1, EndsQuietly DEF QueueStep

\* What is owed on connection c does not grow if the frames under way are
\* no more than they were, and the worker executes what it executed.
LEMMA OwedShrinks ==
  ASSUME NetTypeOK, NetTypeOK', NEW t \in TaskIds, NEW c \in Conns,
         Frames(toWorker'[c], "TASK_ASSIGN", t)
           <= Frames(toWorker[c], "TASK_ASSIGN", t),
         Frames(toCoord'[c], "TASK_RESULT", t)
           <= Frames(toCoord[c], "TASK_RESULT", t),
         Executes(t, c)' => Executes(t, c)
  PROVE  Owed(t, c)' <= Owed(t, c)
<1>1. /\ toWorker[c] \in Seq(WorkerFrames) /\ toCoord[c] \in Seq(CoordFrames)
      /\ toWorker'[c] \in Seq(WorkerFrames) /\ toCoord'[c] \in Seq(CoordFrames)
  BY DEF NetTypeOK
<1>2. /\ Frames(toWorker[c], "TASK_ASSIGN", t) \in Nat
      /\ Frames(toCoord[c], "TASK_RESULT", t) \in Nat
  BY <1>1, MatchFinite
<1>3. /\ Frames(toWorker'[c], "TASK_ASSIGN", t) \in Nat
      /\ Frames(toCoord'[c], "TASK_RESULT", t) \in Nat
  BY <1>1, MatchFinite
<1> QED
  BY <1>2, <1>3 DEF Owed

LEMMA FramesSame ==
  ASSUME NetTypeOK, NEW t \in TaskIds, NEW c \in Conns
  PROVE  /\ toWorker'[c] = toWorker[c]
              => Frames(toWorker'[c], "TASK_ASSIGN", t)
                   <= Frames(toWorker[c], "TASK_ASSIGN", t)
         /\ toCoord'[c] = toCoord[c]
              => Frames(toCoord'[c], "TASK_RESULT", t)
                   <= Frames(toCoord[c], "TASK_RESULT", t)
<1>1. toWorker[c] \in Seq(WorkerFrames) /\ toCoord[c] \in Seq(CoordFrames)
  BY DEF NetTypeOK
<1>2. /\ Frames(toWorker[c], "TASK_ASSIGN", t) \in Nat
      /\ Frames(toCoord[c], "TASK_RESULT", t) \in Nat
  BY <1>1, MatchFinite
<1> QED
  BY <1>2

LEMMA NetworkQueue ==
  ASSUME TypeOK, TypeOK', NEW c \in Conns, LoseConnection(c) \/ NoticeLoss(c),
         UNCHANGED <<coordVars, workerVars>>
  PROVE  QueueStep
<1>1. NetTypeOK /\ NetTypeOK'
  BY DEF TypeOK
<1>2. ASSUME NEW t \in TaskIds, NEW d \in Conns
      PROVE  Owed(t, d)' <= Owed(t, d)
  <2>1. Executes(t, d)' <=> Executes(t, d)
    BY DEF Executes, Socket, workerVars
  <2>2. toWorker[d] \in Seq(WorkerFrames) /\ toCoord[d] \in Seq(CoordFrames)
    BY <1>1 DEF NetTypeOK
  <2>3. CASE toWorker'[d] = toWorker[d] /\ toCoord'[d] = toCoord[d]
    BY <1>1, <2>1, <2>3, FramesSame, OwedShrinks
  <2>4. CASE ~ (toWorker'[d] = toWorker[d] /\ toCoord'[d] = toCoord[d])
    <3>1. LoseConnection(c) /\ d = c
      BY <1>1, <2>4 DEF LoseConnection, NoticeLoss, NetTypeOK
    <3>2. PICK i \in 0 .. Len(toCoord[d]) : toCoord'[d] = SubSeq(toCoord[d], 1, i)
      BY <1>1, <3>1 DEF LoseConnection, NetTypeOK
    <3>3. PICK j \in 0 .. Len(toWorker[d]) : toWorker'[d] = SubSeq(toWorker[d], 1, j)
      BY <1>1, <3>1 DEF LoseConnection, NetTypeOK
    <3>4. Frames(toCoord'[d], "TASK_RESULT", t)
            <= Frames(toCoord[d], "TASK_RESULT", t)
      BY <2>2, <3>2, FramesPrefix
    <3>5. Frames(toWorker'[d], "TASK_ASSIGN", t)
            <= Frames(toWorker[d], "TASK_ASSIGN", t)
      BY <2>2, <3>3, FramesPrefix
    <3> QED
      BY <1>1, <2>1, <3>4, <3>5, OwedShrinks
  <2> QED
    BY <2>3, <2>4
<1> QED
  BY <1>1, <1>2, OutsideQueue

\* The handshake opens a connection on which nothing is owed: the worker
\* that opens it executes nothing.
LEMMA ConnectQueue ==
  ASSUME TypeOK, TypeOK', TaskInv, NEW w \in Workers, Connect(w)
  PROVE  QueueStep
<1>1. NetTypeOK /\ NetTypeOK' /\ UNCHANGED <<tasks, job, executing, toWorker>>
  BY DEF TypeOK, Connect, OpenSession
<1>2. PICK c \in Conns :
        /\ c = <<w, session[w] + 1>>
        /\ pc' = [pc EXCEPT ![c] = "recv"]
        /\ toCoord' = [toCoord EXCEPT ![c] = << RegisterFrame >>]
        /\ session' = [session EXCEPT ![w] = @ + 1]
        /\ phase[w] = "down"
  <2>1. <<w, session[w] + 1>> \in Conns
    BY BoundsAssumption DEF Connect, OpenSession, TypeOK, WorkerTypeOK, Conns
  <2> QED
    BY <2>1 DEF Connect, OpenSession, Accept
<1>3. executing[w] = None
  BY <1>2 DEF TaskInv
<1>4. ASSUME NEW t \in TaskIds, NEW d \in Conns
      PROVE  Owed(t, d)' <= Owed(t, d)
  <2>1. Executes(t, d)' => Executes(t, d)
    BY <1>1, <1>2, <1>3, ConnFacts, NoneAssumption
    DEF Executes, Socket, TypeOK, WorkerTypeOK
  <2>2. Frames(toCoord'[d], "TASK_RESULT", t) <= Frames(toCoord[d], "TASK_RESULT", t)
    <3>1. CASE d # c
      BY <1>1, <1>2, <3>1, FramesSame DEF NetTypeOK
    <3>2. CASE d = c
      <4>1. PICK f \in CoordFrames : f = RegisterFrame /\ f.type # "TASK_RESULT"
        BY FrameTypes DEF RegisterFrame
      <4>2. PICK q \in Seq(CoordFrames) : q = << >>
        BY EmptySeq
      <4>3. toCoord'[d] = Append(q, f)
        BY <1>1, <1>2, <3>2, <4>1, <4>2 DEF NetTypeOK
      <4>4. Frames(toCoord'[d], "TASK_RESULT", t) = Frames(q, "TASK_RESULT", t)
        BY <4>1, <4>3, FramesAppended
      <4>5. toCoord[d] \in Seq(CoordFrames)
        BY <1>1 DEF NetTypeOK
      <4> QED
        BY <4>2, <4>4, <4>5, FramesOfNone, MatchFinite
    <3> QED
      BY <3>1, <3>2
  <2> QED
    BY <1>1, <2>1, <2>2, FramesSame, OwedShrinks
<1>5. SendingNow' \subseteq SendingNow
  BY <1>1, <1>2 DEF SendingNow, IsSending, Sending, TypeOK, CoordTypeOK
<1> QED
  BY <1>1, <1>4, <1>5, EndsQuietly DEF QueueStep


\* A worker that reads an assignment and executes it goes on owing one
\* answer, and so does one whose result leaves it on an open connection.
LEMMA ClientQueue ==
  ASSUME TypeOK, TypeOK', WorkerInv, NEW w \in Workers,
         WorkerStep(w) \/ Crash(w), UNCHANGED coordVars
  PROVE  QueueStep
<1>1. NetTypeOK /\ NetTypeOK'
  BY DEF TypeOK
<1>2. UNCHANGED session
  BY DEF WorkerStep, ReceiveFirst, AckTimeout, ReceiveAck, ReceiveTask,
         SendResult, EndSession, Crash, workerVars
<1>3. phase[w] # "down" => Socket(w) \in Conns
  BY BoundsAssumption DEF WorkerInv, TypeOK, WorkerTypeOK, Socket, Conns
<1>4. PICK s : s = Socket(w)
  OBVIOUS
<1>5. ASSUME NEW t \in TaskIds, NEW d \in Conns
      PROVE  /\ executing'[Owner(d)] = executing[Owner(d)]
                  => (Executes(t, d)' <=> Executes(t, d))
             /\ Executes(t, d) => executing[Owner(d)] = t
             /\ Executes(t, d)' => executing'[Owner(d)] = t
             /\ Owner(d) = w => (Executes(t, d) <=> executing[w] = t /\ d = s)
             /\ Owner(d) = w => (Executes(t, d)' <=> executing'[w] = t /\ d = s)
  BY <1>2, <1>4 DEF Executes, Socket
<1>6. s \in Conns => Owner(s) = w
  BY <1>4 DEF Owner, Socket
<1>7. SUFFICES ASSUME NEW t \in TaskIds, NEW d \in Conns
               PROVE  Owed(t, d)' <= Owed(t, d)
  BY <1>1, OutsideQueue
<1>8. /\ toWorker[d] \in Seq(WorkerFrames) /\ toCoord[d] \in Seq(CoordFrames)
      /\ Owner(d) \in Workers
  BY <1>1, ConnFacts DEF NetTypeOK
<1>9. /\ Frames(toWorker[d], "TASK_ASSIGN", t) \in Nat
      /\ Frames(toCoord[d], "TASK_RESULT", t) \in Nat
  BY <1>8, MatchFinite
<1>10. CASE AckTimeout(w) \/ EndSession(w)
  BY <1>1, <1>5, <1>10, FramesSame, OwedShrinks DEF AckTimeout, EndSession, netVars
<1>11. CASE ReceiveFirst(w) \/ ReceiveAck(w)
  <2>1. /\ toCoord'[d] = toCoord[d]
        /\ executing'[Owner(d)] = executing[Owner(d)]
        /\ toWorker' = [toWorker EXCEPT ![s] = Tail(@)]
        /\ toWorker[s] # << >>
    BY <1>4, <1>11 DEF ReceiveFirst, ReceiveAck, Consume, workerVars
  <2>2. Frames(toWorker'[d], "TASK_ASSIGN", t) <= Frames(toWorker[d], "TASK_ASSIGN", t)
    <3>1. CASE d # s
      BY <1>1, <2>1, <3>1, FramesSame DEF NetTypeOK
    <3>2. CASE d = s
      <4>1. toWorker'[d] = Tail(toWorker[d]) /\ toWorker[d] # << >>
        BY <1>1, <2>1, <3>2 DEF NetTypeOK
      <4> QED
        BY <1>8, <4>1, FramesTail
    <3> QED
      BY <3>1, <3>2
  <2> QED
    BY <1>1, <1>5, <2>1, <2>2, FramesSame, OwedShrinks
<1>12. CASE ReceiveTask(w)
  <2>1. /\ toCoord'[d] = toCoord[d]
        /\ toWorker' = [toWorker EXCEPT ![s] = Tail(@)]
        /\ toWorker[s] # << >>
        /\ Head(toWorker[s]).type = "TASK_ASSIGN"
        /\ executing' = [executing EXCEPT ![w] = Head(toWorker[s]).task]
        /\ s \in Conns
    BY <1>3, <1>4, <1>12 DEF ReceiveTask, Consume
  <2>2. CASE d # s
    <3>1. toWorker'[d] = toWorker[d]
      BY <1>1, <2>1, <2>2 DEF NetTypeOK
    <3>2. Executes(t, d)' => Executes(t, d)
      <4>1. CASE Owner(d) = w
        BY <1>5, <2>2, <4>1
      <4>2. CASE Owner(d) # w
        BY <1>5, <1>8, <2>1, <4>2 DEF TypeOK, WorkerTypeOK
      <4> QED
        BY <4>1, <4>2
    <3> QED
      BY <1>1, <2>1, <3>1, <3>2, FramesSame, OwedShrinks
  <2>3. CASE d = s
    <3>1. toWorker'[d] = Tail(toWorker[d]) /\ toWorker[d] # << >>
      BY <1>1, <2>1, <2>3 DEF NetTypeOK
    <3>2. /\ Frames(toWorker'[d], "TASK_ASSIGN", t) \in Nat
          /\ Frames(toWorker'[d], "TASK_ASSIGN", t)
               <= Frames(toWorker[d], "TASK_ASSIGN", t)
          /\ Head(toWorker[d]).task = t =>
               Frames(toWorker'[d], "TASK_ASSIGN", t)
                 <= Frames(toWorker[d], "TASK_ASSIGN", t) - 1
      BY <1>8, <2>1, <2>3, <3>1, FramesTail
    <3>3. Executes(t, d)' => Head(toWorker[d]).task = t
      BY <1>5, <1>6, <2>1, <2>3 DEF TypeOK, WorkerTypeOK
    <3> QED
      BY <1>9, <2>1, <3>2, <3>3 DEF Owed
  <2> QED
    BY <2>2, <2>3
<1>13. ASSUME NEW outcome \in Outcomes, SendResult(w, outcome)
       PROVE  Owed(t, d)' <= Owed(t, d)
  <2>1. /\ toWorker'[d] = toWorker[d]
        /\ executing' = [executing EXCEPT ![w] = None]
        /\ \/ toCoord' = [toCoord EXCEPT ![s] =
                            Append(@, ResultFrame(executing[w], outcome))]
           \/ UNCHANGED toCoord
        /\ s \in Conns
        /\ executing[w] \in TaskIds
    BY <1>3, <1>4, <1>13 DEF SendResult, WorkerInv
  <2>2. Executes(t, d)' => Executes(t, d)
    <3>1. CASE Owner(d) = w
      <4>1. executing'[w] = None
        BY <2>1 DEF TypeOK, WorkerTypeOK
      <4> QED
        BY <1>5, <3>1, <4>1, NoneAssumption
    <3>2. CASE Owner(d) # w
      BY <1>5, <1>8, <2>1, <3>2 DEF TypeOK, WorkerTypeOK
    <3> QED
      BY <3>1, <3>2
  <2>3. CASE toCoord'[d] = toCoord[d]
    BY <1>1, <2>1, <2>2, <2>3, FramesSame, OwedShrinks
  <2>4. CASE toCoord'[d] # toCoord[d]
    <3>1. d = s
      BY <1>1, <2>1, <2>4 DEF NetTypeOK
    <3>2. PICK u \in TaskIds, f \in CoordFrames :
            /\ u = executing[w] /\ f = ResultFrame(u, outcome)
            /\ f.type = "TASK_RESULT" /\ f.task = u
      BY <2>1, FrameTypes DEF ResultFrame
    <3>3. toCoord'[d] = Append(toCoord[d], f)
      BY <1>1, <2>1, <2>4, <3>1, <3>2 DEF NetTypeOK
    <3>4. /\ u = t => Frames(toCoord'[d], "TASK_RESULT", t)
                        = Frames(toCoord[d], "TASK_RESULT", t) + 1
          /\ u # t => Frames(toCoord'[d], "TASK_RESULT", t)
                        = Frames(toCoord[d], "TASK_RESULT", t)
      BY <1>8, <3>2, <3>3, FramesAppended
    <3>5. Executes(t, d) <=> u = t
      BY <1>5, <1>6, <3>1, <3>2
    <3>6. ~ Executes(t, d)'
      <4>1. executing'[w] = None
        BY <2>1 DEF TypeOK, WorkerTypeOK
      <4> QED
        BY <1>5, <1>6, <3>1, <4>1, NoneAssumption
    <3> QED
      BY <1>9, <2>1, <3>4, <3>5, <3>6 DEF Owed
  <2> QED
    BY <2>3, <2>4
<1>14. CASE Crash(w)
  <2>1. /\ toCoord'[d] = toCoord[d]
        /\ executing' = [executing EXCEPT ![w] = None]
        /\ toWorker' = [toWorker EXCEPT ![s] = << >>]
    BY <1>4, <1>14 DEF Crash
  <2>2. Executes(t, d)' => Executes(t, d)
    <3>1. CASE Owner(d) = w
      <4>1. executing'[w] = None
        BY <2>1 DEF TypeOK, WorkerTypeOK
      <4> QED
        BY <1>5, <3>1, <4>1, NoneAssumption
    <3>2. CASE Owner(d) # w
      BY <1>5, <1>8, <2>1, <3>2 DEF TypeOK, WorkerTypeOK
    <3> QED
      BY <3>1, <3>2
  <2>3. Frames(toWorker'[d], "TASK_ASSIGN", t) <= Frames(toWorker[d], "TASK_ASSIGN", t)
    <3>1. toWorker'[d] = toWorker[d] \/ toWorker'[d] = << >>
      BY <1>1, <2>1 DEF NetTypeOK
    <3> QED
      BY <1>9, <3>1, FramesOfNone
  <2> QED
    BY <1>1, <2>1, <2>2, <2>3, FramesSame, OwedShrinks
<1> QED
  BY <1>10, <1>11, <1>12, <1>13, <1>14 DEF WorkerStep

-----------------------------------------------------------------------------

LEMMA StutterQueue ==
  ASSUME UNCHANGED vars
  PROVE  UNCHANGED Queue!queueVars
BY DEF vars, netVars, coordVars, workerVars, Queue!queueVars, Owed, Executes,
       Socket, IsSending

LEMMA InitQueue == Init => Queue!QueueInit
<1> SUFFICES ASSUME Init
             PROVE  Queue!QueueInit
  OBVIOUS
<1>1. [t \in TaskIds |-> tasks[t].status] = [t \in TaskIds |-> "absent"]
  BY DEF Init, CoordInit, NoTask
<1>2. ASSUME NEW t \in TaskIds, NEW c \in Conns
      PROVE  Owed(t, c) = 0
  <2>1. toWorker[c] = << >> /\ toCoord[c] = << >>
    BY DEF Init, NetInit
  <2>2. ~ Executes(t, c)
    BY ConnFacts, NoneAssumption DEF Init, WorkerInit, Executes
  <2> QED
    BY <2>1, <2>2, FramesOfNone DEF Owed
<1>3. {t \in TaskIds : \E h \in Coroutines : IsSending(h, t)} = {}
  BY DEF Init, CoordInit, IsSending, Sending
<1> QED
  BY <1>1, <1>2, <1>3 DEF Queue!QueueInit

\* Cluster implements TaskQueue: whatever interleaves, gets lost, crashes or
\* comes late, no task is dispatched while it is running or settled, none
\* overtakes an older one, and no dispatch is answered twice.
THEOREM QueueRefinement == Spec => ImplementsTaskQueue
<1>1. Init => Queue!QueueInit
  BY InitQueue
<1>2. IInv /\ IInv' /\ FInv /\ [Next]_vars => [Queue!QueueNext]_Queue!queueVars
  <2> SUFFICES ASSUME IInv, IInv', FInv, [Next]_vars
               PROVE  [Queue!QueueNext]_Queue!queueVars
    OBVIOUS
  <2>1. BasicInv /\ TypeOK /\ TypeOK' /\ WorkerInv /\ TaskInv
    BY IInvSplit DEF IInv, FInv
  <2>2. CASE UNCHANGED vars
    BY <2>2, StutterQueue
  <2>3. CASE \E w \in Workers : Connect(w)
    BY <2>1, <2>3, ConnectQueue, QueueStepIsNext
  <2>4. CASE CoordinatorStep
    BY <2>1, <2>4, ResolveQueue, ConnectionQueue, RequestQueue, QueueStepIsNext
    DEF CoordinatorStep
  <2>5. CASE ClientStep
    BY <2>1, <2>5, ClientQueue, QueueStepIsNext DEF ClientStep
  <2>6. CASE NetworkStep
    BY <2>1, <2>6, NetworkQueue, QueueStepIsNext DEF NetworkStep
  <2> QED
    BY <2>2, <2>3, <2>4, <2>5, <2>6 DEF Next
<1> QED
  BY <1>1, <1>2, Invariance, FrameInvariance, PTL
  DEF Spec, ImplementsTaskQueue, Queue!QueueSpec

=============================================================================
