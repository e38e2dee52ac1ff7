----------------------------- MODULE ClusterQueue -----------------------------
(***************************************************************************)
(* The refinement mapping from Cluster to TaskQueue: an answer is owed for *)
(* every TASK_ASSIGN frame under way, for the task in execution, and for   *)
(* every TASK_RESULT frame the coordinator has not read.                   *)
(***************************************************************************)
EXTENDS Cluster, FiniteSets

Frames(queue, type, t) ==
  Cardinality({i \in DOMAIN queue : queue[i].type = type /\ queue[i].task = t})

Executes(t, c) == executing[Owner(c)] = t /\ Socket(Owner(c)) = c

Owed(t, c) ==
  Frames(toWorker[c], "TASK_ASSIGN", t)
    + (IF Executes(t, c) THEN 1 ELSE 0)
    + Frames(toCoord[c], "TASK_RESULT", t)

IsSending(h, t) == pc[h] \in Sending /\ job[h].task = t

Queue == INSTANCE TaskQueue WITH
  Tasks    <- TaskIds,
  Channels <- Conns,
  status   <- [t \in TaskIds |-> tasks[t].status],
  owed     <- [t \in TaskIds |-> [c \in Conns |-> Owed(t, c)]],
  sending  <- {t \in TaskIds : \E h \in Coroutines : IsSending(h, t)}

\* Whatever interleaves, gets lost, crashes or comes late, a client of /jobs
\* sees a queue: no task is dispatched while it is running or settled, none
\* overtakes an older one, and no dispatch is answered twice.
ImplementsTaskQueue == Queue!QueueSpec
===============================================================================
