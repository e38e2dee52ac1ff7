----------------------------- MODULE JobManager -----------------------------
(***************************************************************************)
(* The task table (JobManager.py).  _tasks is a dict that only grows, so a *)
(* task is its insertion index and a table T maps every index to a record, *)
(* "absent" until that task is submitted.  Each method body runs under a   *)
(* lock and awaits nothing inside it, so it is one atomic update of T.     *)
(***************************************************************************)
EXTENDS ClusterTypes

TaskStatus == {"absent", "pending", "running", "completed", "failed"}

Task == [status: TaskStatus,
         need: Needs \cup {None},
         assignedTo: Workers \cup {None}]

NoTask == [status |-> "absent", need |-> None, assignedTo |-> None]

Pending(T) == {t \in TaskIds : T[t].status = "pending"}

\* getNextPendingTask: the oldest pending task.
IsNextPendingTask(T, t) == t \in Pending(T) /\ \A u \in Pending(T) : t <= u

GetTasksAssignedTo(T, n) ==
  {t \in TaskIds : T[t].assignedTo = n /\ T[t].status = "running"}

\* The index the next call of enqueueTask gives out.
IsNextId(T, t) ==
  /\ T[t].status = "absent"
  /\ \A u \in TaskIds : u < t => T[u].status # "absent"

EnqueueTask(T, t, need) ==
  [T EXCEPT ![t] = [status |-> "pending", need |-> need, assignedTo |-> None]]

MarkTaskRunning(T, t, n) ==
  IF T[t].status = "absent" THEN T
  ELSE [T EXCEPT ![t].status = "running", ![t].assignedTo = n]

\* markTaskCompleted and markTaskFailed look at nothing but the task's id.
SettleTask(T, t, outcome) ==
  IF T[t].status = "absent" THEN T ELSE [T EXCEPT ![t].status = outcome]

MarkTaskCompleted(T, t) == SettleTask(T, t, "completed")
MarkTaskFailed(T, t) == SettleTask(T, t, "failed")

\* Variant: the orphans of a worker are listed but not failed.
LeaveTasksAssignedTo(T, n) == T

\* The loop of the connection handler's finally clause over its orphans.
FailTasksAssignedTo(T, n) ==
  [t \in TaskIds |->
     IF t \in GetTasksAssignedTo(T, n) THEN [T[t] EXCEPT !.status = "failed"]
                                       ELSE T[t]]

RequeueFailedTask(T, t) ==
  [T EXCEPT ![t].status = "pending", ![t].assignedTo = None]
=============================================================================
