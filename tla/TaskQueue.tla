------------------------------ MODULE TaskQueue ------------------------------
(***************************************************************************)
(* What the coordinator promises a client of /jobs, with no word about     *)
(* workers, connections or coroutines: a queue of tasks and the answers    *)
(* that are still owed for each.  Tasks are dispatched oldest first and    *)
(* only while they are pending, every dispatch is answered at most once,   *)
(* and nothing but an answer completes a task.  What it does not promise   *)
(* can be read off it as well: an answer, or a dispatch that fails in the  *)
(* end, settles its task whatever has become of the task in the meantime.  *)
(***************************************************************************)
EXTENDS Naturals

CONSTANTS
  Tasks,     (* numbers, in the order of submission                        *)
  Channels   (* whatever an answer may come by                             *)

VARIABLES
  status,    (* of each task                                               *)
  owed,      (* answers each channel may still bring for each task         *)
  sending    (* tasks with a dispatch that is not over, and may yet fail   *)

queueVars == <<status, owed, sending>>

Settled == {"completed", "failed"}

QueueInit ==
  /\ status = [t \in Tasks |-> "absent"]
  /\ owed = [t \in Tasks |-> [c \in Channels |-> 0]]
  /\ sending = {}

Oldest(S, t) == S[t] = "pending" /\ \A u \in Tasks : S[u] = "pending" => t <= u

\* Answers may get lost, and dispatches be over, at any time.
AtMost(O, D) ==
  /\ owed' \in [Tasks -> [Channels -> Nat]]
  /\ \A t \in Tasks, c \in Channels : owed'[t][c] <= O[t][c]
  /\ sending' \subseteq D

\* How a step ends whose own effect leaves statuses S and answers O: running
\* tasks G are given up, then the oldest pending task may be dispatched.
Proceed(S, O) ==
  \E G \in SUBSET {t \in Tasks : S[t] = "running"} :
    LET F == [t \in Tasks |-> IF t \in G THEN "failed" ELSE S[t]]
    IN  \/ status' = F /\ AtMost(O, sending)
        \/ \E t \in Tasks, c \in Channels :
             /\ Oldest(F, t)
             /\ status' = [F EXCEPT ![t] = "running"]
             /\ AtMost([O EXCEPT ![t][c] = @ + 1], sending \cup {t})

Submit(t) ==
  /\ status[t] = "absent"
  /\ \A u \in Tasks : u < t => status[u] # "absent"
  /\ Proceed([status EXCEPT ![t] = "pending"], owed)

Retry(t) ==
  /\ status[t] = "failed"
  /\ Proceed([status EXCEPT ![t] = "pending"], owed)

DispatchFails(t) ==
  /\ t \in sending
  /\ Proceed([status EXCEPT ![t] = "failed"], owed)

Answer(t, c, outcome) ==
  /\ owed[t][c] > 0
  /\ Proceed([status EXCEPT ![t] = outcome], [owed EXCEPT ![t][c] = @ - 1])

QueueNext ==
  \/ Proceed(status, owed)
  \/ \E t \in Tasks :
       \/ Submit(t)
       \/ Retry(t)
       \/ DispatchFails(t)
       \/ \E c \in Channels, outcome \in Settled : Answer(t, c, outcome)

QueueSpec == QueueInit /\ [][QueueNext]_queueVars
=============================================================================
