------------------------------ MODULE ClusterInv ------------------------------
(***************************************************************************)
(* The inductive invariant behind NoLostWakeup and RunningTaskHasOwner:    *)
(* how registrations, suspended assignments and connection handlers hang   *)
(* together.                                                               *)
(***************************************************************************)
EXTENDS Cluster

\* A worker that is not down has opened a connection, and one that executes
\* has a task.
WorkerInv ==
  \A w \in Workers :
    /\ phase[w] # "down" => session[w] >= 1
    /\ phase[w] = "execute" => executing[w] \in TaskIds

\* Only a request is suspended on behalf of a request, and a connection's
\* nodeId is its owner's, known once a frame after REGISTER is handled.
HandlerInv ==
  /\ \A h \in Requests : pc[h] \in {"idle", "request"}
  /\ \A c \in Conns : pc[c] # "request"
  /\ \A c \in Conns : nodeId[c] \in {None, Owner(c)}

\* The handler of socket c, which worker n registered on, will run the
\* finally clause for n: it knows its nodeId, or is in handleRegister still,
\* or is gone.
Served(c, n) ==
  /\ c \in Conns
  /\ Owner(c) = n
  /\ pc[c] # "idle"
  /\ nodeId[c] = n \/ pc[c] \in {"ack", "register", "done"}

\* Every socket in the registry was registered by its owner.
RegistryInv == \A n \in Registered(nodes) : Served(nodes[n].websocket, n)

\* So was every socket a suspended _assignTask sends on.
AssignmentInv ==
  \A h \in Coroutines : pc[h] \in Sending =>
    job[h] \in Assignment /\ Served(job[h].websocket, job[h].node)

\* A handler is over only when its connection is closed, and its finally
\* clause dispatches only then, unless it was entered by an exception that a
\* malformed payload raised.
ClosedInv ==
  /\ \A c \in Conns : pc[c] = "done" => link[c] = "closed"
  /\ AllWellFormed => \A c \in Conns : pc[c] = "finally" => link[c] = "closed"

IInv ==
  /\ TypeOK
  /\ WorkerInv
  /\ HandlerInv
  /\ RegistryInv
  /\ AssignmentInv
  /\ ClosedInv
  /\ NoLostWakeup
  /\ RunningTaskHasOwner
=============================================================================
