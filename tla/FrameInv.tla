------------------------------ MODULE FrameInv ------------------------------
(***************************************************************************)
(* The inductive invariant behind AckComesFirst and BusyIsTransient: what  *)
(* the frames under way, the registry and the workers know of each other.  *)
(***************************************************************************)
EXTENDS ClusterInv

\* Nothing is under way on a connection that was never opened, and no
\* connection but that of a worker's running session is open.
OpenInv ==
  \A c \in Conns :
    /\ pc[c] = "idle" => toWorker[c] = << >>
    /\ link[c] = "open" => c = Socket(Owner(c)) /\ phase[Owner(c)] # "down"

\* Only a worker in executeTask has a task.
TaskInv == \A w \in Workers : executing[w] # None => phase[w] = "execute"

\* Until the worker reads, REGISTER_ACK stays the first of the frames to it,
\* and the registry holds no open connection to which it was not sent.
AckInv ==
  \A w \in Workers : phase[w] = "register" =>
    LET c == Socket(w)
    IN  /\ toWorker[c] # << >> => Head(toWorker[c]) = AckFrame
        /\ link[c] = "open" /\ toWorker[c] = << >>
             => \A n \in Registered(nodes) : nodes[n].websocket # c

\* A busy worker owes a result on an open connection.
BusyOwes ==
  \A n \in Registered(nodes) :
    nodes[n].isBusy /\ link[nodes[n].websocket] = "open" => Owes(nodes[n].websocket)

\* A registration is gone when the handler of its connection has cleaned up,
\* and while that handler waits to acknowledge it, or ended for want of an
\* acknowledgement, the node is busy only with a task still being sent to it.
BusyUnacked ==
  \A n \in Registered(nodes) :
    LET c == nodes[n].websocket
    IN  /\ pc[c] # "finally"
        /\ AllWellFormed /\ nodes[n].isBusy /\ pc[c] \in {"ack", "done"} =>
             \E h \in Coroutines :
               pc[h] \in Sending /\ job[h].node = n /\ job[h].websocket = c

FInv == OpenInv /\ TaskInv /\ AckInv /\ BusyOwes /\ BusyUnacked

-----------------------------------------------------------------------------
(* Until a worker opens a second session, more is known: what is owed on   *)
(* its connection is one result at most, and its node is busy until it is  *)
(* paid.  IdleUntilReconnect rests on it.                                  *)

\* A handler serves the connection of a session the worker has opened.
SessionInv ==
  \A w \in Workers : \A k \in 1 .. MaxSessions[w] :
    pc[<<w, k>>] # "idle" => k <= session[w]

OfType(queue, type) == {i \in DOMAIN queue : queue[i].type = type}

Assigns(c) == OfType(toWorker[c], "TASK_ASSIGN")
Results(c) == OfType(toCoord[c], "TASK_RESULT")
Registrations(c) == OfType(toCoord[c], "REGISTER")

\* Of assignments to read, a task to execute and results to handle there is
\* one at most.
OwesOnce(c) ==
  /\ \A i, j \in Assigns(c) : i = j
  /\ \A i, j \in Results(c) : i = j
  /\ executing[Owner(c)] # None => Assigns(c) = {}
  /\ Results(c) # {} => Assigns(c) = {} /\ executing[Owner(c)] = None

RegisteredOn(n, c) == n \in Registered(nodes) /\ nodes[n].websocket = c

IdleAt(c) ==
  /\ OwesOnce(c)
  /\ Owes(c) => \A n \in Workers : RegisteredOn(n, c) => nodes[n].isBusy
  /\ Registrations(c) \subseteq {1}
  /\ Registrations(c) # {} => ~ Owes(c) /\ \A n \in Workers : ~ RegisteredOn(n, c)

FirstInv ==
  \A c \in Conns : link[c] = "open" /\ session[Owner(c)] = 1 => IdleAt(c)

IdleInv == SessionInv /\ FirstInv
=============================================================================
