---------------------------- MODULE NodeRegistry ----------------------------
(***************************************************************************)
(* The registry of workers (NodeRegistry.py).  A registry N maps each node *)
(* to the socket it registered on, None when it is not in _nodes, and its  *)
(* busy flag.  Hardware fields are the constant Profile.                   *)
(***************************************************************************)
EXTENDS ClusterTypes

WorkerNode == [websocket: Conns \cup {None}, isBusy: BOOLEAN]

NoNode == [websocket |-> None, isBusy |-> FALSE]

Registered(N) == {n \in Workers : N[n].websocket # None}

GetAvailableWorkers(N) == {n \in Registered(N) : ~ N[n].isBusy}

\* Variant: the node's name is stored for its socket.
RegisterName(N, n, c) ==
  [N EXCEPT ![n] = [websocket |-> n, isBusy |-> FALSE]]

\* A node that registers again replaces its record: idle, on the new socket.
Register(N, n, c) ==
  [N EXCEPT ![n] = [websocket |-> c, isBusy |-> FALSE]]

\* unregister removes the node whatever socket it is registered on.
Unregister(N, n) == [N EXCEPT ![n] = NoNode]

SetNodeBusy(N, n, busy) ==
  IF n \in Registered(N) THEN [N EXCEPT ![n].isBusy = busy] ELSE N
=============================================================================
