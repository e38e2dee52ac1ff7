-------------------------------- MODULE Claims --------------------------------
(***************************************************************************)
(* What comments, docstrings and log messages of the repository say of the *)
(* coordinator and the code does not keep.  Each is checked by a run that  *)
(* ends in a counterexample; the README tells each story.                  *)
(***************************************************************************)
EXTENDS Cluster

\* NodeRegistry.py:1, "Registry of connected worker nodes": a registered node
\* has a connection whose handler is still there.
RegistryIsConnected == \A n \in Workers : ~ IsGhost(n)

\* NodeRegistry.py:52, "store of all connected workers": a worker that was
\* acknowledged and whose connection is up and served is in the registry.
ConnectedIsRegistered ==
  \A c \in Conns :
    link[c] = "open" /\ pc[c] = "recv" /\ nodeId[c] # None
      => nodeId[c] \in Registered(nodes)

\* NodeRegistry.py:107, "Return workers that are connected and not currently
\* processing a task": also after a reconnect (until then, IdleUntilReconnect
\* holds).
AvailableMeansIdle ==
  \A n \in GetAvailableWorkers(nodes) :
    nodes[n].websocket = Socket(n) /\ link[Socket(n)] = "open"
      => phase[n] # "execute"
===============================================================================
