-------------------------------- MODULE Worker --------------------------------
(***************************************************************************)
(* The worker processes (worker.py): connect, register, then execute one   *)
(* task at a time, and reconnect when the connection fails.  Delays and    *)
(* their exponential backoff are abstracted: a reconnect may happen at any *)
(* time.  A worker restarted with the same NODE_ID is the same worker.     *)
(***************************************************************************)
EXTENDS Network

VARIABLES
  session,    (* connections each worker has opened so far                 *)
  phase,      (* where in run / _runSession each worker is                 *)
  executing   (* the task in executeTask, None outside it                  *)

workerVars == <<session, phase, executing>>

WorkerTypeOK ==
  /\ session \in [Workers -> Nat]
  /\ \A w \in Workers : session[w] <= MaxSessions[w]
  /\ phase \in [Workers -> {"down", "register", "listen", "execute"}]
  /\ executing \in [Workers -> TaskIds \cup {None}]

WorkerInit ==
  /\ session = [w \in Workers |-> 0]
  /\ phase = [w \in Workers |-> "down"]
  /\ executing = [w \in Workers |-> None]

\* The connection of worker w's latest session.
Socket(w) == <<w, session[w]>>

\* websockets.connect, then the send of _register.
OpenSession(w) ==
  /\ phase[w] = "down"
  /\ session[w] < MaxSessions[w]
  /\ session' = [session EXCEPT ![w] = @ + 1]
  /\ phase' = [phase EXCEPT ![w] = "register"]
  /\ LET c == <<w, session[w] + 1>>
     IN  /\ link' = [link EXCEPT ![c] = "open"]
         /\ toCoord' = [toCoord EXCEPT ![c] = << RegisterFrame >>]
  /\ UNCHANGED <<toWorker, executing>>

Consume(w) ==
  /\ toWorker[Socket(w)] # << >>
  /\ toWorker' = [toWorker EXCEPT ![Socket(w)] = Tail(@)]

\* _register takes the first frame for the acknowledgement, whatever it is.
ReceiveFirst(w) ==
  /\ phase[w] = "register"
  /\ Consume(w)
  /\ phase' = [phase EXCEPT ![w] = "listen"]
  /\ UNCHANGED <<link, toCoord, session, executing>>

\* No frame within ten seconds; continue anyway.
AckTimeout(w) ==
  /\ phase[w] = "register"
  /\ phase' = [phase EXCEPT ![w] = "listen"]
  /\ UNCHANGED <<netVars, session, executing>>

ReceiveAck(w) ==
  /\ phase[w] = "listen"
  /\ Consume(w)
  /\ Head(toWorker[Socket(w)]).type = "REGISTER_ACK"
  /\ UNCHANGED <<link, toCoord, workerVars>>

ReceiveTask(w) ==
  /\ phase[w] = "listen"
  /\ Consume(w)
  /\ Head(toWorker[Socket(w)]).type = "TASK_ASSIGN"
  /\ phase' = [phase EXCEPT ![w] = "execute"]
  /\ executing' = [executing EXCEPT ![w] = Head(toWorker[Socket(w)]).task]
  /\ UNCHANGED <<link, toCoord, session>>

\* The handler returned ("completed") or raised ("failed").  On a dead
\* connection the result is lost: the send raises, so does the send of the
\* error report, and the session ends; or nobody has noticed yet and the
\* worker goes on to what had arrived.
SendResult(w, outcome) ==
  /\ phase[w] = "execute"
  /\ executing' = [executing EXCEPT ![w] = None]
  /\ \/ /\ link[Socket(w)] = "open"
        /\ toCoord' = [toCoord EXCEPT ![Socket(w)] =
                         Append(@, ResultFrame(executing[w], outcome))]
        /\ phase' = [phase EXCEPT ![w] = "listen"]
     \/ /\ link[Socket(w)] # "open"
        /\ \E p \in {"down", "listen"} : phase' = [phase EXCEPT ![w] = p]
        /\ UNCHANGED toCoord
  /\ UNCHANGED <<link, toWorker, session>>

\* recv raises once every frame that arrived has been handled.
EndSession(w) ==
  /\ phase[w] \in {"register", "listen"}
  /\ link[Socket(w)] # "open"
  /\ toWorker[Socket(w)] = << >>
  /\ phase' = [phase EXCEPT ![w] = "down"]
  /\ UNCHANGED <<netVars, session, executing>>

\* The process dies; what it had not yet read is lost with it.
Crash(w) ==
  /\ phase[w] # "down"
  /\ phase' = [phase EXCEPT ![w] = "down"]
  /\ executing' = [executing EXCEPT ![w] = None]
  /\ link' = [link EXCEPT ![Socket(w)] = IF @ = "open" THEN "lost" ELSE @]
  /\ toWorker' = [toWorker EXCEPT ![Socket(w)] = << >>]
  /\ UNCHANGED <<toCoord, session>>

\* What a running worker does without being asked to.
WorkerStep(w) ==
  \/ ReceiveFirst(w)
  \/ AckTimeout(w)
  \/ ReceiveAck(w)
  \/ ReceiveTask(w)
  \/ \E outcome \in Outcomes : SendResult(w, outcome)
  \/ EndSession(w)
=============================================================================
