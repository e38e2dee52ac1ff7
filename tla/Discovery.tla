------------------------------ MODULE Discovery ------------------------------
(***************************************************************************)
(* How a worker finds the coordinator and stays connected to it: the       *)
(* discovery thread of the coordinator (DiscoveryServer.py), the client    *)
(* (DiscoveryClient.py) and the two retry loops of worker.py around it.    *)
(*                                                                         *)
(* Datagrams may be lost, or overtaken by the client's timeout.  Every     *)
(* attempt uses a socket of its own: an answer that comes after it was     *)
(* closed is read by nobody, while a request sent on it may reach the      *)
(* server all the same.  A session on the connection, once there is one,   *)
(* is the subject of module Cluster.                                       *)
(***************************************************************************)
EXTENDS Naturals

CONSTANTS
  Workers,
  Hosts,        (* the addresses a coordinator may run at                  *)
  DirectHost,   (* COORDINATOR_HOST of each worker, None when it is not set *)
  None

ASSUME HostAssumption == DirectHost \in [Workers -> Hosts \cup {None}] /\ None \notin Hosts

VARIABLES
  host,       (* where the coordinator runs, None while it is down         *)
  server,     (* its discovery thread                                      *)
  request,    (* workers whose open socket has DISCOVER_CLUSTER under way  *)
  reply,      (* the datagram under way to each worker's socket, or None   *)
  phase,      (* where each worker is in run                               *)
  delay,      (* the delay of the retry loop it is in                      *)
  address,    (* wsAddress, None until it is resolved                      *)
  failures    (* history: attempts that failed since the loop's last reset *)

serverVars == <<host, server>>
discoveryVars == <<host, server, request, reply, phase, delay, address, failures>>

RECONNECT_BASE_DELAY == 1
RECONNECT_MAX_DELAY == 30

\* What can arrive besides an address: text nobody understands, and JSON that
\* is not an object.
Strays == {"garbage", "scalar"}

Phases == {"resolve", "waiting", "sleep",              \* resolving the address
           "connect", "connected", "pause",            \* run's loop
           "dead"}                                     \* an exception left run

DiscoveryTypeOK ==
  /\ host \in Hosts \cup {None}
  /\ server \in {"off", "starting", "serving", "stopping", "stopped", "dead"}
  /\ request \subseteq Workers
  /\ reply \in [Workers -> Hosts \cup Strays \cup {None}]
  /\ phase \in [Workers -> Phases]
  /\ delay \in [Workers -> RECONNECT_BASE_DELAY .. RECONNECT_MAX_DELAY]
  /\ address \in [Workers -> Hosts \cup {None}]
  /\ failures \in [Workers -> 0 .. 5]

DiscoveryInit ==
  /\ host = None
  /\ server = "off"
  /\ request = {}
  /\ reply = [w \in Workers |-> None]
  /\ phase = [w \in Workers |-> "resolve"]
  /\ delay = [w \in Workers |-> RECONNECT_BASE_DELAY]
  /\ address = [w \in Workers |-> None]
  /\ failures = [w \in Workers |-> 0]

-----------------------------------------------------------------------------
(* The coordinator process and its discovery thread.                       *)

\* lifespan: the thread is started in the background.
CoordinatorStart(h) ==
  /\ host = None
  /\ host' = h
  /\ server' = "starting"
  /\ UNCHANGED <<request, reply, phase, delay, address, failures>>

\* bind succeeds, or raises and ends the thread.
Bind ==
  /\ server = "starting"
  /\ server' \in {"serving", "dead"}
  /\ UNCHANGED <<host, request, reply, phase, delay, address, failures>>

\* stop, at the end of lifespan.  The loop looks at the event after every
\* datagram, and once a second when there is none.
Stop ==
  /\ \/ server = "starting" /\ server' = "stopped"
     \/ server = "serving" /\ server' = "stopping"
  /\ UNCHANGED <<host, request, reply, phase, delay, address, failures>>

StopSeen ==
  /\ server = "stopping"
  /\ server' = "stopped"
  /\ UNCHANGED <<host, request, reply, phase, delay, address, failures>>

\* The process ends, after stop or by a crash; the thread is a daemon.
CoordinatorExit ==
  /\ host # None
  /\ host' = None
  /\ server' = "off"
  /\ UNCHANGED <<request, reply, phase, delay, address, failures>>

\* The thread is in its loop; by unicast it gets the requests sent to its host.
Reading(w) ==
  /\ server \in {"serving", "stopping"}
  /\ DirectHost[w] \in {None, host}

Receive(w) ==
  /\ Reading(w)
  /\ w \in request
  /\ request' = request \ {w}

\* A worker that has closed the socket of an attempt: it is past resolving, or
\* has backed off.
HasClosed(w) ==
  \/ phase[w] \notin {"resolve", "waiting"}
  \/ delay[w] > RECONNECT_BASE_DELAY

\* The request of such an attempt, however late.
ReceiveLate(w) == Reading(w) /\ HasClosed(w) /\ UNCHANGED request

\* The answer holds the address the coordinator has.  It is lost when the
\* socket it goes to is closed.
Answer(w) ==
  /\ \/ Receive(w) /\ reply' = [reply EXCEPT ![w] = host]
     \/ ReceiveLate(w) /\ UNCHANGED reply
  /\ server' = IF server = "stopping" THEN "stopped" ELSE server
  /\ UNCHANGED <<host, phase, delay, address, failures>>

\* Resolving the coordinator's own address or sending the answer raises, and
\* nothing in runForever catches it.
AnswerFails(w) ==
  /\ Receive(w) \/ ReceiveLate(w)
  /\ server' = "dead"
  /\ UNCHANGED <<host, reply, phase, delay, address, failures>>

-----------------------------------------------------------------------------
(* The network.                                                            *)

LoseDatagram(w) ==
  /\ \/ w \in request /\ request' = request \ {w} /\ UNCHANGED reply
     \/ reply[w] # None /\ reply' = [reply EXCEPT ![w] = None] /\ UNCHANGED request
  /\ UNCHANGED <<serverVars, phase, delay, address, failures>>

\* A datagram of somebody else reaches the worker's socket first.
Stray(w) ==
  /\ phase[w] = "waiting"
  /\ \E s \in Strays : reply' = [reply EXCEPT ![w] = s]
  /\ UNCHANGED <<serverVars, request, phase, delay, address, failures>>

-----------------------------------------------------------------------------
(* The worker: _resolveCoordinatorAddress.                                 *)

\* Variant: the ceiling is looked at before the delay is doubled.
DoubleDelayUncapped(w) ==
  delay' = [delay EXCEPT ![w] = IF @ < RECONNECT_MAX_DELAY THEN 2 * @ ELSE @]

DoubleDelay(w) ==
  delay' = [delay EXCEPT ![w] = IF 2 * @ <= RECONNECT_MAX_DELAY
                                  THEN 2 * @ ELSE RECONNECT_MAX_DELAY]

CountFailure(w) ==
  failures' = [failures EXCEPT ![w] = IF @ < 5 THEN @ + 1 ELSE @]

\* The socket of the attempt is closed.  What comes for it now is not read; a
\* request still under way becomes one of ReceiveLate.
CloseSocket(w) ==
  /\ request' = request \ {w}
  /\ reply' = [reply EXCEPT ![w] = None]

SendRequest(w) ==
  /\ phase[w] = "resolve"
  /\ phase' = [phase EXCEPT ![w] = "waiting"]
  /\ request' = request \cup {w}
  /\ UNCHANGED <<serverVars, reply, delay, address, failures>>

\* sendto raises OSError, which is no TimeoutError: run ends.
SendRaises(w) ==
  /\ phase[w] = "resolve"
  /\ phase' = [phase EXCEPT ![w] = "dead"]
  /\ UNCHANGED <<serverVars, request, reply, delay, address, failures>>

\* Variant: the client looks for keys the server does not send.
ParseOtherKeys(r) == "unknown"

\* _parseDiscoveryResponse: an address, "unknown", or an exception it does
\* not catch.
ParseDiscoveryResponse(r) ==
  CASE r = "garbage" -> "unknown"
    [] r = "scalar"  -> "raises"
    [] OTHER         -> r

\* The address is resolved; run starts its own loop with the base delay.
Resolved(w, h) ==
  /\ address' = [address EXCEPT ![w] = h]
  /\ phase' = [phase EXCEPT ![w] = "connect"]
  /\ delay' = [delay EXCEPT ![w] = RECONNECT_BASE_DELAY]
  /\ failures' = [failures EXCEPT ![w] = 0]
  /\ CloseSocket(w)

ReceiveReply(w) ==
  /\ phase[w] = "waiting"
  /\ reply[w] # None
  /\ LET parsed == ParseDiscoveryResponse(reply[w])
     IN  \/ parsed \in Hosts /\ Resolved(w, parsed)
         \/ /\ parsed = "unknown" /\ DirectHost[w] = None
            /\ reply' = [reply EXCEPT ![w] = None]
            /\ UNCHANGED <<request, phase, delay, address, failures>>
         \/ parsed = "unknown" /\ DirectHost[w] # None /\ Resolved(w, DirectHost[w])
         \/ /\ parsed = "raises"
            /\ phase' = [phase EXCEPT ![w] = "dead"]
            /\ CloseSocket(w)
            /\ UNCHANGED <<delay, address, failures>>
  /\ UNCHANGED serverVars

Timeout(w) ==
  /\ phase[w] = "waiting"
  /\ phase' = [phase EXCEPT ![w] = "sleep"]
  /\ CloseSocket(w)
  /\ UNCHANGED <<serverVars, delay, address, failures>>

-----------------------------------------------------------------------------
(* The worker: the loop of run.                                            *)

\* The coordinator accepts connections until its lifespan ends.
Accepted(w) ==
  /\ phase[w] = "connect"
  /\ host = address[w]
  /\ server \in {"starting", "serving", "dead"}
  /\ phase' = [phase EXCEPT ![w] = "connected"]

\* Variant: the delay is not reset by a connection that succeeds.
ConnectKeepingDelay(w) ==
  /\ Accepted(w)
  /\ failures' = [failures EXCEPT ![w] = 0]
  /\ UNCHANGED <<serverVars, request, reply, delay, address>>

ConnectSucceeds(w) ==
  /\ Accepted(w)
  /\ delay' = [delay EXCEPT ![w] = RECONNECT_BASE_DELAY]
  /\ failures' = [failures EXCEPT ![w] = 0]
  /\ UNCHANGED <<serverVars, request, reply, address>>

\* Nobody is there, or not yet: discovery answers before the coordinator
\* accepts connections.
ConnectFails(w) ==
  /\ phase[w] = "connect"
  /\ phase' = [phase EXCEPT ![w] = "pause"]
  /\ UNCHANGED <<serverVars, request, reply, delay, address, failures>>

\* The session ends, with the coordinator or without it.
SessionEnds(w) ==
  /\ phase[w] = "connected"
  /\ phase' = [phase EXCEPT ![w] = "pause"]
  /\ UNCHANGED <<serverVars, request, reply, delay, address, failures>>

\* asyncio.sleep returns, in either loop.
Wake(w) ==
  /\ \/ phase[w] = "sleep" /\ phase' = [phase EXCEPT ![w] = "resolve"]
     \/ phase[w] = "pause" /\ phase' = [phase EXCEPT ![w] = "connect"]
  /\ DoubleDelay(w)
  /\ CountFailure(w)
  /\ UNCHANGED <<serverVars, request, reply, address>>

-----------------------------------------------------------------------------

WorkerNext(w) ==
  \/ SendRequest(w)
  \/ SendRaises(w)
  \/ ReceiveReply(w)
  \/ Timeout(w)
  \/ ConnectSucceeds(w)
  \/ ConnectFails(w)
  \/ SessionEnds(w)
  \/ Wake(w)

DiscoveryNext ==
  \/ \E h \in Hosts : CoordinatorStart(h)
  \/ Bind
  \/ Stop
  \/ StopSeen
  \/ CoordinatorExit
  \/ \E w \in Workers :
       \/ Answer(w)
       \/ AnswerFails(w)
       \/ LoseDatagram(w)
       \/ Stray(w)
       \/ WorkerNext(w)

DiscoverySpec == DiscoveryInit /\ [][DiscoveryNext]_discoveryVars

\* Timers fire and sockets report; a session whose coordinator is gone ends.
\* A worker that keeps asking is answered in time at last, and one that keeps
\* connecting to a coordinator that is there gets through at last.
DiscoveryFairness ==
  \A w \in Workers :
    /\ WF_discoveryVars(SendRequest(w))
    /\ WF_discoveryVars(Timeout(w))
    /\ WF_discoveryVars(Wake(w))
    /\ WF_discoveryVars(ConnectFails(w))
    /\ WF_discoveryVars(SessionEnds(w) /\ address[w] # host)
    /\ SF_discoveryVars(Receive(w) /\ Answer(w))
    /\ SF_discoveryVars(ReceiveReply(w) /\ reply[w] = host)
    /\ SF_discoveryVars(ConnectSucceeds(w))

FairDiscoverySpec == DiscoverySpec /\ DiscoveryFairness

-----------------------------------------------------------------------------

\* Whenever a worker sleeps before a retry, it sleeps for the base delay
\* doubled once per failure since its loop started or since it was last
\* connected, and never for more than RECONNECT_MAX_DELAY.
BackoffFollowsFailures ==
  \A w \in Workers :
    phase[w] \in {"sleep", "pause"} =>
      LET uncapped == RECONNECT_BASE_DELAY * 2 ^ failures[w]
      IN  delay[w] = IF uncapped > RECONNECT_MAX_DELAY
                       THEN RECONNECT_MAX_DELAY ELSE uncapped

Discoverable(w) == server = "serving" /\ DirectHost[w] \in {None, host}

Joined(w) == phase[w] = "connected" /\ address[w] = host

\* A worker gets back to a coordinator that stays, whatever was lost before,
\* if it did not resolve another address earlier and no exception ended it.
WorkersJoin ==
  \A w \in Workers :
    <>[](Discoverable(w) /\ address[w] \in {None, host})
      => []<>(Joined(w) \/ phase[w] = "dead")

\* worker.py:60, "connect and stay connected": a worker gets back to a
\* coordinator that stays.
StaysConnected ==
  \A w \in Workers :
    <>[]Discoverable(w) => []<>(Joined(w) \/ phase[w] = "dead")
=============================================================================
