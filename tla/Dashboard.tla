------------------------------ MODULE Dashboard ------------------------------
(***************************************************************************)
(* The WebSocket of the dashboard (ClusterDashboard.jsx): connectWebSocket *)
(* with its event handlers, the effect that calls it, and its reconnect    *)
(* timers.  Everything runs on the browser's event loop, one handler at a  *)
(* time; a socket that is closed by the page closes later, in its own      *)
(* onclose.  Each connectWebSocket is a closure over the endpoint of the   *)
(* render that made it, and so are the timers it leads to.                 *)
(***************************************************************************)
EXTENDS Naturals

CONSTANTS
  Endpoints,    (* what the endpoint field may hold                        *)
  Coordinator,  (* the endpoint the coordinator listens on                 *)
  MaxActions,   (* bound: remounts, Reconnect clicks and endpoint edits    *)
  None

\* Sockets and timers are numbered and a number is used again once it is free.
\* Every user action adds at most one socket or timer to those there are.
Slots == 1 .. MaxActions + 1

ASSUME EndpointAssumption == Coordinator \in Endpoints /\ None \notin Endpoints
ASSUME SlotAssumption == MaxActions \in Nat /\ None \notin Nat

VARIABLES
  up,           (* whether the coordinator can be reached                  *)
  endpoint,     (* the state variable behind the endpoint field            *)
  sockets,      (* readyState of each WebSocket                            *)
  endpointOf,   (* the endpoint in the closure that made each socket       *)
  wsRef,        (* the socket the page holds                               *)
  wsConnected,  (* the badge: "WebSocket live" or "Reconnecting"           *)
  timers,       (* pending timers: the endpoint each will connect to       *)
  timerRef,     (* reconnectTimerRef: the timer set last                   *)
  actions       (* user actions so far                                     *)

pageVars == <<endpoint, wsRef, timerRef, actions>>
dashboardVars == <<up, endpoint, sockets, endpointOf, wsRef, wsConnected,
                   timers, timerRef, actions>>

Live == {"connecting", "open"}

DashboardTypeOK ==
  /\ up \in BOOLEAN
  /\ endpoint \in Endpoints
  /\ sockets \in [Slots -> {"closed", "closing"} \cup Live]
  /\ endpointOf \in [Slots -> Endpoints]
  /\ wsRef \in Slots
  /\ wsConnected \in BOOLEAN
  /\ timers \in [Slots -> Endpoints \cup {None}]
  /\ timerRef \in Slots \cup {None}
  /\ actions \in 0 .. MaxActions

\* The page has just been mounted and its effect has run.
DashboardInit ==
  /\ up \in BOOLEAN
  /\ endpoint = Coordinator
  /\ sockets = [s \in Slots |-> IF s = 1 THEN "connecting" ELSE "closed"]
  /\ endpointOf = [s \in Slots |-> Coordinator]
  /\ wsRef = 1
  /\ wsConnected = FALSE
  /\ timers = [s \in Slots |-> None]
  /\ timerRef = None
  /\ actions = 0

-----------------------------------------------------------------------------
(* connectWebSocket                                                        *)

IsFirst(s, free) == s \in free /\ \A r \in free : s <= r

\* wsRef.current.close(), which does nothing to a socket that is closed.
CloseCurrent == [sockets EXCEPT ![wsRef] = IF @ \in Live THEN "closing" ELSE @]

\* Variant: the socket the page holds is left alone.
ConnectBesideCurrent(e) ==
  \E s \in Slots :
    /\ IsFirst(s, {r \in Slots : sockets[r] = "closed"})
    /\ sockets' = [sockets EXCEPT ![s] = "connecting"]
    /\ endpointOf' = [endpointOf EXCEPT ![s] = e]
    /\ wsRef' = s

\* connectWebSocket of a render whose endpoint is e.
ConnectWebSocket(e) ==
  \E s \in Slots :
    /\ IsFirst(s, {r \in Slots : sockets[r] = "closed"})
    /\ sockets' = [CloseCurrent EXCEPT ![s] = "connecting"]
    /\ endpointOf' = [endpointOf EXCEPT ![s] = e]
    /\ wsRef' = s

-----------------------------------------------------------------------------
(* Socket events.                                                          *)

\* onopen
Opened(s) ==
  /\ sockets[s] = "connecting" /\ endpointOf[s] = Coordinator /\ up
  /\ sockets' = [sockets EXCEPT ![s] = "open"]
  /\ wsConnected' = TRUE
  /\ UNCHANGED <<pageVars, up, endpointOf, timers>>

\* A socket closes: refused or dropped, or the page has closed it.
IsClosing(s) ==
  \/ sockets[s] = "connecting" /\ ~ (endpointOf[s] = Coordinator /\ up)
  \/ sockets[s] = "open" /\ ~ up
  \/ sockets[s] = "closing"

\* Variant: a timer is set only if the badge said the page was connected.
CloseOnceShown(s) ==
  /\ IsClosing(s)
  /\ wsConnected' = FALSE
  /\ sockets' = [sockets EXCEPT ![s] = "closed"]
  /\ IF wsConnected
       THEN \E t \in Slots :
              /\ IsFirst(t, {r \in Slots : timers[r] = None})
              /\ timers' = [timers EXCEPT ![t] = endpointOf[s]]
              /\ timerRef' = t
       ELSE UNCHANGED <<timers, timerRef>>
  /\ UNCHANGED <<up, endpoint, endpointOf, wsRef, actions>>

\* onclose
Closed(s) ==
  /\ IsClosing(s)
  /\ sockets' = [sockets EXCEPT ![s] = "closed"]
  /\ wsConnected' = FALSE
  /\ \E t \in Slots :
       /\ IsFirst(t, {r \in Slots : timers[r] = None})
       /\ timers' = [timers EXCEPT ![t] = endpointOf[s]]
       /\ timerRef' = t
  /\ UNCHANGED <<up, endpoint, endpointOf, wsRef, actions>>

\* Variant: the endpoint is read from the timer after it is cleared.
TimerFiresCleared(t) ==
  /\ timers[t] # None
  /\ timers' = [timers EXCEPT ![t] = None]
  /\ ConnectWebSocket(timers'[t])
  /\ UNCHANGED <<up, endpoint, wsConnected, timerRef, actions>>

TimerFires(t) ==
  /\ timers[t] # None
  /\ timers' = [timers EXCEPT ![t] = None]
  /\ ConnectWebSocket(timers[t])
  /\ UNCHANGED <<up, endpoint, wsConnected, timerRef, actions>>

-----------------------------------------------------------------------------
(* The user, React and the network.                                        *)

\* The cleanup of one run of the effect, then its next run, which connects to
\* e.  connectWebSocket finds the socket of the first closing already.
RunEffectAgain(e) ==
  /\ actions < MaxActions /\ actions' = actions + 1
  /\ timers' = IF timerRef = None THEN timers
                                  ELSE [timers EXCEPT ![timerRef] = None]
  /\ ConnectWebSocket(e)
  /\ UNCHANGED <<up, wsConnected, timerRef>>

\* The effect depends on connectWebSocket, which depends on endpoint.
EditEndpoint(e) == e # endpoint /\ endpoint' = e /\ RunEffectAgain(e)

\* In React's strict mode the effect of a mounted component runs twice.
Remount == actions = 0 /\ RunEffectAgain(endpoint) /\ UNCHANGED endpoint

ClickReconnect ==
  /\ actions < MaxActions /\ actions' = actions + 1
  /\ ConnectWebSocket(endpoint)
  /\ UNCHANGED <<up, endpoint, wsConnected, timers, timerRef>>

CoordinatorComesOrGoes ==
  /\ up' = ~ up
  /\ UNCHANGED <<pageVars, sockets, endpointOf, wsConnected, timers>>

-----------------------------------------------------------------------------

DashboardNext ==
  \/ \E s \in Slots : Opened(s) \/ Closed(s) \/ TimerFires(s)
  \/ \E e \in Endpoints : EditEndpoint(e)
  \/ Remount
  \/ ClickReconnect
  \/ CoordinatorComesOrGoes

DashboardSpec == DashboardInit /\ [][DashboardNext]_dashboardVars

\* Timers fire and sockets that are to close do.  Opening takes far less than
\* the two seconds of a timer, so an opening is not forestalled for ever.
DashboardFairness ==
  /\ \A s \in Slots : WF_dashboardVars(Closed(s)) /\ WF_dashboardVars(TimerFires(s))
  /\ SF_dashboardVars(\E s \in Slots : Opened(s))

FairDashboardSpec == DashboardSpec /\ DashboardFairness

-----------------------------------------------------------------------------

\* Whatever timers, clicks and edits do, no more than one socket is open or
\* on its way, and the page holds it: no other can be subscribed behind its
\* back.
OneLiveSocket == \A s \in Slots : sockets[s] \in Live => s = wsRef

\* The page never stops trying: a socket is not closed yet or a timer is set.
KeepsTrying ==
  \E s \in Slots : sockets[s] # "closed" \/ timers[s] # None

IsStreaming == sockets[wsRef] = "open"

\* Once the coordinator is reachable for good, at the endpoint in the field,
\* the page is connected again and again.
ComesBack == <>[](up /\ endpoint = Coordinator) => []<>IsStreaming

\* README.md:15, "Streams live updates to the dashboard over WebSocket": once
\* the coordinator is reachable for good, the stream stays up.
StreamsLive == <>[](up /\ endpoint = Coordinator) => <>[]IsStreaming
=============================================================================
