--------------------------- MODULE DashboardProofs ---------------------------
(***************************************************************************)
(* Proofs about the dashboard's socket, for every set of endpoints and any *)
(* number of user actions.                                                 *)
(***************************************************************************)
EXTENDS Dashboard, TLAPS

\* The types: in whatever order sockets open, close and are replaced and
\* timers fire, wsRef points to a socket that was made, and each timer holds an
\* endpoint somebody entered.
THEOREM DashboardTypes == DashboardSpec => []DashboardTypeOK
<1>. USE EndpointAssumption, SlotAssumption
<1>1. ASSUME DashboardInit PROVE DashboardTypeOK
  <2>1. 1 \in Slots /\ actions \in 0 .. MaxActions
    BY <1>1 DEF DashboardInit, Slots
  <2>. QED
    BY <1>1, <2>1 DEF DashboardInit, DashboardTypeOK, Live
<1>2. ASSUME DashboardTypeOK, [DashboardNext]_dashboardVars
      PROVE  DashboardTypeOK'
  <2>. USE <1>2 DEF DashboardTypeOK, pageVars, Live
  <2>1. ASSUME NEW s \in Slots, Opened(s) PROVE DashboardTypeOK'
    BY <2>1 DEF Opened
  <2>2. ASSUME NEW s \in Slots, Closed(s) PROVE DashboardTypeOK'
    BY <2>2 DEF Closed, IsFirst
  <2>3. ASSUME NEW e \in Endpoints, ConnectWebSocket(e)
        PROVE  /\ sockets' \in [Slots -> {"closed", "closing"} \cup Live]
               /\ endpointOf' \in [Slots -> Endpoints]
               /\ wsRef' \in Slots
    BY <2>3 DEF ConnectWebSocket, CloseCurrent
  <2>4. ASSUME NEW t \in Slots, TimerFires(t) PROVE DashboardTypeOK'
    BY <2>4, <2>3 DEF TimerFires
  <2>5. ASSUME NEW e \in Endpoints, RunEffectAgain(e), endpoint' \in Endpoints
        PROVE  DashboardTypeOK'
    <3>1. actions' \in 0 .. MaxActions
      BY <2>5 DEF RunEffectAgain
    <3>2. timers' \in [Slots -> Endpoints \cup {None}]
      BY <2>5 DEF RunEffectAgain
    <3>. QED
      BY <2>5, <2>3, <3>1, <3>2 DEF RunEffectAgain
  <2>6. ASSUME NEW e \in Endpoints, EditEndpoint(e) PROVE DashboardTypeOK'
    BY <2>6, <2>5 DEF EditEndpoint
  <2>7. CASE Remount
    BY <2>7, <2>5 DEF Remount
  <2>8. CASE ClickReconnect
    <3>1. actions' \in 0 .. MaxActions
      BY <2>8 DEF ClickReconnect
    <3>. QED
      BY <2>8, <2>3, <3>1 DEF ClickReconnect
  <2>9. CASE CoordinatorComesOrGoes
    BY <2>9 DEF CoordinatorComesOrGoes
  <2>10. CASE UNCHANGED dashboardVars
    BY <2>10 DEF dashboardVars
  <2>. QED
    BY <1>2, <2>1, <2>2, <2>4, <2>6, <2>7, <2>8, <2>9, <2>10 DEF DashboardNext
<1>. QED
  BY <1>1, <1>2, PTL DEF DashboardSpec

\* connectWebSocket leaves no live socket but the one it opens.
LEMMA ConnectReplaces ==
  ASSUME DashboardTypeOK, OneLiveSocket, NEW e, ConnectWebSocket(e)
  PROVE  OneLiveSocket' /\ sockets'[wsRef'] = "connecting" /\ wsRef' \in Slots
BY DEF DashboardTypeOK, OneLiveSocket, ConnectWebSocket, CloseCurrent, IsFirst, Live

\* No interleaving of timers, clicks, edits and closing sockets leaves the
\* page with a live socket it does not hold (connectWebSocket, onclose and
\* the effect of ClusterDashboard.jsx).
THEOREM SocketIsUnique == DashboardSpec => []OneLiveSocket
<1>1. DashboardInit => OneLiveSocket
  BY DEF DashboardInit, OneLiveSocket, Live
<1>2. ASSUME DashboardTypeOK, OneLiveSocket, [DashboardNext]_dashboardVars
      PROVE  OneLiveSocket'
  <2>. USE <1>2
  <2>1. ASSUME NEW s \in Slots, Opened(s) PROVE OneLiveSocket'
    BY <2>1 DEF Opened, pageVars, DashboardTypeOK, OneLiveSocket, Live
  <2>2. ASSUME NEW s \in Slots, Closed(s) PROVE OneLiveSocket'
    BY <2>2 DEF Closed, DashboardTypeOK, OneLiveSocket, Live
  <2>3. ASSUME NEW t \in Slots, TimerFires(t) PROVE OneLiveSocket'
    BY <2>3, ConnectReplaces DEF TimerFires
  <2>4. ASSUME NEW e \in Endpoints, EditEndpoint(e) PROVE OneLiveSocket'
    BY <2>4, ConnectReplaces DEF EditEndpoint, RunEffectAgain
  <2>5. CASE Remount
    BY <2>5, ConnectReplaces DEF Remount, RunEffectAgain
  <2>6. CASE ClickReconnect
    BY <2>6, ConnectReplaces DEF ClickReconnect
  <2>7. CASE CoordinatorComesOrGoes
    BY <2>7 DEF CoordinatorComesOrGoes, pageVars, OneLiveSocket
  <2>8. CASE UNCHANGED dashboardVars
    BY <2>8 DEF dashboardVars, OneLiveSocket
  <2>. QED
    BY <2>1, <2>2, <2>3, <2>4, <2>5, <2>6, <2>7, <2>8 DEF DashboardNext
<1>. QED
  BY <1>1, <1>2, DashboardTypes, PTL DEF DashboardSpec

\* The page never ends up without a socket and without a timer: every onclose
\* sets one, and what the effect's cleanup clears its next run replaces.
THEOREM PageKeepsTrying == DashboardSpec => []KeepsTrying
<1>. USE EndpointAssumption
<1>1. DashboardInit => KeepsTrying
  BY SlotAssumption DEF DashboardInit, KeepsTrying, Slots
<1>2. ASSUME DashboardTypeOK, OneLiveSocket, KeepsTrying,
             [DashboardNext]_dashboardVars
      PROVE  KeepsTrying'
  <2>. USE <1>2
  <2>1. ASSUME NEW e, ConnectWebSocket(e) PROVE KeepsTrying'
    BY <2>1, ConnectReplaces DEF KeepsTrying
  <2>2. ASSUME NEW s \in Slots, Opened(s) PROVE KeepsTrying'
    BY <2>2 DEF Opened, DashboardTypeOK, KeepsTrying
  <2>3. ASSUME NEW s \in Slots, Closed(s) PROVE KeepsTrying'
    BY <2>3 DEF Closed, DashboardTypeOK, KeepsTrying, IsFirst
  <2>4. ASSUME NEW t \in Slots, TimerFires(t) PROVE KeepsTrying'
    BY <2>4, <2>1 DEF TimerFires
  <2>5. ASSUME NEW e \in Endpoints, EditEndpoint(e) PROVE KeepsTrying'
    BY <2>5, <2>1 DEF EditEndpoint, RunEffectAgain
  <2>6. CASE Remount
    BY <2>6, <2>1 DEF Remount, RunEffectAgain
  <2>7. CASE ClickReconnect
    BY <2>7, <2>1 DEF ClickReconnect
  <2>8. CASE CoordinatorComesOrGoes
    BY <2>8 DEF CoordinatorComesOrGoes, KeepsTrying
  <2>9. CASE UNCHANGED dashboardVars
    BY <2>9 DEF dashboardVars, KeepsTrying
  <2>. QED
    BY <2>2, <2>3, <2>4, <2>5, <2>6, <2>7, <2>8, <2>9 DEF DashboardNext
<1>. QED
  BY <1>1, <1>2, DashboardTypes, SocketIsUnique, PTL DEF DashboardSpec
=============================================================================
