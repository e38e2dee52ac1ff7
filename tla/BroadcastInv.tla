---------------------------- MODULE BroadcastInv ----------------------------
(***************************************************************************)
(* The inductive invariants behind the properties of module Broadcast.     *)
(***************************************************************************)
EXTENDS Broadcast

-----------------------------------------------------------------------------
(* What is suspended agrees with the clients, connections and queues.      *)

\* Handlers broadcast, endpoints serve; an endpoint that is not in use yet
\* has no connection.
Roles ==
  /\ \A h \in Handlers : at[h] \in {"idle", "working", "casting"}
  /\ \A d \in Dashboards :
       /\ at[d] \in {"idle", "accepted", "subscribing", "greeting", "recv", "done"}
       /\ at[d] = "idle" => link[d] = "free"

\* A broadcast under way has a client to serve, its snapshot is not from the
\* future, and those it found dead are.
Casts ==
  \A h \in Handlers : at[h] = "casting" =>
    /\ cast[h].todo # << >>
    /\ cast[h].snapshot <= version
    /\ \A d \in cast[h].dead : link[d] = "closed"

\* Coroutine c is in a send on connection d.
IsSendingOn(c, d) ==
  \/ c \in Handlers /\ at[c] = "casting" /\ Head(cast[c].todo) = d
  \/ c = d /\ at[d] \in {"subscribing", "greeting"}

Queues ==
  \A d \in Dashboards :
    /\ IsInjective(queue[d])
    /\ \A c \in ToSet(queue[d]) : IsSendingOn(c, d)

Subscribed == {"subscribing", "greeting", "recv"}

Members ==
  /\ IsInjective(clients)
  /\ \A d \in Dashboards :
       /\ d \in ToSet(clients) => at[d] \in Subscribed
       /\ at[d] \in Subscribed /\ link[d] = "open" => d \in ToSet(clients)

Past == \A d \in Dashboards : newest[d] # None => newest[d] <= version

\* What suspended broadcasts and endpoints remember agrees with the clients,
\* the connections and the queues of senders (broadcastClusterState,
\* dashboardEndpoint), and with it nobody is left behind.
BInv ==
  /\ BroadcastTypeOK
  /\ Roles
  /\ Casts
  /\ Queues
  /\ Members
  /\ Past
  /\ NoDashboardLeftBehind

-----------------------------------------------------------------------------
(* No broadcast overtakes another.                                         *)

\* The clients a broadcast has still to hand its snapshot to.
ToServe(h) == ToSet(Tail(cast[h].todo))

\* A broadcast serves nobody twice, and waits where it is served next.
InLine ==
  \A h \in Handlers : at[h] = "casting" =>
    /\ IsInjective(cast[h].todo)
    /\ h \in ToSet(queue[Head(cast[h].todo)])

\* The order a broadcast goes by is the set's own.
Orders ==
  \A h \in Handlers : at[h] = "casting" =>
    /\ ToSet(cast[h].todo) \subseteq ToSet(clients)
    /\ SameOrder(cast[h].todo, clients)

\* Whoever h has still to serve g serves later: it has not got there, or is
\* behind h in the same queue.
Behind(h, g) ==
  LET next == Head(cast[h].todo)
  IN  /\ ToServe(h) \subseteq ToServe(g)
      /\ \/ next \in ToServe(g)
         \/ next = Head(cast[g].todo) /\ Before(queue[next], h, g)

\* A newer broadcast is behind every older one.
NoneOvertakes ==
  \A h, g \in Handlers :
    at[h] = "casting" /\ at[g] = "casting" /\ cast[h].snapshot < cast[g].snapshot
      => Behind(h, g)

\* What makes a broadcast out of date is broadcast itself, or will be.
NewsIsOut ==
  \A h \in Handlers : at[h] = "casting" /\ cast[h].snapshot < version =>
    \E g \in Handlers :
      at[g] = "working" \/ (at[g] = "casting" /\ cast[g].snapshot = version)

\* What a page shows, or is about to, is the snapshot handed to it last,
\* unless it has fetched one.
PageFollows ==
  \A d \in Pages :
    /\ link[d] = "free" => inbox[d] = << >>
    /\ link[d] = "open" /\ inbox[d] # << >> => Last(inbox[d]) = sent[d]
    /\ link[d] \in {"free", "open"} /\ inbox[d] = << >> => shown[d] = sent[d] \/ fetched[d]

\* While the enumeration of dashboardClients is not disturbed, broadcasts that
\* overlap stay in the order of their snapshots at every client, and a page
\* ends up with the last (broadcastClusterState, ClusterDashboard.jsx).
WordInv ==
  /\ InLine
  /\ ~ disturbed => Orders /\ NoneOvertakes
  /\ ~ disturbed /\ ~ silent => NewsIsOut
  /\ LastWordIsCurrent
  /\ PageFollows
=============================================================================
