------------------------------ MODULE Broadcast ------------------------------
(***************************************************************************)
(* How dashboards are told of the cluster (server.py), and what their      *)
(* pages show (ClusterDashboard.jsx).  The nodes and tasks of the cluster  *)
(* are abstracted to the number of times they have changed, a snapshot to  *)
(* that number; what changes them is the subject of module Coordinator.    *)
(*                                                                         *)
(* As there, an action is what a coroutine does between two suspensions.   *)
(* A frame is handed to the transport before its send can suspend, a send  *)
(* to a congested client stays suspended, and the senders suspended on one *)
(* socket are resumed in the order they came.                              *)
(***************************************************************************)
EXTENDS Naturals, SequencesExt

CONSTANTS
  Handlers,    (* HTTP requests and worker connections served at a time    *)
  Dashboards,  (* the WebSocket connections dashboards ever open           *)
  Pages,       (* bound: those whose page is followed as well              *)
  MaxChanges,  (* bound: changes of nodes and tasks                        *)
  MaxAnswers,  (* bound: answers of /status under way to a page            *)
  None

ASSUME BroadcastAssumption ==
  /\ MaxChanges \in Nat /\ MaxAnswers \in Nat
  /\ Pages \subseteq Dashboards
  /\ Handlers \cap Dashboards = {}
  /\ None \notin Nat

VARIABLES
  version,    (* changes of the nodes and tasks so far                     *)
  clients,    (* dashboardClients, in the order list() enumerates it       *)
  link,       (* each dashboard connection, as in module Network           *)
  at,         (* where each coroutine is suspended                         *)
  cast,       (* locals of broadcastClusterState: stateJson, clients still
                 to be served, the one being served first, and dead        *)
  queue,      (* coroutines suspended in a send on each connection         *)
  inbox,      (* CLUSTER_STATE frames under way to each page               *)
  shown,      (* the snapshot each page shows                              *)
  answers,    (* answers of /status under way to it                        *)
  fetched,    (* whether what it shows came that way                       *)
  sent,       (* history: the snapshot handed to each connection last      *)
  newest,     (* history: the newest snapshot handed to it                 *)
  silent,     (* history: a handler raised after the last broadcast began  *)
  disturbed   (* history: the enumeration changed under a broadcast        *)

pageVars == <<inbox, shown, answers, fetched>>
broadcastVars == <<version, clients, link, at, cast, queue, pageVars,
                   sent, newest, silent, disturbed>>

Versions == 0 .. MaxChanges

Cast == [snapshot: Versions, todo: Seq(Dashboards), dead: SUBSET Dashboards]

ASSUME NoCastAssumption == None \notin Cast

\* Where a coroutine waits for a send to return.
Suspended == {"casting", "subscribing", "greeting"}

\* (A coroutine that is queued on a connection is suspended in a send.)
BroadcastTypeOK ==
  /\ version \in Versions
  /\ clients \in Seq(Dashboards)
  /\ link \in [Dashboards -> {"free", "open", "lost", "closed"}]
  /\ at \in [Handlers \cup Dashboards ->
               {"idle", "working", "casting",
                "accepted", "subscribing", "greeting", "recv", "done"}]
  /\ cast \in [Handlers -> Cast \cup {None}]
  /\ queue \in [Dashboards -> Seq(Handlers \cup Dashboards)]
  /\ inbox \in [Dashboards -> Seq(Versions)]
  /\ shown \in [Dashboards -> Versions \cup {None}]
  /\ answers \in [Dashboards -> SUBSET Versions]
  /\ fetched \in [Dashboards -> BOOLEAN]
  /\ sent \in [Dashboards -> Versions \cup {None}]
  /\ newest \in [Dashboards -> Versions \cup {None}]
  /\ silent \in BOOLEAN
  /\ disturbed \in BOOLEAN
  /\ \A h \in Handlers : (cast[h] = None) = (at[h] # "casting")
  /\ \A d \in Dashboards : \A c \in ToSet(queue[d]) : at[c] \in Suspended

BroadcastInit ==
  /\ version = 0
  /\ clients = << >>
  /\ link = [d \in Dashboards |-> "free"]
  /\ at = [h \in Handlers \cup Dashboards |-> "idle"]
  /\ cast = [h \in Handlers |-> None]
  /\ queue = [d \in Dashboards |-> << >>]
  /\ inbox = [d \in Dashboards |-> << >>]
  /\ shown = [d \in Dashboards |-> None]
  /\ answers = [d \in Dashboards |-> {}]
  /\ fetched = [d \in Dashboards |-> FALSE]
  /\ sent = [d \in Dashboards |-> None]
  /\ newest = [d \in Dashboards |-> None]
  /\ silent = FALSE
  /\ disturbed = FALSE

-----------------------------------------------------------------------------
(* The set of clients.                                                     *)

\* d comes before e in s.
Before(s, d, e) == \E i, j \in DOMAIN s : i < j /\ s[i] = d /\ s[j] = e

\* Whether those in both sequences are in the same order in both.
SameOrder(s, t) ==
  \A d, e \in ToSet(s) \cap ToSet(t) : Before(s, d, e) <=> Before(t, d, e)

\* The clients become s.
SetClients(s) ==
  /\ clients' = s
  /\ disturbed' = \/ disturbed
                  \/ /\ \E h \in Handlers : at'[h] = "casting"
                     /\ ~ (ToSet(clients) \subseteq ToSet(s) /\ SameOrder(clients, s))

\* add may resize the hash table, which shuffles the enumeration.
AddClient(d) ==
  \E s \in SetToSeqs(ToSet(clients) \cup {d}) : SetClients(s)

Discard(d) ==
  \/ \E i \in DOMAIN clients : clients[i] = d /\ SetClients(RemoveAt(clients, i))
  \/ d \notin ToSet(clients) /\ SetClients(clients)

\* So may difference_update, when it removes something.
DropClients(dead) ==
  IF dead \cap ToSet(clients) = {} THEN SetClients(clients)
  ELSE \E s \in SetToSeqs(ToSet(clients) \ dead) : SetClients(s)

-----------------------------------------------------------------------------
(* Sending.                                                                *)

\* Coroutine h, whose send on connection d is over when q is the queue, hands
\* snapshot v to connection e and is suspended in that send.
Hand(q, h, e, v) ==
  /\ queue' = [q EXCEPT ![e] = Append(@, h)]
  /\ IF link[e] = "open"
       THEN /\ inbox' = [inbox EXCEPT ![e] = IF e \in Pages THEN Append(@, v) ELSE @]
            /\ sent' = [sent EXCEPT ![e] = v]
            /\ newest' = [newest EXCEPT ![e] = IF @ = None \/ @ < v THEN v ELSE @]
       ELSE UNCHANGED <<inbox, sent, newest>>

\* The send of h on d returns, or raises.
Returns(h, d) ==
  queue[d] # << >> /\ Head(queue[d]) = h /\ link[d] \in {"open", "lost"}
Raises(h, d) ==
  queue[d] # << >> /\ Head(queue[d]) = h /\ link[d] = "closed"

Dequeued(d) == [queue EXCEPT ![d] = Tail(@)]

-----------------------------------------------------------------------------
(* Handlers that change nodes or tasks and end in a broadcast: submitJob,  *)
(* retryJob, handleRegister, handleTaskResult, the finally clause.         *)

\* The handler's own update, or a turn of dispatchPending.
Change(h) ==
  /\ at[h] \in {"idle", "working"}
  /\ version < MaxChanges
  /\ version' = version + 1
  /\ at' = [at EXCEPT ![h] = "working"]
  /\ UNCHANGED <<clients, link, cast, queue, pageVars, sent, newest, silent, disturbed>>

\* dispatchPending raises on a malformed payload, or REGISTER_ACK cannot be
\* sent: no broadcast follows.
HandlerRaises(h) ==
  /\ at[h] = "working"
  /\ at' = [at EXCEPT ![h] = "idle"]
  /\ silent' = TRUE
  /\ UNCHANGED <<version, clients, link, cast, queue, pageVars, sent, newest, disturbed>>

\* Variant: one broadcast at a time is enough.
NobodyWaits == clients = << >> \/ \E h \in Handlers : at[h] = "casting"

\* When a broadcast is not worth its payload.
NobodyListens == clients = << >>

\* Variant: those served by another broadcast come last.
IdleFirst ==
  SelectSeq(clients, LAMBDA d : queue[d] = << >>)
    \o SelectSeq(clients, LAMBDA d : queue[d] # << >>)

\* Those a broadcast is for, in its order.
Recipients == clients

\* broadcastClusterState up to its first send.
StartBroadcast(h) ==
  /\ at[h] = "working"
  /\ silent' = FALSE
  /\ disturbed' = (disturbed /\ \E g \in Handlers : at[g] = "casting")
  /\ IF NobodyListens
       THEN /\ at' = [at EXCEPT ![h] = "idle"]
            /\ UNCHANGED <<cast, queue, inbox, sent, newest>>
       ELSE /\ at' = [at EXCEPT ![h] = "casting"]
            /\ cast' = [cast EXCEPT ![h] =
                          [snapshot |-> version, todo |-> Recipients, dead |-> {}]]
            /\ Hand(queue, h, Head(Recipients), version)
  /\ UNCHANGED <<version, clients, link, shown, answers, fetched>>

\* The loop goes on with the next client, or is over.
NextClient(h, dead) ==
  LET todo == cast[h].todo
  IN  IF Tail(todo) = << >>
        THEN /\ at' = [at EXCEPT ![h] = "idle"]
             /\ cast' = [cast EXCEPT ![h] = None]
             /\ queue' = Dequeued(Head(todo))
             /\ DropClients(dead)
             /\ UNCHANGED <<inbox, sent, newest>>
        ELSE /\ cast' = [cast EXCEPT ![h].todo = Tail(todo), ![h].dead = dead]
             /\ Hand(Dequeued(Head(todo)), h, todo[2], cast[h].snapshot)
             /\ UNCHANGED <<at, clients, disturbed>>

\* Variant: a client another broadcast waits for as well counts as dead.
SendReturnedSlowly(h) ==
  /\ at[h] = "casting"
  /\ Returns(h, Head(cast[h].todo))
  /\ NextClient(h, cast[h].dead \cup {d \in {Head(cast[h].todo)} : Len(queue[d]) > 1})
  /\ UNCHANGED <<version, link, shown, answers, fetched, silent>>

SendReturned(h) ==
  /\ at[h] = "casting"
  /\ Returns(h, Head(cast[h].todo))
  /\ NextClient(h, cast[h].dead)
  /\ UNCHANGED <<version, link, shown, answers, fetched, silent>>

\* Variant: the exception ends the loop.
SendRaisedAtOnce(h) ==
  /\ at[h] = "casting"
  /\ Raises(h, Head(cast[h].todo))
  /\ at' = [at EXCEPT ![h] = "idle"]
  /\ cast' = [cast EXCEPT ![h] = None]
  /\ queue' = Dequeued(Head(cast[h].todo))
  /\ DropClients({Head(cast[h].todo)})
  /\ UNCHANGED <<version, link, pageVars, sent, newest, silent>>

SendRaised(h) ==
  /\ at[h] = "casting"
  /\ Raises(h, Head(cast[h].todo))
  /\ NextClient(h, cast[h].dead \cup {Head(cast[h].todo)})
  /\ UNCHANGED <<version, link, shown, answers, fetched, silent>>

-----------------------------------------------------------------------------
(* The endpoint of a dashboard's connection.                               *)

Connect(d) ==
  /\ at[d] = "idle"
  /\ at' = [at EXCEPT ![d] = "accepted"]
  /\ link' = [link EXCEPT ![d] = "open"]
  /\ UNCHANGED <<version, clients, cast, queue, pageVars, sent, newest, silent, disturbed>>

\* SUBSCRIBE_DASHBOARD, up to the send of SUBSCRIBED.
Subscribe(d) ==
  /\ at[d] = "accepted"
  /\ at' = [at EXCEPT ![d] = "subscribing"]
  /\ AddClient(d)
  /\ queue' = [queue EXCEPT ![d] = Append(@, d)]
  /\ UNCHANGED <<version, link, cast, pageVars, sent, newest, silent>>

\* Variant: the send is not awaited.
SendUnawaited(d) ==
  /\ at[d] = "subscribing"
  /\ Returns(d, d)
  /\ at' = [at EXCEPT ![d] = "recv"]
  /\ Hand(Dequeued(d), d, d, version)
  /\ UNCHANGED <<version, clients, link, cast, shown, answers, fetched, silent, disturbed>>

\* sendClusterStateTo, up to its send.
SendClusterStateTo(d) ==
  /\ at[d] = "subscribing"
  /\ Returns(d, d)
  /\ at' = [at EXCEPT ![d] = "greeting"]
  /\ Hand(Dequeued(d), d, d, version)
  /\ UNCHANGED <<version, clients, link, cast, shown, answers, fetched, silent, disturbed>>

StateSent(d) ==
  /\ at[d] = "greeting"
  /\ Returns(d, d)
  /\ at' = [at EXCEPT ![d] = "recv"]
  /\ queue' = Dequeued(d)
  /\ UNCHANGED <<version, clients, link, cast, pageVars, sent, newest, silent, disturbed>>

StateFailed(d) ==
  /\ at[d] = "greeting"
  /\ Raises(d, d)
  /\ at' = [at EXCEPT ![d] = "recv"]
  /\ queue' = Dequeued(d)
  /\ Discard(d)
  /\ UNCHANGED <<version, link, cast, pageVars, sent, newest, silent>>

\* The finally clause: receive raised, or the send of SUBSCRIBED did.
Disconnect(d) ==
  /\ link[d] = "closed"
  /\ \/ at[d] \in {"accepted", "recv"} /\ UNCHANGED queue
     \/ at[d] = "subscribing" /\ Raises(d, d) /\ queue' = Dequeued(d)
  /\ at' = [at EXCEPT ![d] = "done"]
  /\ Discard(d)
  /\ UNCHANGED <<version, link, cast, pageVars, sent, newest, silent>>

-----------------------------------------------------------------------------
(* The network and the pages.                                              *)

\* The page is left alone: it connects anew, on another connection.
LoseConnection(d) ==
  /\ link[d] = "open"
  /\ link' = [link EXCEPT ![d] = "lost"]
  /\ inbox' = [inbox EXCEPT ![d] = << >>]
  /\ shown' = [shown EXCEPT ![d] = None]
  /\ answers' = [answers EXCEPT ![d] = {}]
  /\ fetched' = [fetched EXCEPT ![d] = FALSE]
  /\ sent' = [sent EXCEPT ![d] = None]
  /\ newest' = [newest EXCEPT ![d] = None]
  /\ UNCHANGED <<version, clients, at, cast, queue, silent, disturbed>>

NoticeLoss(d) ==
  /\ link[d] = "lost"
  /\ link' = [link EXCEPT ![d] = "closed"]
  /\ UNCHANGED <<version, clients, at, cast, queue, pageVars, sent, newest, silent, disturbed>>

\* Variant: frames are passed over while a snapshot is under way.
ShowUnlessFetching(d) ==
  /\ inbox[d] # << >>
  /\ inbox' = [inbox EXCEPT ![d] = Tail(@)]
  /\ IF answers[d] # {} THEN UNCHANGED <<shown, fetched>>
     ELSE /\ shown' = [shown EXCEPT ![d] = Head(inbox[d])]
          /\ fetched' = [fetched EXCEPT ![d] = FALSE]
  /\ UNCHANGED <<version, clients, link, at, cast, queue, answers,
                 sent, newest, silent, disturbed>>

\* onmessage of a CLUSTER_STATE frame.
ShowPushed(d) ==
  /\ inbox[d] # << >>
  /\ shown' = [shown EXCEPT ![d] = Head(inbox[d])]
  /\ fetched' = [fetched EXCEPT ![d] = FALSE]
  /\ inbox' = [inbox EXCEPT ![d] = Tail(@)]
  /\ UNCHANGED <<version, clients, link, at, cast, queue, answers,
                 sent, newest, silent, disturbed>>

\* refreshSnapshot: getStatus takes a snapshot, which gets to the page at any
\* time.  The page asks when it is mounted, before its socket is open, and after
\* each job it submits, on this socket or the one before.
GetStatus(d) ==
  /\ d \in Pages
  /\ link[d] \in {"free", "open"}
  /\ Cardinality(answers[d]) < MaxAnswers
  /\ answers' = [answers EXCEPT ![d] = @ \cup {version}]
  /\ UNCHANGED <<version, clients, link, at, cast, queue, inbox, shown, fetched,
                 sent, newest, silent, disturbed>>

\* Answers are not ordered, and several may hold the same snapshot.
ShowFetched(d) ==
  \E v \in answers[d] :
    /\ shown' = [shown EXCEPT ![d] = v]
    /\ fetched' = [fetched EXCEPT ![d] = TRUE]
    /\ answers' \in {answers, [answers EXCEPT ![d] = @ \ {v}]}
    /\ UNCHANGED <<version, clients, link, at, cast, queue, inbox,
                   sent, newest, silent, disturbed>>

-----------------------------------------------------------------------------
HandlerStep(h) == HandlerRaises(h) \/ StartBroadcast(h) \/ SendReturned(h) \/ SendRaised(h)

EndpointStep(d) == SendClusterStateTo(d) \/ StateSent(d) \/ StateFailed(d) \/ Disconnect(d)

PageStep(d) == ShowPushed(d) \/ ShowFetched(d)

BroadcastNext ==
  \/ \E h \in Handlers : Change(h) \/ HandlerStep(h)
  \/ \E d \in Dashboards :
       \/ Connect(d) \/ Subscribe(d) \/ EndpointStep(d)
       \/ LoseConnection(d) \/ NoticeLoss(d)
       \/ GetStatus(d) \/ PageStep(d)

BroadcastSpec == BroadcastInit /\ [][BroadcastNext]_broadcastVars

\* The event loop resumes what can go on.  A send to a client that reads
\* nothing ends as well: the client answers no keepalive ping either.
BroadcastFairness ==
  /\ \A h \in Handlers : WF_broadcastVars(HandlerStep(h))
  /\ \A d \in Dashboards : WF_broadcastVars(EndpointStep(d))

FairBroadcastSpec == BroadcastSpec /\ BroadcastFairness

-----------------------------------------------------------------------------
(* Properties.                                                             *)

\* A snapshot as new as the cluster will be handed to d by a step that is due.
UpdateOnItsWay(d) ==
  \/ \E h \in Handlers :
       \/ at[h] = "working"
       \/ /\ at[h] = "casting"
          /\ cast[h].snapshot = version
          /\ d \in ToSet(Tail(cast[h].todo))
  \/ at[d] = "subscribing"

Served(d) == d \in ToSet(clients) /\ link[d] = "open"

\* A dashboard that is subscribed and connected has been handed the state of
\* the cluster as it is, or will be: none joins between a broadcast that
\* left it out and a snapshot that came before it, and none is skipped by
\* broadcasts that overlap.  (A handler that raises after its change tells
\* nobody; the next broadcast mends it.)
NoDashboardLeftBehind ==
  \A d \in Dashboards :
    Served(d) /\ ~ silent => newest[d] = version \/ UpdateOnItsWay(d)

\* The last word a dashboard gets is the newest: no broadcast overtakes an
\* older one on any connection, unless the enumeration of the set changed, or
\* a client left it, while one was under way.
LastWordIsCurrent ==
  \A d \in Dashboards :
    Served(d) /\ ~ silent /\ ~ disturbed => sent[d] = version \/ UpdateOnItsWay(d)

\* Nobody is dropped from the set whose connection is not lost, and nobody
\* whose endpoint is over stays in it, whichever of the three that discard a
\* client does it and whatever they interleave with.
SubscriptionsHold ==
  \A d \in Dashboards :
    /\ link[d] = "open" /\ at[d] \in {"subscribing", "greeting", "recv"} => d \in ToSet(clients)
    /\ d \in ToSet(clients) => at[d] # "done"

\* Once nothing is under way to it, a page shows the state of the cluster,
\* unless what it shows came by HTTP: an answer may be older than the frame it
\* replaces, and nothing corrects it until the next change.
PageIsCurrent ==
  \A d \in Pages :
    Served(d) /\ inbox[d] = << >> /\ ~ silent /\ ~ disturbed /\ ~ UpdateOnItsWay(d)
      => \/ shown[d] = version
         \/ fetched[d]

\* A dashboard that stays subscribed and connected gets to the state of the
\* cluster, however many others are slow, fail or leave.
DashboardsCatchUp ==
  \A d \in Dashboards :
    (Served(d) /\ newest[d] # version) ~> (newest[d] = version \/ ~ Served(d) \/ silent)
=============================================================================
