# Campus Compute in TLA+

Campus Compute is a LAN compute platform: one coordinator, workers that register
with it over WebSocket and run the tasks it assigns, and a dashboard. This
directory models the parts of it where interleavings, failures and stale state
decide correctness, checks them with TLC and proves the most important results
with TLAPS. Paths below are relative to `src/`.

    tlc -workers 2 -config cluster.cfg MCCluster     # one run
    tlapm ClusterProofs.tla                          # one module of proofs

The module of each run is in `PROJECT.json`: `MCCluster`, `MCScheduler`, `MCDiscovery`,
`BroadcastInv` (for `broadcast.cfg`) and `Dashboard`.

## The system

| Component | State | Operations | Talks to |
|---|---|---|---|
| Task table, `coordinator/JobManager.py` | `_tasks`: insertion-ordered dict of tasks with status and worker | enqueue, oldest pending, tasks of a worker, mark running / completed / failed, requeue | called by server and scheduler |
| Registry, `coordinator/NodeRegistry.py` | `_nodes`: worker id to socket, hardware, busy flag | register, unregister, set busy, available workers | called by server and scheduler |
| Scheduler, `coordinator/scheduler.py` | none | `_selectWorker`, `_assignTask`, `dispatchPending` | both tables; sends TASK_ASSIGN |
| Server, `coordinator/server.py` | per connection `nodeId`; `dashboardClients` | `/jobs`, `/jobs/{id}/retry`, `/status`, the `/ws` endpoint with its `finally` clause, broadcasts | workers, dashboards, HTTP clients |
| Worker, `worker/worker.py`, `worker/executor.py` | session, task in execution, backoff delay, resolved address | register, execute, report, reconnect | coordinator |
| Discovery, `coordinator/DiscoveryServer.py`, `worker/DiscoveryClient.py` | a daemon thread and a stop event; one socket per attempt | answer requests; broadcast or direct lookup with retry | UDP |
| Dashboard, `frontend/dashboard/components/ClusterDashboard.jsx` | the socket, the badge, reconnect timer, snapshot | connect, reconnect, show snapshots, submit jobs | `/ws`, API proxy |
| API proxy, `frontend/dashboard/app/api` | none | forwards a request | HTTP routes |
| Hardware detection, `worker/hardware.py` | none | asks torch, then `nvidia-smi`, then `rocm-smi`, once | its report goes into REGISTER |

### What is hard

* **Coroutines on shared tables.** All handlers run on one asyncio event loop.
  The locks of `JobManager` and `NodeRegistry` are never contended, because
  nothing inside them awaits anything else; what suspends a handler is a send
  or a receive. `dispatchPending` reads the tables, updates both, suspends in
  the send of TASK_ASSIGN, and loops, while other handlers do the same.
* **Sends that fail.** `_assignTask` rolls back after the suspension, by ids it
  read before. A failed REGISTER_ACK leaves `handleRegister` by an exception.
* **Half-open connections.** A worker that vanishes is noticed when a keepalive
  ping goes unanswered. Until then sends succeed and vanish; frames that had
  arrived are still handled, and the worker may be back under the same
  `nodeId` on another connection.
* **Discovery.** Lost and late datagrams, two retry loops with exponential
  backoff, an address that is resolved once, exceptions that end a thread.
* **Overlapping broadcasts.** Every handler ends by sending a snapshot to each
  dashboard in turn. Each send may suspend it; meanwhile others change the tables,
  begin broadcasts of their own, and dashboards subscribe, fail and leave.
* **The dashboard's reconnect logic.** Events of replaced sockets arrive late,
  and every `onclose` sets a timer that outlives what it was set for.

### What makes each component correct

* Task table and server: a running task is always somebody's responsibility and
  gets settled; a pending task that can run gets run.
* Registry: a busy flag is never left behind; idle means idle; registered means
  connected, and connected registered.
* Scheduler: its early returns and filters lose no worker that fits better, and the
  choice does not depend on who else is around.
* Worker: nothing the coordinator assigned is dropped between registration and
  the message loop.
* Queue: a client of `/jobs` sees tasks dispatched in order, once per submission
  or retry, and settled by nothing but an answer that is owed or a failure.
* Broadcast: whoever is subscribed and connected has, or will get, the current
  state, and as the last thing it hears.
* Hardware: whichever source fails, no card is reported twice, and none of a vendor
  the machine has no card of.
* Discovery: a worker reaches a coordinator that stays, and backs off as declared.
* Dashboard: one live socket, never given up, and a badge that tells the truth.

## The modules

| Module | Models |
|---|---|
| `ClusterTypes` | constants, their assumptions, value sets: workers, hardware, needs, connections, coroutines |
| `JobManager`, `NodeRegistry` | the two tables as pure operators on a table value: every method is one atomic update |
| `Scheduler` | `_selectWorker`; returns the set of workers that may be chosen, a singleton but for exact ties |
| `Network` | the WebSocket transport (external): state of each connection, frames in flight each way |
| `Coordinator` | the coordinator's coroutines: one action from each suspension point to the next |
| `Worker` | worker processes: open a session, register, execute, report, crash |
| `Cluster` | the composition with users, crashes and losses; safety and liveness properties |
| `ClusterInv` | the inductive invariant `IInv` |
| `ClusterProofs` | its proof, and the theorems that follow |
| `FrameInv`, `FrameProofs` | the invariants about the frames under way, `FInv` and `IdleInv`; their proof, and the theorems that follow |
| `Claims` | what docstrings, comments and log messages say and the code does not keep |
| `MCCluster` | the instances for TLC |
| `TaskQueue` | abstract specification: what a client of `/jobs` is promised, without workers, connections or coroutines |
| `ClusterQueue`, `QueueProofs` | the refinement mapping from `Cluster` to `TaskQueue`; the proof that it is one |
| `IdlePool`, `SchedulerProofs` | the scheduler's choice while the pool of idle workers changes; a reference definition of the choice; proofs |
| `Hardware`, `HardwarePool`, `MCScheduler` | hardware detection as a function of what the three sources say, the pool of the machines it describes, and the instance for TLC |
| `Broadcast` | the set of dashboard clients, broadcasts, subscriptions, `/status`, and the snapshot a page shows |
| `BroadcastInv` | the inductive invariants `BInv` and `WordInv` |
| `BroadcastProofs`, `LastWordProofs` | their proofs, and the theorems that follow from each |
| `Discovery`, `MCDiscovery`, `DiscoveryProofs` | discovery thread, lookup, address, reconnect loop and backoff; proofs |
| `Dashboard`, `DashboardProofs` | the dashboard's socket and timers; proofs |

Operators called a *variant* in a comment are faulty alternatives of the operator
that follows them. No specification uses them; putting one in the place of its
original breaks a property, which shows that the property depends on that code.

### State and code

`Coordinator.tasks` is `_tasks`: a task is its insertion index, so "oldest" is
"least". `nodes` maps a node to the socket it registered on (`None` when it is
not in `_nodes`) and its busy flag. `pc` says where each coroutine is suspended:
`recv` in `iter_text`, `ack` in the send of REGISTER_ACK, and one location per
caller of `dispatchPending` for the send in `_assignTask`. `job` holds the
locals of that `_assignTask`, `nodeId` the local of `websocketEndpoint`.

An action runs from one suspension to the next. `HandleTaskResult`, say, settles
the task, clears the busy flag and takes the first turn of `dispatchPending` in
one step, ending in the next send or back in `recv`. `SendSucceeded` and
`SendFailed` resume it, with the rollback in the second case, and take the next
turn. `SelectionRaises` is the `float()` of `_selectWorker` raising on a
malformed `minRamGb`; an HTTP route turns it into a 500, a connection handler
runs its `finally` clause. Three conventions of asyncio and uvicorn are built in:
a frame is handed to the transport before its send can suspend, sends on one
socket complete in order, and a send raises only once the library knows that
the connection is closed.

A worker executes inline, so it reads nothing while it executes, reports only on
the connection the task came by and reconnects only when it is done. A restart
with the same `NODE_ID` is the same worker with one more session. A crash loses
what it had not read, while frames that reached the coordinator are handled.

`TaskQueue` has the status of each task, the answers still `owed` for it on each
channel, and the tasks with a dispatch that is not over (`sending`). The mapping
reads the first off `tasks`; an answer is owed for every TASK_ASSIGN frame in
flight, for the task in execution and for every unread TASK_RESULT frame; a
dispatch is not over while some coroutine is suspended in `_assignTask`. Every
action of `Cluster` is then a `Submit`, `Retry`, `Answer` or `DispatchFails`, each
followed by at most one dispatch of the oldest pending task, or a step that only
gives up running tasks, loses answers, or stutters.

In `Broadcast` the tables are abstracted to `version`, the number of times they have
changed, and a snapshot to the version it shows. `Change` is any update a handler
makes before it broadcasts. `cast` holds the locals of `broadcastClusterState`; each
send is a suspension, `queue` the coroutines suspended on a connection in the order
they came, which is the order asyncio's flow control resumes them in. `clients` is a
set in the code; it is a sequence here because `list()` enumerates it, and an `add`
or a `difference_update` that removes something may shuffle it. `sent`, `newest`,
`silent` and `disturbed` are history variables for the properties.

`Hardware` describes a machine by its cards and by what torch, `nvidia-smi` and
`rocm-smi` would say of them, and follows `_detectGpuInfo` through its fallbacks,
the empty list of `hardware.py:125` included. The pool of `MCScheduler` consists of
such machines, and the profile the scheduler sees is what detection makes of them.
`MachineAssumption` relates the sources to the cards: none of them invents one.

In `Discovery`, `phase` is the place in `_resolveCoordinatorAddress` or `run`,
`delay` the local of that name; `failures` is a history variable for the
backoff property. Each attempt has its own socket: an answer that comes after it was
closed is read by nobody, while its request may still reach the server, however late,
and be answered in vain or end the thread (`ReceiveLate`). In `Dashboard` sockets and
timers are numbered slots, with the endpoint each one's closure captured.

## The runs

Sizes are distinct states. Bounds are constants of the modules: `MaxTasks`,
`MaxSessions`, `Requests`, `MaxActions`, `MaxChanges`, `MaxAnswers`, `Pages`, the cap
of 5 on `failures`.

| Run | Instance | Shows | States |
|---|---|---|---|
| `cluster` | 2 workers of different hardware, 2 tasks (plain, GPU), 1 session each, 1 request at a time | `NoLostWakeup`, `RunningTaskHasOwner`, `BusyIsTransient`, `IdleUntilReconnect`, types | 930 k |
| `sessions` | 1 worker, 2 sessions, 2 tasks, malformed payloads too | `IInv`, `FInv` and `IdleInv` are invariants, tried here before they were proved; `AckComesFirst`; `IdleUntilReconnect`, and `BusyIsTransient` across a reconnect; `ImplementsTaskQueue`, the refinement | 0.5 M |
| `liveness` | 1 worker without a GPU, 2 sessions, 2 tasks (plain, GPU, malformed), fairness | `RunningSettles`, `PendingIsServed` | 159 k |
| `scheduler` | every pool of 9 machines, 6 needs | `SelectionIsBestFit`, `ChoiceIgnoresBystanders`, `GpusAreCountedOnce` | 3072 |
| `discovery` | 1 worker that broadcasts, 1 with COORDINATOR_HOST, 2 hosts, fairness | `WorkersJoin`, `BackoffFollowsFailures`, types | 74 k |
| `broadcast` | 2 handlers, 2 dashboard connections, 2 changes, the page of 1 followed with 1 answer of `/status` under way at a time, fairness | `NoDashboardLeftBehind`, `LastWordIsCurrent`, `SubscriptionsHold`, `PageIsCurrent`, `DashboardsCatchUp`, types; `BInv` and `WordInv` are invariants, tried here before they were proved | 452 k |
| `dashboard` | 2 endpoints, 3 user actions, fairness | `OneLiveSocket`, `KeepsTrying`, `ComesBack`, types | 82 k |

Why the bounds suffice. Two coroutines inside `dispatchPending` and a third that
changes the tables under them need two workers, or one worker and one request;
overlapping registrations need two sessions of one worker; a loop that goes on
after a rollback, and a blocked head of the queue, need two tasks. A broadcast that
overtakes another needs two handlers, two changes, one connection to wait on and
another to be late on. A blocked queue needs a task that no registered worker can
take and one behind it: in `liveness` the GPU task and the malformed one block it,
and a queue that is not blocked has to move through crashes and a reconnect. That a
block is lifted when another worker registers is not in that instance; it is one
more way for `QueueIsBlocked` to become false. The theorems below have no such bounds; the runs were there
to find out what is true before proving it, and remain the only check of liveness.
Every action and every disjunct of the next-state relations fires in some passing
run. `CHECK_DEADLOCK FALSE` is set for the cluster and broadcast runs because
the bounded users, sessions, changes and connections run out.

**Fairness.** `Cluster!Fairness`: a coroutine that can run runs (the event loop),
handlers of tasks return, workers read what arrived, and a dead connection is
noticed (uvicorn and the websockets library ping every connection). Users,
crashes, losses and reconnects are under no obligation. `Discovery`: timers fire;
strong fairness of answers and connects says that a worker that keeps asking is
answered in time at last, which any network on which discovery can work grants.
`Broadcast`: coroutines that can run do run and every send ends, since a client that
reads nothing answers no keepalive ping either; nothing obliges anybody to change,
connect or leave.
`Dashboard`: timers fire and closing sockets close; strong fairness of opening
stands for an opening taking far less than the two seconds of a timer.

### Conditions in the properties

`RunningTaskHasOwner`, `BusyIsTransient` and `RunningSettles` are stated for
well-formed payloads (an exception inside `handleRegister` breaks them, see the
findings), `NoLostWakeup` and `PendingIsServed` except while a *ghost* is registered
(a node whose handler has ended), `WorkersJoin` for workers that did not resolve an
address earlier. Each condition is told below, the last two with a run that
shows them necessary.
`PendingIsServed` does not say that every task is served while workers are registered,
which is false: a task that requires a GPU waits as long as no worker with one is
registered, a malformed one for ever (`dispatchPending` raises each time it looks at
it), and so do all tasks behind either, whatever they ask for (`scheduler.py:58`, `:75`).
`QueueIsBlocked` is this exception in the formula: the head of the queue could not be
placed if every registered worker were idle. What is left is that a queue whose head
can be placed moves on.
`GpusAreCountedOnce` excepts the count when `rocm-smi` is the source that is believed.
In `Broadcast`, three properties except the time from a handler that raised to the next
broadcast (`silent`), and `LastWordIsCurrent` and `PageIsCurrent` the time after the
enumeration of the clients changed under a broadcast (`disturbed`), which ends with
the next broadcast that begins alone.
`IdleUntilReconnect` says of a worker in its first session what the docstring says of
all (`AvailableMeansIdle`); after a reconnect `stale_result` refutes it.

### Findings

Each of these runs ends in a counterexample to a statement of the repository.

* `ghost_registration`: `NodeRegistry.py:1`, "Registry of connected worker nodes".
  `handleRegister` registers before it acknowledges; when the acknowledgement
  cannot be sent, `nodeId` is never set and nobody unregisters the node. Pending
  tasks are then sent to it and fail one after the other.
* `lost_registration`: `NodeRegistry.py:52`, "store of all connected workers". The
  `finally` clause of an old connection pops the worker's new registration.
* `stale_result`: `NodeRegistry.py:107`, "connected and not currently processing a
  task". A result from the old connection clears the busy flag of the new one.
* `moved_coordinator`: `worker.py:60`, "connect and stay connected". The address is
  resolved once.
* `reconnect_loop`: `README.md:15`, "Streams live updates". One click on Reconnect,
  one edit of the endpoint, or React's strict-mode remount starts a loop in which
  a timer closes the good socket every two seconds. (The same late `onclose` makes
  the badge say "Reconnecting" over an open socket.)

Also met while modelling. The models contain each of these behaviours; no run is
spent on them because they show in a step or two.

* `scheduler.py:40`, dispatchPending "Stops when either queue or workers are
  exhausted". It also stops at a task that fits nobody idle, and those behind it wait
  (`CanAssign` looks at the oldest pending task only).
* `_assignTask` fails the task of a send that raised without looking at it
  (`scheduler.py:124`). While it was suspended the worker's `finally` clause may have
  failed the task and a user retried it: a pending task, or one running elsewhere or
  even completed, becomes failed. The abstract queue has to allow it
  (`DispatchFails`), and allows as well that a late answer settles a task in any
  status (`Answer`), as `markTaskCompleted` does.
* `README.md:15`, "Streams live updates": when `dispatchPending` raises, no broadcast
  follows, and dashboards show the old state until something else changes
  (`HandlerRaises`). When a client leaves the set, or the set is resized, while
  one broadcast is suspended, a second one may overtake it, and the last frame a
  dashboard gets is the older snapshot (`disturbed`).
* `ClusterDashboard.jsx:69`, "WebSocket will eventually sync state": the answer to
  `/status` taken before a change may arrive after the frame that announced it and
  replace it; the page then shows the old state until the next change
  (`ShowFetched`; the second disjunct of `PageIsCurrent`).
* `scheduler.py:22`, "prefer GPU-capable workers": the code makes the GPU mandatory, and
  the task waits while none with one is idle. `scheduler.py:23`, "skip workers below
  that threshold": they are taken when all idle workers are below it. `BestFit` follows
  the code.
* `worker.py:167`, "Could be a TASK_ASSIGN that arrived immediately; put back in the
  pipeline by raising so _runSession handles it": nothing is raised, and a frame that is
  no REGISTER_ACK is logged and dropped (`ReceiveFirst`), which would lose the task.
  `worker.py:129`, "Ack may arrive here if coordinator sends it after some queued
  messages": it cannot come after others. The acknowledgement is first on every
  connection (`AckComesFirst`, proved as `AckIsFirst`), so neither case arises; it gets to
  `worker.py:129` only after `_register` has stopped waiting for it.
* `hardware.py:248` takes every line of `rocm-smi` about a card for a device, so a card
  described on four lines is reported as four. One device that torch cannot query
  loses the others when no tool is installed (`hardware.py:98`, `:144`), and torch with
  an available device but an empty list is reported as a GPU with a count of 0
  (`hardware.py:125`). None of this moves the scheduler, which asks for `gpuAvailable`.
* `scheduler.py:79`, "Relax RAM requirement rather than permanently stall the queue":
  not when only workers without a GPU meet it and the task requires a GPU.
  `SelectionIsBestFit` states what happens.
* `server.py:188`, "Fail any tasks that were running on this worker": not after
  `float(minRamGb)` raised inside `handleRegister`, where `nodeId` is not set yet
  (`SelectionRaises` in `HandlerDispatch`).
* `server.py:197` logs "task(s) re-queued"; the tasks are failed.
* `worker.py:222`, "retry with backoff until found": only `TimeoutError` is retried
  (`SendRaises`, and `ReceiveReply` of a reply that is JSON but no object).
* `DiscoveryServer.py:41`, "respond until stopped": an exception ends the thread
  (`Bind`, `AnswerFails`).
* `worker.py:90` resets `attempt` to 1 before the loop adds 1 to it, which would cost
  an attempt if `RECONNECT_MAX_ATTEMPTS` were not 0 (not modelled).

## The proofs

Everything below is for arbitrary constants that satisfy the named assumptions:
hardware and needs have their types (`ProfileAssumption`, `NeedsAssumption`), bounds
are naturals (`BoundsAssumption`), `None`, requests, task ids and connections
are different things (`NoneAssumption`, `RequestAssumption`, `NoCastAssumption`), and
handlers, dashboards, endpoints, slots and hosts are what the modules say
(`BroadcastAssumption`, `EndpointAssumption`, `SlotAssumption`, `HostAssumption`).

* **`ClusterProofs`**. `Invariance`: `Spec => []IInv`; from it `TypeCorrectness`
  (`TypeOK`), `WakeupsAreKept` (`NoLostWakeup`) and `RunningTasksAreOwned`
  (`RunningTaskHasOwner`). Neither of the last two is inductive. That a wakeup is
  not lost when a handler's turn ends depends on the loop having found nothing to
  dispatch; that a promise by a REGISTER_ACK in flight is kept depends on the
  handler of every registered socket being the worker's own (`RegistryInv`,
  `Served`); and that a rollback or a `finally` clause reaches the right node
  depends on what suspended coroutines remember (`AssignmentInv`, `HandlerInv`).
  A task taken over by a `finally` clause needs `ClosedInv`: that clause runs only
  on a closed connection. The proof describes one turn of `dispatchPending` by
  one predicate (`Turn`) that every caller's step satisfies, so each conjunct is
  argued once for turns and once for each of the few steps without one.
* **`FrameProofs`**. `FrameInvariance`: `Spec => []FInv`, inductive relative to
  `IInv`; from it `AckIsFirst` (`AckComesFirst`) and `BusyEnds` (`BusyIsTransient`).
  The acknowledgement stays first because a node is registered on a connection in
  the very step that hands the acknowledgement to it, so no other coroutine can have
  sent there before (`AckInv`). A busy worker owes a result as long as its connection
  is open (`BusyOwes`): the flag is set in the step that hands over TASK_ASSIGN, and
  the debt moves from the frame to the execution to the result. Only a registration
  that is not yet acknowledged is different, since its handler is suspended and
  will act on an exception; there the coroutine that made it busy is found still
  sending (`BusyUnacked`). `IdleInvariance` and `AvailableIsIdle` (`IdleUntilReconnect`)
  are about workers in their first session: of assignments to read, an execution and
  results to handle there is at most one on the connection (`OwesOnce`), so a result
  that is handled leaves nothing owed and clearing the flag is right. Clearing goes by
  `nodeId`, so this needs the worker to have no other connection that a handler serves
  or a coroutine sends on (`SessionInv`), which is what a second session destroys: the
  condition is not for the proof's convenience, as `stale_result` shows.
* **`QueueProofs`**. `QueueRefinement`: `Spec => ImplementsTaskQueue`. Each step of
  `Cluster` is mapped to a `Submit`, `Retry`, `Answer` or `DispatchFails` followed by at
  most one dispatch, to a step that only gives up tasks or loses answers, or to a
  stutter. The number of answers owed is a number of frames, so the lemmas say how
  the cardinality of the positions of a frame changes when a queue is appended
  to, read, or cut off by a loss (`FramesAppended`, `FramesTail`, `FramesPrefix`).
  `TurnProceeds` relates one turn of `dispatchPending` to the abstract dispatch once
  for all its callers. It uses `IInv` for the types and for what a suspended
  `_assignTask` remembers, and `FInv` for a worker that connects having no task left.
* **`BroadcastProofs`**. `BroadcastInvariant`: `BroadcastSpec => []BInv`; from it
  `BroadcastTypeCorrect`, `NobodyIsLeftBehind` (`NoDashboardLeftBehind`) and
  `SubscriptionsAreKept` (`SubscriptionsHold`). That a broadcast which ends drops
  nobody who is connected depends on what it remembers: those it found dead were
  closed, and a closed connection stays so (`Casts`). That a new connection is not
  in the set already depends on the set holding only endpoints that serve
  (`Members`, `Roles`). That a slow broadcast cannot hide a newer snapshot depends
  on no snapshot being from the future (`Casts`, `Past`), and that the sender a
  connection resumes is the one whose step it is, on no coroutine being in two
  sends (`Queues`). The lemmas on sequences without duplicates say what `add`,
  `discard` and `difference_update` do whatever order the set is enumerated in.
* **`LastWordProofs`**. `OrderOfBroadcasts`: `BroadcastSpec => []WordInv`, inductive
  relative to `BInv`; from it `LastWordIsNewest` (`LastWordIsCurrent`) and
  `PageCatchesUp` (`PageIsCurrent`). Why does a newer broadcast not overtake an older
  one? Both go by the order of the set (`Orders`), so whom the newer has still to
  serve, the older has passed or stands before in the same queue, and the newer
  begins behind everybody (`Behind`, `NoneOvertakes`). A broadcast that is out of
  date is followed by one that is not, or by a handler about to start one
  (`NewsIsOut`). The two together make the last frame handed to a dashboard
  the newest, and a page that has read all its frames shows the last (`PageFollows`).
  Where the enumeration changes (`disturbed`) the first argument is void, and the
  invariant claims nothing.
* **`SchedulerProofs`**. `BestFitIsSelected`: `_selectWorker`, written as the code
  computes it, with its filters and early returns, returns exactly the workers that
  `BestFit` describes in one formula. `ChoiceIsStable`: the choice survives the
  departure of any other worker.
* **`DiscoveryProofs`**. `DiscoveryTypes` (`DiscoveryTypeOK`) and `BackoffIsExact`
  (`BackoffFollowsFailures`): the delay is the power of two of the failures, up to
  the ceiling, in every phase and not only in a sleep (`DelayInv`), since each reset
  of one is a reset of the other and each sleep that ends doubles one and counts the
  other. `PaceDoubles` evaluates the six powers there are below the cap of `failures`.
* **`DashboardProofs`**. `DashboardTypes` (`DashboardTypeOK`), and with it as the
  strengthening `SocketIsUnique` (`OneLiveSocket`) and `PageKeepsTrying` (`KeepsTrying`).

Only model-checked: every liveness property, `RunningSettles`, `PendingIsServed`,
`WorkersJoin`, `ComesBack` and `DashboardsCatchUp`, because liveness under fairness
and `ENABLED` are beyond the prover; and `GpusAreCountedOnce`, which compares the
lengths of filtered lists. Induction over data is beyond the prover too; the theorems
need none: frames are counted by the cardinality of their positions. The refutations of the five violated runs are, of course,
TLC's.

## Not modelled

* The suspension of a handler in its final broadcast, in `Coordinator`: a broadcast
  changes no task and no node and delays the handler's next receive, which the
  model allows anyway. `Broadcast` has it, with the tables abstracted.
* Results, errors, timestamps, job ids, hardware details no decision depends on.
* The five task handlers: an execution completes or fails. Nothing bounds its time
  (`executor.py:48`), so liveness assumes that handlers return.
* The API proxy (stateless; a POST whose answer is lost may be sent again by the
  user and make a second task), the charts, and `ws-server.js`, a mock with
  another message format.
* Indexes, memory sizes, driver versions and device names in the hardware report.
* More than one answer of `/status` under way to a page at a time, in the run; the
  theorems allow any number (`MaxAnswers`). A page whose connection is lost is followed
  as that of its next connection, with the answers it had asked for before.
* A restart of the coordinator with its tables: they are in memory only. `Discovery`
  has a coordinator that stops and moves.
* Ports in discovery, which are always the default.

## Plan

1. Done: core cluster, scheduler, discovery, dashboard socket; the first theorems.
2. Done: the abstract task queue and the refinement, broadcasts and pages, hardware.
3. Done: every invariant the passing runs check, but `GpusAreCountedOnce`, is the
   statement of a theorem, and so are the refinement and the action property of the
   scheduler.
4. The cluster with discovery in front of it: an address that decides whether a
   session can open.
