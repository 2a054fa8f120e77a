# TGProxy in TLA+

TGProxy is an HTTP proxy in front of *model servers*.  A request carries a sorted list of
64-bit feature keys; the proxy cuts the list into one slice per partition, posts every slice
to a model server, and concatenates the weights they answer.  Which model servers exist is
read from the children of a ZooKeeper znode and kept up to date by watchers and by a
ten-minute loop.

This directory holds TLA+ modules of that program, TLC configurations that check them on
small instances, and proofs that TLAPS checks for every value of the constants.

## The system

Paths are relative to `src/TGProxy`.

| component | source | state | operations |
|---|---|---|---|
| cluster admin | `cluster/tgp_cluster_admin.*` | `ms_cluster_`, `count_`, `mtx_` | start, stop, ten-minute loop, `updateModelServerList`, `getOneMsAddr` |
| watchers | `cluster/tgp_zk_watcher.*` | none (they run in the completion thread of a handle) | `zk_watcher`, `tgpChildrenWatcher` |
| ZK wrapper | `cluster/tgp_zookeeper.*` | `zzh_`, recursive `mtx_`, `zk_addr_` | `start_zk`, `finalize_zk`, `is_connected`, `get_chdnodes`; node operations (no caller yet) |
| postman | `postman/tgp_postman.*` | `features_`, `slices_`, `weights_` of one request | `checkRequest`, `tranferRequest`, `get_ms_url`, `MSReplyCallback`, `answerRequest` |
| slicer | `tiangan/slicer.h` | `ranges_` | `slice` |
| event hub, multi curl | `tiangan/event_hub.h`, `tiangan/curl_helper.h` | event base, curl multi handle, one timer, an event per socket | `register_event`, `start`, timer and socket handlers, `check_multi_info` |
| HTTP front end | `proxy/*`, `utils/tgp_utils.cc` | `body_` of a request | routing by path, `onRequest`, `onBody`, `onEOM`, `requestComplete`, `onError` |
| configuration | `base/*` | `ms_conf_`, `key_` | `load_ms_conf_file`, `get_ms_parts`, `get_ms_list` |
| entry | `main.cc`, `proxy/tgp_proxy_server.cc`, `base/tgp_context.*` | the two singletons | start-up, early returns, shutdown, destruction at exit |
| helpers | `tiangan/murmur_hash3.*`, `tiangan/c_api.*`, `tiangan/mpath.h`, `tiangan/str.h`, `base/tgp_log.*` | - | hashing, a C binding, string helpers, logging |

How they interact:

- `main` reads the settings, starts the ZooKeeper client and waits for it, loads the
  configuration, runs the HTTP server until a signal, and stops the client.  It returns early when
  one of these fails; then the destructors of the singletons do the rest.
- The singleton cluster admin starts a detached thread that wakes every 600 s.  It updates the
  list when the client is connected, and closes and reopens the client when it is not.
- The client library runs one completion thread per handle; it calls `zk_watcher` (session
  events) and `tgpChildrenWatcher` (the znode changed, and every session event while that
  watch is set).  Both update the list; `zk_watcher` replaces an expired session.
- All of these share `zk_.mtx_` (recursive) and `zzh_`.  `ms_cluster_` has a mutex of its own.
- Worker threads of the HTTP server run one request at a time, from `onEOM` to the reply.  A
  request has a postman on the stack, with its own event base and curl multi handle; what the
  requests share is `getOneMsAddr`, the static counter of `get_ms_url`, and the configuration.

What is hard about it: watchers that run at any time in threads of the library, a mutex held
across a blocking close, a read and an assignment under two different mutexes, one-shot
watches, sessions that expire while somebody else restarts the client, answers that come in any
order or not at all, callbacks of libcurl that call libcurl again, threads that outlive `main`, and
the arithmetic of the ranges.  `PROJECT.json` lists these hazards line
by line, with the properties that cover them.

What makes each component correct:

- cluster admin and watchers: the mutex is always given back; at most one session is open;
  the list is one that the znode had, it is never emptied, and it follows the znode;
- slicer: every key goes into the slice of its range, once, in order;
- postman: a reply has the weights of every server that was asked, at the places of the features;
  every request ends;
- event hub: every transfer ends and calls back once, whatever handler is nested in which, and the
  loop returns when none is left and not before: no transfer outlives its postman;
- choice of a server: even load, addresses of one list, the file only until there is a list;
- configuration: what is loaded is what the file says, each partition has a server, and workers
  only read the shared map;
- HTTP front end: only paths of models reach the postman, it gets whole bodies, each transaction
  has one reply, its handler is deleted at its end and not before a callback has returned;
- node operations: what they return is true of the znode during the call;
- program: no thread uses an object that is gone, the session is closed at the end, and the server
  is bound to an address of the local network.

## Modules

| module | what it models | used by |
|---|---|---|
| `ClusterAdmin` | Main, Loop, the completion threads, `zk_.mtx_`, `zzh_`, the client's handles and the znode | `MCClusterAdmin`, `ClusterAdminProofs` |
| `MsDirectory` | the abstract list of servers: always that of one view the znode had, never emptied | implemented by `ClusterAdmin`, extended by `ServerChoice` |
| `ServerChoice` | `get_ms_url` and `getOneMsAddr` in concurrent workers, while lists are installed | `MCServerChoice`, `ServerChoiceProofs` |
| `RangeSlicer` | the ranges and the two loops of `slice()` | `Postman`, `MCRangeSlicer`, `RangeSlicerProofs` |
| `Postman` | one request: check, slice, register, run the hub, answer | `MCPostman`, `PostmanProofs` |
| `TransferHub` | the abstract hub: each transfer ends and calls back once, the thread comes back when all have | implemented by `EventHub`, used by `Postman` |
| `EventHub` | one hub: the curl multi handle, its timer and sockets, and handlers nested in handlers | `MCEventHub`, `EventHubProofs` |
| `Exchange` | the abstract front end: one reply per transaction, of the right kind, after the request and before the end | implemented by `HttpHandler` |
| `HttpHandler` | routing, the callbacks of transactions on the workers, the statistics | `MCHttpHandler`, `HttpHandlerProofs` |
| `MsConf` | loading the file of model servers, and the lookups of the workers | `Program` |
| `Program` | `main` from its settings to the destruction of the singletons, with the watchers and the loop | `MCProgram`, `ProgramProofs` |
| `ZkNode` | the node operations of the ZK wrapper on one znode | `MCZkNode`, `ZkNodeProofs` |

The composition.  `Postman` extends `RangeSlicer`: the call of `slice()` is the slicer's own
next-state relation, and the proofs about the postman use the slicer's loop invariant.  `Postman`
runs `TransferHub`, as an instance with its own variables, and `EventHub` is shown to implement
`TransferHub` (`HubImplemented`), so that the orders libcurl may call handlers in need not be
multiplied with those of the answers.  `ServerChoice` extends `MsDirectory`, the promise that
`ClusterAdmin` is shown to keep (`ListImplementsDirectory`).  `Program` extends `MsConf`: loading
and looking up are steps of `main` and of its workers, and `Program` implements `MsConf`'s own
specification (`ProgramConf`).  The other modules meet at their interfaces: `tgpExpress`, a call
that returns in `HttpHandler`, is what `Postman` models (its `RepliesUnlessScalar` justifies that the
call returns, as long as the process lives); what `MsConf` loads is what `ServerChoice` has as `ConfLists` (that it is a constant
with a server in every partition is `ServedListsAreChoosable` and `ServedListsStay`); and what the client does while `Program`
serves is `ClusterAdmin`.

### ClusterAdmin

A thread's position in the code is `pc[t]`; one action stands for the code between two points
where another thread can interfere.

| code | actions |
|---|---|
| `startZkProcess`, `start_zk` | `StartZk`, `InitHandle`, `InitFails`, `Poll` |
| `stopZkProcess`, `finalize_zk` | `Finalize` (up to the call of `zookeeper_close`), `Join` (its return) |
| `loopUpdateModelServerList` | `Wake` (`is_connected` and the branch) |
| `updateModelServerList`, `get_chdnodes` | `GetChildren`, `GetOk` / `GetFails` / `GetRetries`, `AssignCluster` |
| `tgpChildrenWatcher`, `zk_watcher` | `CallChildrenWatcher`, `CallZkWatcher`, `LeaveWatcher` |
| `main` | `StartZk(Main)` ..., `Shutdown`, `Finalize(Main)`; `Exited` ends every thread |
| `zookeeper_mt`, ensemble (external) | `Dequeue`, `ThreadExits`, `Connect`, `Disconnect`, `Expire`, `Notify`, `Publish` |

The list is represented by the version of the view it was filled from.  A view is a set of
names; only those with `:` count as addresses (`AddressesIn`).  `calm` marks the point from which
the environment neither fails nor changes any more; only liveness properties mention it.

What is assumed of the library (`zookeeper_mt`, the only one that has threads): watchers of a
handle run one at a time in its completion thread; session events go to the session watcher and
to every watch that is set; a child watch fires once; `zookeeper_close` from another thread
joins the completion thread, which first handles what is queued, and from the completion thread
itself joins nothing; calls on a null handle report an error.  The loop's first wake-up, after
600 s, is taken to come after `main` has finished `startZkProcess`, which gives up after 6 s.

### RangeSlicer

One action per iteration of the two loops.  `std::lower_bound` is modelled by what binary search
guarantees of any sequence, sorted or not: the key before the position is smaller, the key at it
is not.  For sorted keys that is one position, for others any of several.

### Postman

`CheckRequest` stands for `checkRequest` with the form of the body as input; `Slice` for the
steps of the slicer; `SkipEmpty` and `Register` for an iteration of `tranferRequest`'s loop.
Transfers end (`Complete`, `TimeOut`) inside libcurl; `ReadMessage` is the callback.  Since libcurl
may call the timer callback while a handle is added, that happens during registration, too, and
the loop goes on when what ended has called back.  `StartHub` and `HubReturns` are the call of
`start()` and its return; the remaining actions are `answerRequest`.  A server's answer is one of
ten kinds: all weights, one too few, one too many, an empty body, JSON that cannot be parsed or is
no object, an unknown format, a refusal, integer weights, and no answer with status 200.

The weights of an answer are named by the keys they belong to, so that "the weight belongs to
that feature" is an equation.

### TransferHub and EventHub

| code | actions |
|---|---|
| `register_event`, `create`, `add` | `Register` |
| `start` | `StartLoop`, `LoopReturns` |
| `ev_timer_handler`, `ev_event_handler` | `TimerFires`, `SocketFires`, up to their call of libcurl |
| `curl_multi_socket_action` (external) | `Proceed` (with `curl_sock_handler`), `Finish`, `EndAction` (with `curl_timer_handler`) |
| `check_multi_info` | `ReadMessage` (up to `curl_multi_remove_handle`), `CallBack` (to `delete handle`), `Checked` |

`calls` is the stack of handlers the thread is in.  `TimerHandler` is `curl_timer_handler`: on a
timeout of 0 it pushes a call of libcurl onto whatever called it, and `check_multi_info` after
that.  libcurl tells its timeout before it returns from a call; when it has no timer left it
may or may not say so.  The model has a libcurl that allows calls from inside callbacks, as the
code needs it.  In the refinement a transfer whose message is being handled still counts as one
that has ended and not called back.

### ServerChoice

`PickFromCluster` is `getOneMsAddr` under its mutex.  Without a list (`FindNoCluster`) a worker
turns to the configuration file; `++count` on the unsynchronised static is a load and a store
(`LoadSpare`, `StoreSpare`), an overflow of the int wraps around, as it does without optimisation
(`Incremented`), and `PickSpare` uses whatever the counter is by then, converted to a `size_t`
(`SparePosition`).  `Install` is
the assignment in `updateModelServerList`, of addresses sorted by name (`children_node_cmp`).
`used` is an auxiliary variable: picks per position since the list was installed.

### HttpHandler

| code | actions |
|---|---|
| `TGProxyHandlerFactory::onRequest`, `split` | `HandlerFor` |
| `TGProxyHandler::onRequest`, `recoredRequest` | `OnRequest`, `RecordRequest` (load and store of `++reqCount_`) |
| `onBody` | `OnBody` |
| `onEOM` | `OnEOM` (up to `tgpExpress`), `ExpressReturns` (the reply) |
| `requestComplete`, `onError` | `RequestComplete`, `OnError` |

A path is a sequence of terms and slashes, a body a sequence of parts.  `busy[w]` is the
transaction whose callback worker `w` is in: the event base makes the next callback when the
last one has returned.  proxygen is external: it calls `onBody` between `onRequest` and `onEOM`,
and exactly one of `requestComplete` and `onError` at the end.  Its HTTP/1 parser lets only paths
through that start with a slash, `*` and absolute URLs, and the handlers get them as they came: the
first slash is the first element, or it is the first of the two after a scheme (`IsTarget`).

`Exchange` is the client's side of it: `Ask`, `Send`, `Read`, `Reply`, `End`.  It does not know
workers, callbacks, the body that is given away or how a path is split; that an empty body cannot
bring weights, that each kind of path gets its kind of reply and that nothing is sent to a
transaction that is over is what the refinement shows.  `ExpressReturns` sends whatever has become of
the transaction in the meantime, as the code does.

### MsConf

One action per iteration of the loops of `load_ms_conf_file` and `parse_ms_conf`.  A file is
represented by what the code asks rapidjson about it.  Three ends are not a return of the code:
`aborted` (an assertion of rapidjson: `GetObject` or `HasMember` on something that is no object),
`undefined` (an element past the end of a vector, or two workers that insert into the map at
once), and `loaded`, from which the workers look models up.

### Program

| code | actions |
|---|---|
| `main`, `read_conf_file` | `ReadSettings` |
| `startZkProcess`, the wait in `start_zk` | `StartClient`, `EndWait` |
| `load_ms_conf_file` | `Load` (a step of `MsConf`), `EndLoad` |
| `getLocalIp`, `isLAN`, `TGProxyServer` | `LocalIp`, `Bind`, `Lookup` (a step of a worker in `MsConf`), `Shutdown` |
| `stopZkProcess` | `StopClient`, `Join` |
| the destructors of `TGPClusterAdmin`, `ZK`, `TGPContext` | `Destroy`, in the order `Order` |
| `~ZK` | `Closes`, `Destroy` (reads `zzh_`, without the mutex), `EndClose` (after the join), `CrashOfRace` |
| `zk_watcher` | `Event`, `WatcherLocks`; when the session has expired `WatcherCloses`, `WatcherOpens`, `WatcherWaits` |
| `updateModelServerList`, the loop | `UpdateReads`, `UpdateCalls`, `UpdateAssigns`, `LoopWakes`, `LoopRestarts` |

The client is reduced to its handles and to the way of their watchers, and of the loop, through the
mutex and the three objects; what the list holds, connections and events are `ClusterAdmin`'s.
Every handle has a completion thread of its own.  `zookeeper_close` joins it (`Joined`), unless the
caller is that thread: `zk_watcher` closes an expired handle so, and the handle is then an
"orphan", whose thread goes on with `start_zk` and may deliver the event that told of the expiry to
`tgpChildrenWatcher`, too, whatever `main` does meanwhile.  `~ZK` takes no mutex: `raced` records
that it read `zzh_`, or joined, while a watcher was replacing the handle.  A handle may be closed
twice then, which the library does not survive (`CrashOfRace`) or does.
`dangling` records who used which object outside its life.  A loop that wakes
up just when the program ends may use anything, that is plain from its `detach()`; from there on
(`late`) the model records nothing more.  An array of interfaces is a sequence of
addresses, the last of which is what the buffer holds behind the ones the kernel wrote.

### ZkNode

One znode, operated on by threads of the program and by other clients.  An operation takes
`mtx_`, makes one or two calls of the library, one action each, and returns.  A call may fail, and
one that failed may have been applied.  `w_check_path_exists` and `w_get_node_value` are the
operations without `w_`: they differ in the watcher they hand over.  `had` and `clean` are
auxiliary: what the znode was since the operation started, and whether anybody else changed it.

## What the runs check

| run | instance | shows |
|---|---|---|
| `cluster_safety` | 2 handles, 3 views (one without an address), every fault, 2 versions | who holds the mutex, one session, the only deadlock and that it is permanent, that lost connections and expired sessions alone never lose the watch, refinement of `MsDirectory` |
| `cluster_repair` | 2 handles, timeouts; fairness | the loop brings back watch and list after any trouble, unless the threads deadlocked |
| `cluster_watchback` | 2 handles; fairness | *violated*: the loop can deadlock in `zookeeper_close` |
| `cluster_stale` | 2 handles, no faults at all | *violated*: an older read can overwrite a newer list |
| `slicer_all` | keys 0..7, 3 ranges, every sequence up to length 4 | *violated*: the largest keys are in no slice |
| `postman_requests` | keys 0..7, 3 ranges, 57 bodies, 10 kinds of answers; fairness | range, order and completeness of the slices; replies complete and aligned with the features; every request gets a reply, unless a JSON document that is no object ends the server |
| `event_hub` | 3 transfers, 3 nested calls; fairness | nested handlers delete nothing of each other, no transfer is forgotten, refinement of `TransferHub`, the loop returns |
| `program` | files with up to 3 partitions of 5 kinds, or 2 models of 8 kinds; 2 workers; 2 handles; 12 machines | what is accepted and loaded, where an empty partition leads, that lookups only read; what outlives what at exit, with sessions replaced by their own watchers; when a session stays open at the end; the address bound |
| `http_requests` | 2 workers, 2 transactions, 9 kinds of paths, bodies of up to 2 parts; fairness | exactly `/name/version` is proxied; bodies, statistics, no handler deleted inside a callback; refinement of `Exchange`; every transaction ends, and its handler with it |
| `zk_nodes` | 2 threads, 4 kinds of data, every fault | what the results say of the znode |
| `zk_value` | the same | *violated*: `create_node_with_value` returns true without the value |
| `choice_balance` | 2 workers, 2 partitions, 3 addresses, 2 versions, 5 picks, ints from -2 to 1 | even load, one view at a time, the file only before the first list, and the unguarded counter always within its list |

Bounds.  Two handles are enough for a session and its successor, whose events overlap; a third
would only repeat it, since a handle is free again when its thread has ended.  Two versions of the
znode are the old and the new one; a longer history adds no relation between a list and the znode
but "older" and "current".  `MaxEvents` bounds the session events that are queued; one queued
event beside the one being handled is what it takes for all blocking patterns.  `MaxPolls` and `MaxTries` stand for 5 and 3; the loops they bound do
nothing that depends on the number.  `Faults` selects what may fail, so that a liveness run need
not explore failures that only lead back.  For the slicer, 7 divided by 3 leaves a remainder, so
that keys 6 and 7 are above the last range, as the largest keys of the program are for any number
of ranges.  The bodies have all pairs of six keys, at and between the ends of the ranges, and
longer lists with an empty slice, a full one, repeated and unsorted keys.  Three partitions let
transfers overtake one another in every order while an earlier or a later slice is empty.  In the
hub three transfers are one whose message is handled, one that ends inside that, and one that runs
on; three calls (`MaxDepth`) are a handler, one inside it, and one inside that, and a deeper
one finds what the third finds; at that depth libcurl finishes what is due.  Five
picks make the counter wrap around lists of two and of three servers.  The ints from -2 to 1 have every remainder by lists of one and two servers on both sides of zero.
`Program` has two handles, the first and the one a watcher or the loop replaces it with: at the end
one thread that is joined and one that is not are what it takes for every exception of
`UsedWhileAlive`, and a race of `~ZK` has one successor to leave open.  In a file two models are
what it takes for a name to occur twice, and three partitions for an empty one before, between
and after others.  The machines have the loopback interface first, last or not at all, and
a private, a public or a loopback address in the memory behind the interfaces.  Two transactions share a worker or run on two; of the paths there is one of
each kind: the right one, an empty name or version, a term too few or too many, a last slash,
none, and an absolute URL.  For the znode, the four kinds of data are those `*value = buffer` distinguishes: none,
some, with a zero byte, too long for the buffer.

Deadlock checking is off where the system really stops: threads of the client may deadlock
(that is a finding), `slice()` ends, and the workers stop at the bounds.  It is on for
all others: a request can always go on until it has been answered.

Fairness.  `ClusterAdmin`: threads are scheduled and each gets the mutex in the end (strong
fairness: the loop sleeps ten minutes between two rounds and the watchers idle between events, so
that nobody can take it again and again); clients connect in the end when they may try often
enough, and a watch that is due fires.  Nothing is assumed of failures, of changes or of signals.
`Postman`: the thread runs, and libcurl ends each transfer at its timeout, which the code always
sets (2000 ms).  Nothing is assumed of model servers.  `EventHub`: the thread runs; libevent looks at its timers
in each round of the loop, however busy the sockets are (strong fairness: between two rounds the
thread is elsewhere); and a transfer whose timer is due again and again ends, at its
`CURLOPT_TIMEOUT_MS`.  Nothing is assumed of sockets.  `HttpHandler`: the workers run, the call of
`tgpExpress` returns (the process goes on: that a scalar body ends it is `Postman`'s), and proxygen ends each transaction, after the 60 s of `idleTimeout` at the
latest.

No run checks a type invariant: it is proved for every module.

## What is proved

| theorems (module) | statement |
|---|---|
| `TypeCorrect`, `LockIsDisciplined`, `OneSession`, `RestartsClean` (`ClusterAdminProofs`) | the safety properties of the cluster admin |
| `OnlyStuckDeadlocks`, `DeadlockIsPermanent` | a close that joins a thread with work left is the only deadlock, and it never returns |
| `WatchIsNotLost` | only a failed call of a connected client loses the watch |
| `ListImplementsDirectory` | `ClusterAdmin` implements `MsDirectory` |
| `SlicerTypeCorrect`, `SlicesAreInRange`, `SlicesAreInOrder`, `OnlyTailIsDropped` (`RangeSlicerProofs`) | what `slice()` returns for any keys and any number of ranges |
| `PostmanTypeCorrect`, `NothingIsInFlight`, `RepliesAreComplete`, `RepliesAreAligned` (`PostmanProofs`) | a request's transfers and replies |
| `HubTypeCorrect`, `HandlesOutlive`, `AllAttended` (`EventHubProofs`) | nested handlers and the timer |
| `HubImplemented` | `EventHub` implements `TransferHub` |
| `ChoiceTypeCorrect`, `SpareStaysInList`, `LoadIsBalanced`, `OneViewAtATime`, `FallbackEndsWithFill` (`ServerChoiceProofs`) | the choice of a server |
| `PartitionsHaveServers`, `LookupsDoNotInsert` (`ProgramProofs`) | what a loaded configuration is good for |
| `ServedListsAreChoosable`, `ServedListsStay` (`ProgramProofs`) | while the server runs, the map is what `ServerChoice` assumes of `ConfLists`, and it does not change |
| `LoadsTheFile`, `UndefinedOnlyAtGaps` (`ProgramProofs`) | what is loaded is what the file says, and when loading is undefined |
| `ProgramTypeCorrect`, `ObjectsOutliveThreads`, `SessionsAreClosed` | the end of the program, for any number of handles: which thread may use what is gone, and when a session stays open |
| `LocalIpFinds`, `ServerOnLan` | what `getLocalIp` finds on a machine of any size, and what the server is bound to |
| `SplitCutsAtSlashes`, `ProxyServesOnlyModels` (`HttpHandlerProofs`) | how any path is split, and which paths are proxied |
| `HandlerTypeCorrect`, `BodiesAreWhole`, `StatisticsAreExact`, `HandlersLiveInside` (`HttpHandlerProofs`) | the safety properties of the HTTP front end |
| `ExchangeImplemented` | `HttpHandler` implements `Exchange` |
| `NodeTypeCorrect`, `TrueIsNoInvention`, `SetsAreWritten`, `GetsAreRead`, `UndisturbedIsExact` (`ZkNodeProofs`) | what the node operations return |

They hold for any number of handles, versions, events, keys, partitions, transfers, nested
calls, workers, servers, transactions and threads, and for any files and machines.  The assumptions are those named in the modules
(`ThreadsAssumption`, `ViewsAssumption`, `FaultsAssumption`, `BoundsAssumption`,
`SlicerAssumption`, `PostmanAssumption`, `EventHubAssumption`, `ChoiceAssumption`,
`ConfAssumption`, `ProgramAssumption`, `HandlerAssumption`, `PathsAssumption`,
`NodeAssumption`),
which TLC evaluates on the instances.

The arguments:

- `ClusterAdmin` (`IInv`).  That a release keeps `LockDiscipline` needs to know where the thread can
  be (`Positions`: for instance, a completion thread is inside `start_zk` only when its watcher runs
  on an expired session) and what the holder of the mutex knows of the handle (`HolderKnows`).
  `SingleSession` needs that an ended thread left nothing behind (`Drained`), and
  `RestartFindsNoHandle` that Loop sleeps while Main starts and that nobody makes a handle between
  a close and its restart (`Restarts`).  The refinement needs that a list on its way into
  `ms_cluster_` has an address (`GotAddresses`).  `StuckForever` follows: while a closer holds the
  mutex inside the join, no step empties the queue of the thread it joins.  `HolderReady` needs two
  facts more: an expiry that is queued or being handled means that the handle is expired or being
  closed (`ExpiryKnown`), and there is a free handle for `zookeeper_init` whenever the client has
  none or will close the one it has (`HandleLeft`).  `QuietMeansWatched` is about a quiet client only; at any time (`WatchRenewed`)
  a connected client without a watch either has missed one, in a call that failed, or an update is
  under way that will set it, or a call of a watcher that will start one is queued for the
  handle in `zzh_`.
  The proof that the steps keep `IInv` is arranged by what a step leaves alone.  One thread moves
  (`MovesTo`) or none does; the mutex is taken, left or kept (`LockTaken`, `LockLeft`, `LockKept`);
  and a part of `IInv` whose variables do not change, or change only where the thread moves, is kept
  by one lemma for all actions (`PositionsKept`, `SessionsKept`, `GotKept`, `RestartsKept`; `ThreadsKept`
  for the connection and the ensemble).  An action's own lemma is left with the parts it disturbs.
- `RangeSlicer` (`SlicerInv`).  The loop invariant: the cut positions found so far ascend, each of
  them separates the smaller keys from the others if the keys are sorted, and the slices copied so
  far are the pieces between them.  The step from one range to the next uses that the ranges meet
  (`RangeEnd(i) = RangeBegin(i + 1)`).
- `Postman` (`PInv`).  Beside the slicer's invariant: nothing was sent for a partition the loop has
  not reached (`Staged`); what arrived is an answer about the keys of the slice (`Brought`), and what
  is saved for a partition is what its own transfer brought (`Saved`); the partitions passed by the
  answering loop could be decoded (`Decoded`).  Hence nothing is left when the hub returns, and a
  reply rests on every server.  `ReplyAligned` is the invariant `Aligned` at the end of the loop:
  as long as the answers had the right lengths the weights so far are as many as the keys up to
  `pos[partition]`, and each stands where its key stands.
- `EventHub` (`HInv`).  A handle is in the stack of calls exactly while its message is being handled
  (`HandleOutlivesNested`, `Held`), and nothing has ended unread when the stack is empty; the
  transfers that run are those with a timer (`Timed`); and outside `curl_multi_socket_action` none
  is due and the timer is pending (`Told`).  The last holds because every call of libcurl ends
  with the timer callback, the innermost one last.  The refinement follows: the thread is back in
  the postman only with an empty stack.
- `ServerChoice` (`CInv`).  `Balanced` is not inductive: from a state in which the counter points
  at a server that is already ahead, one pick breaks it.  The strengthening `Rotation` says that a
  server that is ahead has its turn later.  It needs one fact about the remainder, `NextModulo`.
  An installation resets `used`, wherever the counter is.  That the unguarded counter selects a
  server (`ConfiguredPosition`) needs that it becomes a `size_t` before the remainder is taken, and
  that no partition of the file is empty.
- `MsConf` (`MInv`, `LInv`).  A partition is opened by its first address, so none is empty (`AllFilled`,
  `FilledByAddress`); and the default is a model of the map as soon as one was inserted
  (`DefaultThere`), so that a lookup finds it.  `LInv` adds how far the parser is: of the model it
  is at, the first `i` partitions match the file and of the next one the first `j` addresses
  (`Parsed`); every name in the map has the lists of the first model of that name (`Mapped`).  The
  vector is behind the partition only after an empty one, which is the gap of
  `DefinedWithoutGap`.  `ProgramConf` carries all that over to `Program`, where only an accepted
  file comes as far as the server (`ServesLoaded`) and no lookup inserts (`LookupsChangeNothing`).
- `Program` (`PInv`).  What is alive where `main` is (`Living`); who replaces a session has the
  mutex (`Locked`), all but `~ZK`; a handle's thread rests before the handle is opened and after a
  close by another thread, which joined it (`Lives`), so that only an orphan's runs on; `main`'s
  history (`Past`); after `stopZkProcess` no watcher replaces a handle and `zzh` is null
  (`Stopped`), since it takes the mutex to close what is in `zzh`; and as long as `~ZK` has met no
  such watcher, the only open handle is the one in `zzh`, which `~ZK` closes (`Kept`).
  `SessionClosedAtExit` follows from `Stopped` and `Kept`, and `UsedWhileAlive` is inductive beside
  them, with nothing dangling before `main` has returned (`Dangles`).
- `HttpHandler` (`HInv`).  Two workers are never in callbacks of the same transaction
  (`AliveInside`), so between load and store of a counter nobody else stores (`Loaded`); a worker
  inside `tgpExpress` has not replied (`NotYetReplied`); and nothing is replied or given away
  before the end of the message (`Phases`).  The refinement adds that a transaction under way has
  a handler, the one its path asks for (`Handled`, `Routed`): the body that was given is the one that
  was sent (`WholeBody`), so a reply fits the request, and a worker that returns from `tgpExpress`
  finds its transaction still waiting for the reply.
- `ZkNode` (`ZInv`).  Who is inside an operation holds `mtx_` (`Locked`); a creation that goes on to
  `zoo_set` has seen the znode, and knows what it is if nobody disturbed it (`Known`).  The theorems
  are action properties: each return is by one of five actions (`Returners`).
- `Terms` and `LocalIp` are recursive functions, and the library's theorems about those take an
  operator as a parameter.  `SetInduction` says the same of a set, from the least element of what
  is not in it (`WFMin`).  With it a function that satisfies the recursive equation exists
  (`TermsExist`, `ScanExists`), and the loops are followed from there: after `n` elements of a path
  the terms are the pieces between the slashes so far (`CutAt`); after `k` rounds of `getLocalIp`
  nothing behind the one it is at was private (`ScanByRounds`), and at a loopback address the
  rounds that are left stay there (`LoopbackEnds`).

Only model-checked: the liveness properties (`Repaired`, `RepliesUnlessScalar`, `LoopEnds`,
`HandlersEnd`), and `HolderCanMove`, which is about ENABLED.  `HolderReady` is the form of it that
can be proved, with the guards of the holder's next step written out; no run repeats it.

## What the models found

1. `zookeeper_close` is called with `zk_.mtx_` held (`cluster/tgp_zookeeper.cc:77`) and joins a
   thread whose watchers take that mutex.  If an event is being handled or queued at that moment,
   both block for ever; no watch is set again, and `main` blocks at shutdown, too.
   `HolderCanMove` shows, and `OnlyStuckDeadlocks` proves, that it is the only deadlock, `StuckForever` that nothing
   resolves it.
   (Run `cluster_watchback`.)
2. `updateModelServerList` reads under one mutex and assigns under another
   (`cluster/tgp_cluster_admin.cc:89-108`): the loop's older list may overwrite the watcher's newer
   one, until the next change or the loop's next round.  (Run `cluster_stale`.)
3. The ranges end at `max/range*range` (`tiangan/slicer.h:43`): keys from there on, always the
   largest one, are in no slice, and the reply is shorter than the request without an error.
   (Run `slicer_all`; `OnlyTailDropped` says that nothing else is lost.)
4. `create_node_with_value` returns true when the znode was there and its value could not be set
   (`cluster/tgp_zookeeper.cc:211`).  (Run `zk_value`.)

Not findings, since nothing is said about them, but worth knowing:

- An empty partition in the file is not opened, and one with addresses after it is pushed past the
  end of the vector (`base/tgp_ms_conf.h:73`); `DefinedWithoutGap` says that this is the only
  such case.  With a file without any model the workers insert into the shared map.
- A JSON document that is no object, `1` for instance, as the body of a request or as the answer of
  one model server, ends the whole server: `HasMember` asserts, and `src/CMakeLists.txt:4` selects a
  Debug build (`postman/tgp_postman.cc:32`, `:172`).  `RepliesUnlessScalar` says that nothing else
  keeps a client without a reply.
- When `main` returns early, the session is open while the list is destroyed, and a watcher may
  assign it (`main.cc:46`, `:55`, `:62`).
- An expired handle is closed by its own completion thread (`cluster/tgp_zk_watcher.cc:43`), which
  nobody joins.  If the program ends just then, that thread may use the list, `zk_` and the settings
  when they are destroyed, even after `stopZkProcess`.
- `~ZK` reads `zzh_` without the mutex (`cluster/tgp_zookeeper.cc:20`).  When `main` returns early
  while a watcher replaces an expired handle, `~ZK` may find none, and the session opened next stays
  open; or both close the same one.  `UsedWhileAlive` and `SessionClosedAtExit` say that these are
  all the cases, apart from a loop that is awake then.
- The array that `static int count` indexes is safe from its overflow only because `size()` makes the
  remainder unsigned (`postman/tgp_postman.cc:238`).
- `getLocalIp` begins behind the interfaces and never looks at the first one
  (`utils/tgp_utils.cc:47`); `LanAddressFound` says when that does no harm.
- `read_ini` is called outside the `try` (`base/tgp_conf.cc:15`): a missing file ends the program.
- Each restart of the client opens the log file again (`cluster/tgp_zookeeper.cc:92`) and leaks the
  old stream; a handle libcurl refuses is leaked, too (`tiangan/curl_helper.h:288`).
- The timer callback calls libcurl from inside libcurl.  Releases that refuse such calls
  (`CURLM_RECURSIVE_API_CALL`) leave the timer unset, and the event loop returns at once.

## What is not modelled

`murmur_hash3`, `c_api`, `EasyCURL`, `mpath`, `str`, plain events and recycled handles of the hub:
the program calls none of them.  Logging, and the values of `conf.ini`.  JSON text is
modelled by what the decoder accepts, the URL by its partition, received headers not at all.
That a handler of the hub returns without looking at messages when libcurl refuses a call
(`tiangan/curl_helper.h:341`, `:433`, `:446`): the libcurl of the model accepts them.  The overflow of
the 64-bit `count_`, which no process lives to see.  libcurl, libevent, proxygen,
ZooKeeper and the model servers are external and modelled from how the code uses them.

## Plan

1. Watches of the node operations: what a caller of `w_get_node_value` knows, given that the
   notification may come before the call returns.
2. `ServerChoice` and `MsConf` as one composed module and one run.  What the composition rests on
   is proved (`ServedListsAreChoosable`, `ServedListsStay`); the run would show it on an instance.
