---------------------------- MODULE ClusterAdmin ----------------------------
(***************************************************************************)
(* TGPClusterAdmin and the ZK wrapper it owns: how the list of model       *)
(* servers in memory follows the children of one znode.                    *)
(*                                                                         *)
(* Threads.  Main starts and stops the client.  Loop is the detached       *)
(* thread that wakes every ten minutes.  Every handle made by              *)
(* zookeeper_init has a completion thread, named here by the handle, that  *)
(* runs the watchers zk_watcher and tgpChildrenWatcher one at a time.      *)
(* All of them share zk_.mtx_ (recursive), zk_.zzh_ and ms_cluster_.       *)
(*                                                                         *)
(* The client library (zookeeper_mt) and the ensemble are external; they   *)
(* are modelled by what the code in src/ can observe of them.              *)
(***************************************************************************)
EXTENDS Integers, Sequences, FiniteSets

CONSTANTS
  Main, Loop,     \* the two threads of the program itself
  Handles,        \* zhandle_t's; each also names its completion thread
  Nobody,         \* no owner of the mutex, and the null handle
  Names,          \* names a child of the znode may have
  Addresses,      \* the names that contain ':'
  Views,          \* sets of children the znode may have
  NoNode,         \* the view when the znode does not exist
  Faults,         \* what may happen besides lost connections: failures, a stop
  MaxPolls,       \* the 5 of start_zk's wait loop
  MaxTries,       \* ZK_GET_RETRIES
  MaxVersions,    \* bound: number of views the ensemble ever publishes
  MaxEvents       \* bound: session events are raised while fewer are queued

Threads == {Main, Loop} \cup Handles
Closers == {Main, Loop}

ASSUME ThreadsAssumption ==
  /\ Handles # {}
  /\ Main # Loop
  /\ {Main, Loop} \cap Handles = {}
  /\ Nobody \notin Threads

ASSUME ViewsAssumption ==
  /\ Addresses \subseteq Names
  /\ Views \subseteq SUBSET Names
  /\ NoNode \notin Views

ASSUME FaultsAssumption ==
  Faults \subseteq {"noNode", "timeout", "marshalling", "init", "stop"}

ASSUME BoundsAssumption ==
  /\ MaxPolls \in Nat
  /\ MaxTries \in Nat \ {0}
  /\ MaxVersions \in Nat \ {0}
  /\ MaxEvents \in Nat \ {0}

VARIABLES
  pc,         \* where each thread is
  owner,      \* owner of zk_.mtx_
  depth,      \* its recursion depth
  attempts,   \* count in start_zk, i in zk_wget_chdnodes (both run locked)
  zzh,        \* zk_.zzh_
  ms_cluster, \* version of the view whose addresses ms_cluster_ holds, 0 = empty
  got,        \* per thread: version of the view in the local `childrens`
  hstate,     \* zoo_state of every handle, and whether it is being closed
  events,     \* per handle: delivery lists queued for its completion thread
  todo,       \* per handle: watchers of the current event not yet called
  cb,         \* per handle: the watcher that is running
  watch,      \* per handle: version at which the child watch was set, 0 = none
  history,    \* every view the znode has had; the last one is current
  calm,       \* TRUE once the environment has stopped failing and changing
  missed      \* history: a call that was to set the watch failed on a connected
              \* client, and none has succeeded since in this session

vars == <<pc, owner, depth, attempts, zzh, ms_cluster, got, hstate, events,
          todo, cb, watch, history, calm, missed>>

lockVars   == <<owner, depth>>
clientVars == <<hstate, events, watch>>
threadVars == <<todo, cb>>
envVars    == <<history, calm, missed>>

(***************************************************************************)
(* A watcher invocation is named by what the watcher is told: the child    *)
(* watcher, or the session watcher zk_watcher with the new session state.  *)
(***************************************************************************)
SessionCalls == {"connected", "connecting", "expired"}
Calls        == SessionCalls \cup {"child"}

\* States of a handle: never connected yet, connected, connection lost,
\* session expired, zookeeper_close called, completion thread finished.
Open    == {"new", "connected", "lost", "expired"}
HStates == Open \cup {"closing", "closed"}

Labels == {"start", "init", "wait", "serving", "stop", "join", "exited",
           "sleep", "update", "calling", "assign", "idle", "leave"}

Current  == history[Len(history)]

\* What the znode may become: it can be deleted only if that fault is allowed.
AllViews == Views \cup (IF "noNode" \in Faults THEN {NoNode} ELSE {})

Fault(f) == f \in Faults /\ ~calm

\* get_chdnodes keeps only the names that contain ':'.
AddressesIn(view) == IF view = NoNode THEN {} ELSE view \cap Addresses

\* The servers getOneMsAddr chooses from.
Members == IF ms_cluster = 0 THEN {} ELSE AddressesIn(history[ms_cluster])

-----------------------------------------------------------------------------
Init ==
  /\ pc = [t \in Threads |-> CASE t = Main -> "start"
                               [] t = Loop -> "sleep"
                               [] OTHER    -> "idle"]
  /\ owner = Nobody /\ depth = 0 /\ attempts = 0
  /\ zzh = Nobody
  /\ ms_cluster = 0
  /\ got = [t \in Threads |-> 0]
  /\ hstate = [h \in Handles |-> "closed"]
  /\ events = [h \in Handles |-> <<>>]
  /\ todo = [h \in Handles |-> {}]
  /\ cb = [h \in Handles |-> "none"]
  /\ watch = [h \in Handles |-> 0]
  /\ history \in {<<v>> : v \in AllViews}
  /\ calm = FALSE
  /\ missed = FALSE

\* Returning from main ends every thread.
Running == pc[Main] # "exited"

At(t, l)   == Running /\ pc[t] = l
Goto(t, l) == pc' = [pc EXCEPT ![t] = l]

\* Mutant of Acquire: zk_.mtx_ is a plain std::mutex.
AcquirePlain(t) ==
  /\ owner = Nobody
  /\ owner' = t
  /\ depth' = depth + 1

\* std::lock_guard<std::recursive_mutex> on zk_.mtx_
Acquire(t) ==
  /\ owner \in {Nobody, t}
  /\ owner' = t
  /\ depth' = depth + 1

Release ==
  /\ owner' = IF depth = 1 THEN Nobody ELSE owner
  /\ depth' = depth - 1

-----------------------------------------------------------------------------
(* updateModelServerList, called by Loop and by both watchers.             *)

\* Where a caller continues when the update returns.
Updated(t) == IF t = Loop THEN "sleep" ELSE "leave"

\* zk_wget_chdnodes: takes zk_.mtx_ and calls zoo_wget_children.
GetChildren(t) ==
  /\ At(t, "update")
  /\ Acquire(t)
  /\ attempts' = 0
  /\ Goto(t, "calling")
  /\ UNCHANGED <<zzh, ms_cluster, got, clientVars, threadVars, envVars>>

\* The one-shot child watch of h is due: the znode changed after it was set.
Due(h) == watch[h] \notin {0, Len(history)}

\* Mutant of SetWatch: the children are read without setting the watch again.
SetNoWatch == UNCHANGED watch

SetWatch == watch' = [watch EXCEPT ![zzh] = Len(history)]

\* Mutant of Usable: a list without a single address is assigned, too.
UsableAlways(view) == TRUE

\* updateModelServerList refuses a list without a single address.
Usable(view) == AddressesIn(view) # {}

\* ZOK: the watch is set with the read, and a notification that was due arrives
\* before the reply (the server keeps that order).  A list without a single
\* address makes the update fail after the mutex is released.
GetOk(t) ==
  /\ At(t, "calling")
  /\ zzh # Nobody
  /\ hstate[zzh] = "connected"
  /\ Current # NoNode
  /\ events' = IF Due(zzh) THEN [events EXCEPT ![zzh] = Append(@, {"child"})]
                             ELSE events
  /\ SetWatch
  /\ Release
  /\ IF Usable(Current)
     THEN Goto(t, "assign") /\ got' = [got EXCEPT ![t] = Len(history)]
     ELSE Goto(t, Updated(t)) /\ UNCHANGED got
  /\ missed' = FALSE
  /\ UNCHANGED <<attempts, zzh, ms_cluster, hstate, threadVars, history, calm>>

\* What zoo_wget_children may report besides ZOK: ZBADARGUMENTS on a null
\* handle, ZNONODE, a lost connection or a timeout.
CallFails ==
  \/ zzh = Nobody
  \/ zzh # Nobody /\ hstate[zzh] = "connected" /\ (Current = NoNode \/ Fault("timeout"))
  \/ zzh # Nobody /\ hstate[zzh] \in {"new", "lost"}

Miss == missed' = (missed \/ (zzh # Nobody /\ hstate[zzh] = "connected" /\ watch[zzh] = 0))

\* Mutant of GetFails: the error path returns with zk_.mtx_ locked.
GetFailsLocked(t) ==
  /\ At(t, "calling")
  /\ CallFails
  /\ Goto(t, Updated(t))
  /\ Miss
  /\ UNCHANGED <<lockVars, attempts, zzh, ms_cluster, got, clientVars, threadVars,
                 history, calm>>

GetFails(t) ==
  /\ At(t, "calling")
  /\ CallFails
  /\ Release
  /\ Goto(t, Updated(t))
  /\ Miss
  /\ UNCHANGED <<attempts, zzh, ms_cluster, got, clientVars, threadVars, history, calm>>

\* ZINVALIDSTATE (an expired session) and ZMARSHALLINGERROR are retried.
GetRetries(t) ==
  /\ At(t, "calling")
  /\ zzh # Nobody
  /\ hstate[zzh] = "expired" \/ Fault("marshalling")
  /\ IF attempts + 1 < MaxTries
     THEN /\ attempts' = attempts + 1
          /\ UNCHANGED <<pc, lockVars, missed>>
     ELSE /\ Release
          /\ Goto(t, Updated(t))
          /\ Miss
          /\ UNCHANGED attempts
  /\ UNCHANGED <<zzh, ms_cluster, got, clientVars, threadVars, history, calm>>

\* The critical section of TGPClusterAdmin::mtx_, entered after zk_.mtx_ was
\* released: other threads may have read a newer view in between.
AssignCluster(t) ==
  /\ At(t, "assign")
  /\ ms_cluster' = got[t]
  /\ got' = [got EXCEPT ![t] = 0]
  /\ Goto(t, Updated(t))
  /\ UNCHANGED <<lockVars, attempts, zzh, clientVars, threadVars, envVars>>

-----------------------------------------------------------------------------
(* start_zk, called by Main and Loop (startZkProcess) and by zk_watcher.   *)

Started(t, ok) ==
  CASE t = Main -> IF ok THEN "serving" ELSE "exited"
    [] t = Loop -> "sleep"
    [] OTHER    -> "leave"

\* Main and Loop come here without the mutex.  (zk_watcher enters with it.)
StartZk(t) ==
  /\ At(t, "start")
  /\ \/ /\ zzh = Nobody
        /\ Acquire(t)
        /\ Goto(t, "init")
     \/ /\ zzh # Nobody                  \* see RestartFindsNoHandle
        /\ owner = Nobody
        /\ Goto(t, Started(t, FALSE))
        /\ UNCHANGED lockVars
  /\ UNCHANGED <<attempts, zzh, ms_cluster, got, clientVars, threadVars, envVars>>

\* zookeeper_init: a handle that is not connected yet, with its own threads.
InitHandle(t, h) ==
  /\ At(t, "init")
  /\ hstate[h] = "closed"
  /\ hstate' = [hstate EXCEPT ![h] = "new"]
  /\ zzh' = h
  /\ attempts' = 0
  /\ Goto(t, "wait")
  /\ missed' = FALSE
  /\ UNCHANGED <<lockVars, ms_cluster, got, events, watch, threadVars, history, calm>>

InitFails(t) ==
  /\ At(t, "init")
  /\ Fault("init")
  /\ Release
  /\ Goto(t, Started(t, FALSE))
  /\ UNCHANGED <<attempts, zzh, ms_cluster, got, clientVars, threadVars, envVars>>

\* Mutant of Poll: giving up forgets the handle without closing it.
PollForgets(t) ==
  LET connected == hstate[zzh] = "connected"
      giveUp    == ~connected /\ attempts + 1 > MaxPolls
  IN /\ At(t, "wait")
     /\ IF connected \/ giveUp
        THEN Release /\ Goto(t, Started(t, connected)) /\ UNCHANGED attempts
        ELSE attempts' = attempts + 1 /\ UNCHANGED <<pc, lockVars>>
     /\ zzh' = IF giveUp THEN Nobody ELSE zzh
     /\ UNCHANGED <<ms_cluster, got, clientVars, threadVars, envVars>>

\* One second of the wait loop; the handle is kept when the loop gives up.
Poll(t) ==
  LET connected == hstate[zzh] = "connected"
      giveUp    == ~connected /\ attempts + 1 > MaxPolls
  IN /\ At(t, "wait")
     /\ IF connected \/ giveUp
        THEN Release /\ Goto(t, Started(t, connected)) /\ UNCHANGED attempts
        ELSE attempts' = attempts + 1 /\ UNCHANGED <<pc, lockVars>>
     /\ UNCHANGED <<zzh, ms_cluster, got, clientVars, threadVars, envVars>>

-----------------------------------------------------------------------------
(* finalize_zk, called by Main and Loop (stopZkProcess).                   *)

Finalized(t) == IF t = Main THEN "exited" ELSE "start"

Finalize(t) ==
  /\ At(t, "stop")
  /\ \/ /\ zzh = Nobody
        /\ owner = Nobody
        /\ Goto(t, Finalized(t))
        /\ UNCHANGED <<lockVars, hstate>>
     \/ /\ zzh # Nobody
        /\ Acquire(t)
        /\ hstate' = [hstate EXCEPT ![zzh] = "closing"]
        /\ Goto(t, "join")
  /\ UNCHANGED <<attempts, zzh, ms_cluster, got, events, watch, threadVars, envVars>>

\* Mutant of Join: zzh_ is not reset after the close.
JoinKeepsHandle(t) ==
  /\ At(t, "join")
  /\ hstate[zzh] = "closed"
  /\ Release
  /\ Goto(t, Finalized(t))
  /\ UNCHANGED <<attempts, zzh, ms_cluster, got, clientVars, threadVars, envVars>>

\* Mutant of Join: the completion thread is not joined.
JoinNobody(t) ==
  /\ At(t, "join")
  /\ zzh' = Nobody
  /\ Release
  /\ Goto(t, Finalized(t))
  /\ UNCHANGED <<attempts, ms_cluster, got, clientVars, threadVars, envVars>>

\* zookeeper_close joins the completion thread of the handle, with zk_.mtx_ held.
Join(t) ==
  /\ At(t, "join")
  /\ hstate[zzh] = "closed"
  /\ zzh' = Nobody
  /\ Release
  /\ Goto(t, Finalized(t))
  /\ UNCHANGED <<attempts, ms_cluster, got, clientVars, threadVars, envVars>>

-----------------------------------------------------------------------------
(* loopUpdateModelServerList: one wake-up of the detached thread.  It      *)
(* sleeps 600 s first, while start_zk in Main gives up after 6 s.          *)

\* Mutant of Wake: a connected client is left alone.
WakeIdle ==
  /\ At(Loop, "sleep")
  /\ pc[Main] \notin {"start", "init", "wait"}
  /\ owner = Nobody
  /\ ~(zzh # Nobody /\ hstate[zzh] = "connected")
  /\ Goto(Loop, "stop")
  /\ UNCHANGED <<lockVars, attempts, zzh, ms_cluster, got, clientVars,
                 threadVars, envVars>>

Wake ==
  /\ At(Loop, "sleep")
  /\ pc[Main] \notin {"start", "init", "wait"}
  /\ owner = Nobody                      \* is_connected locks zk_.mtx_
  /\ IF zzh # Nobody /\ hstate[zzh] = "connected"
     THEN Goto(Loop, "update")
     ELSE Goto(Loop, "stop")
  /\ UNCHANGED <<lockVars, attempts, zzh, ms_cluster, got, clientVars,
                 threadVars, envVars>>

\* The HTTP server returned from its main loop (SIGINT, SIGTERM).
Shutdown ==
  /\ "stop" \in Faults
  /\ At(Main, "serving")
  /\ Goto(Main, "stop")
  /\ UNCHANGED <<lockVars, attempts, zzh, ms_cluster, got, clientVars,
                 threadVars, envVars>>

-----------------------------------------------------------------------------
(* The completion thread of handle h.                                      *)

Dequeue(h) ==
  /\ At(h, "idle")
  /\ todo[h] = {}
  /\ events[h] # <<>>
  /\ todo' = [todo EXCEPT ![h] = Head(events[h])]
  /\ events' = [events EXCEPT ![h] = Tail(events[h])]
  /\ UNCHANGED <<pc, lockVars, attempts, zzh, ms_cluster, got, hstate, watch, cb,
                 envVars>>

\* tgpChildrenWatcher: straight into updateModelServerList.
CallChildrenWatcher(h) ==
  /\ At(h, "idle")
  /\ "child" \in todo[h]
  /\ todo' = [todo EXCEPT ![h] = @ \ {"child"}]
  /\ cb' = [cb EXCEPT ![h] = "child"]
  /\ Goto(h, "update")
  /\ UNCHANGED <<lockVars, attempts, zzh, ms_cluster, got, clientVars, envVars>>

\* zk_watcher takes zk_.mtx_ and looks at zzh_ before anything else.  On an
\* expired session it closes the handle (from its own completion thread, so
\* nothing is joined) and goes on into start_zk, which locks once more.
CallZkWatcher(h, s) ==
  /\ At(h, "idle")
  /\ s \in todo[h] \cap SessionCalls
  /\ owner = Nobody
  /\ owner' = h
  /\ todo' = [todo EXCEPT ![h] = @ \ {s}]
  /\ cb' = [cb EXCEPT ![h] = s]
  /\ CASE h = zzh /\ s = "connected" ->
            /\ depth' = 1
            /\ Goto(h, "update")
            /\ UNCHANGED <<zzh, hstate>>
       [] h = zzh /\ s = "expired" ->
            /\ depth' = 2
            /\ zzh' = Nobody
            /\ hstate' = [hstate EXCEPT ![h] = "closing"]
            /\ Goto(h, "init")
       [] OTHER ->                       \* another state, or not our handle
            /\ depth' = 1
            /\ Goto(h, "leave")
            /\ UNCHANGED <<zzh, hstate>>
  /\ UNCHANGED <<attempts, ms_cluster, got, events, watch, envVars>>

\* The watcher returns; zk_watcher's lock_guard goes out of scope.
LeaveWatcher(h) ==
  /\ At(h, "leave")
  /\ IF cb[h] = "child" THEN UNCHANGED lockVars ELSE Release
  /\ cb' = [cb EXCEPT ![h] = "none"]
  /\ Goto(h, "idle")
  /\ UNCHANGED <<attempts, zzh, ms_cluster, got, clientVars, todo, envVars>>

\* The thread ends once a close was requested and its queue is drained.
ThreadExits(h) ==
  /\ At(h, "idle")
  /\ hstate[h] = "closing"
  /\ todo[h] = {} /\ events[h] = <<>>
  /\ hstate' = [hstate EXCEPT ![h] = "closed"]
  /\ watch' = [watch EXCEPT ![h] = 0]
  /\ UNCHANGED <<pc, lockVars, attempts, zzh, ms_cluster, got, events,
                 threadVars, envVars>>

-----------------------------------------------------------------------------
(* The connection of handle h and the ensemble.                            *)

\* A session event is delivered to zk_watcher and to every watcher set.
SessionEvent(h, s) ==
  /\ Len(events[h]) < MaxEvents
  /\ events' = [events EXCEPT ![h] =
       Append(@, {s} \cup (IF watch[h] = 0 THEN {} ELSE {"child"}))]

Connect(h) ==
  /\ Running
  /\ hstate[h] \in {"new", "lost"}
  /\ hstate' = [hstate EXCEPT ![h] = "connected"]
  /\ SessionEvent(h, "connected")
  /\ UNCHANGED <<pc, lockVars, attempts, zzh, ms_cluster, got, threadVars,
                 watch, envVars>>

Disconnect(h) ==
  /\ Running
  /\ ~calm
  /\ hstate[h] = "connected"
  /\ hstate' = [hstate EXCEPT ![h] = "lost"]
  /\ SessionEvent(h, "connecting")
  /\ UNCHANGED <<pc, lockVars, attempts, zzh, ms_cluster, got, threadVars,
                 watch, envVars>>

\* Only a session that once existed expires, and the client learns of it when
\* it reaches a server again.  (Bound: while some handle is free to replace it.)
Expire(h) ==
  /\ Running
  /\ hstate[h] = "lost"
  /\ \E free \in Handles : hstate[free] = "closed"
  /\ hstate' = [hstate EXCEPT ![h] = "expired"]
  /\ SessionEvent(h, "expired")
  /\ UNCHANGED <<pc, lockVars, attempts, zzh, ms_cluster, got, threadVars,
                 watch, envVars>>

\* The one-shot child watch fires: after a change, or after a reconnection when
\* the change came while the connection was lost.
Notify(h) ==
  /\ Running
  /\ hstate[h] = "connected"
  /\ Due(h)
  /\ events' = [events EXCEPT ![h] = Append(@, {"child"})]
  /\ watch' = [watch EXCEPT ![h] = 0]
  /\ UNCHANGED <<pc, lockVars, attempts, zzh, ms_cluster, got, hstate,
                 threadVars, envVars>>

\* Model servers register and deregister themselves.
Publish(v) ==
  /\ Running
  /\ ~calm
  /\ Len(history) < MaxVersions
  /\ v # Current
  /\ history' = Append(history, v)
  /\ UNCHANGED <<pc, lockVars, attempts, zzh, ms_cluster, got, clientVars,
                 threadVars, calm, missed>>

CalmDown ==
  /\ Running
  /\ ~calm
  /\ AddressesIn(Current) # {}
  /\ calm' = TRUE
  /\ UNCHANGED <<pc, lockVars, attempts, zzh, ms_cluster, got, clientVars,
                 threadVars, history, missed>>

-----------------------------------------------------------------------------
Update(t) ==
  \/ GetChildren(t) \/ GetOk(t) \/ GetFails(t) \/ GetRetries(t) \/ AssignCluster(t)

Start(t) ==
  \/ InitFails(t) \/ Poll(t)
  \/ \E h \in Handles : InitHandle(t, h)

Stop(t) == Finalize(t) \/ Join(t)

MainStep == StartZk(Main) \/ Start(Main) \/ Stop(Main)

LoopStep == Wake \/ Update(Loop) \/ StartZk(Loop) \/ Start(Loop) \/ Stop(Loop)

CompletionStep(h) ==
  \/ Dequeue(h) \/ CallChildrenWatcher(h) \/ LeaveWatcher(h)
  \/ \E s \in SessionCalls : CallZkWatcher(h, s)
  \/ ThreadExits(h) \/ Update(h) \/ Start(h)

Environment ==
  \/ \E h \in Handles : Connect(h) \/ Disconnect(h) \/ Expire(h) \/ Notify(h)
  \/ \E v \in AllViews : Publish(v)
  \/ CalmDown

Exited == ~Running /\ UNCHANGED vars

Next ==
  \/ MainStep
  \/ Shutdown
  \/ LoopStep
  \/ \E h \in Handles : CompletionStep(h)
  \/ Environment
  \/ Exited

Spec == Init /\ [][Next]_vars

(***************************************************************************)
(* Fairness.  Threads are scheduled (the completion threads as a group),   *)
(* and every contender of zk_.mtx_ gets it in the end: the loop sleeps ten *)
(* minutes between two wake-ups and a completion thread is idle between    *)
(* two events, so nobody re-acquires the mutex often enough to starve the  *)
(* others.  Clients that try again and    *)
(* again do connect in the end, and a watch that is due fires.  Nothing is *)
(* assumed of failures, of changes of the znode, or of the signal that     *)
(* stops Main.                                                             *)
(***************************************************************************)
Fairness ==
  /\ SF_vars(MainStep)
  /\ SF_vars(LoopStep)
  /\ SF_vars(\E h \in Handles : CompletionStep(h))
  /\ SF_vars(\E h \in Handles : Connect(h))
  /\ SF_vars(\E h \in Handles : Notify(h))

FairSpec == Spec /\ Fairness

-----------------------------------------------------------------------------
(* Properties.                                                             *)

\* Type invariant.
TypeOK ==
  /\ pc \in [Threads -> Labels]
  /\ owner \in Threads \cup {Nobody}
  /\ depth \in 0..2
  /\ attempts \in Nat
  /\ zzh \in Handles \cup {Nobody}
  /\ history \in Seq(Views \cup {NoNode}) /\ Len(history) > 0
  /\ ms_cluster \in 0..Len(history)
  /\ got \in [Threads -> 0..Len(history)]
  /\ hstate \in [Handles -> HStates]
  /\ events \in [Handles -> Seq((SUBSET Calls) \ {{}})]
  /\ todo \in [Handles -> SUBSET Calls]
  /\ cb \in [Handles -> Calls \cup {"none"}]
  /\ watch \in [Handles -> 0..Len(history)]
  /\ calm \in BOOLEAN /\ missed \in BOOLEAN

\* How often thread t has locked zk_.mtx_, by where it is in the code.
InZkWatcher(t) == t \in Handles /\ cb[t] \in SessionCalls
Inside         == {"calling", "init", "wait", "join"}

Locked(t) ==
  (IF InZkWatcher(t) THEN 1 ELSE 0) + (IF pc[t] \in Inside THEN 1 ELSE 0)

\* zk_.mtx_ is held by exactly the thread whose position in the code says so, as
\* deep as its nested lock_guards: two threads are never both inside a section
\* it protects, and no return path (an error, a handle that does not match, a
\* give-up of start_zk) leaves it locked.
LockDiscipline ==
  /\ \A t \in Threads : Locked(t) > 0 => owner = t
  /\ owner = Nobody => depth = 0
  /\ owner # Nobody => depth = Locked(owner) /\ depth > 0

\* No session is leaked and none is used after its close: whatever the closes
\* and restarts of Loop, Main and zk_watcher, the only open handle is zzh_, and
\* zzh_ is open unless the thread that is closing it holds the mutex.
SingleSession ==
  /\ \A h \in Handles : hstate[h] \in Open => h = zzh
  /\ zzh # Nobody => \/ hstate[zzh] \in Open
                     \/ \E t \in Closers : pc[t] = "join"

\* start_zk never finds a handle there ("zookeeper is running, can't init"): no
\* other thread opens a session between the close of one thread and its restart.
RestartFindsNoHandle ==
  \A t \in Closers : pc[t] = "start" => zzh = Nobody

\* zookeeper_close was called with zk_.mtx_ held and joins a completion thread
\* that still has to take that mutex.
Stuck ==
  /\ \E t \in Closers : pc[t] = "join"
  /\ zzh # Nobody
  /\ \/ pc[zzh] = "update"
     \/ todo[zzh] # {}
     \/ events[zzh] # <<>>

\* That join is a deadlock: no later event, wake-up or signal resolves it.
StuckForever == [][Stuck => Stuck']_vars

\* It is the only one: in every other state the thread that holds zk_.mtx_ can
\* go on, or waits for a completion thread that can.
HolderCanMove ==
  Running /\ owner # Nobody /\ ~Stuck =>
    \/ owner = Main /\ ENABLED MainStep
    \/ owner = Loop /\ ENABLED LoopStep
    \/ owner \in Handles /\ ENABLED CompletionStep(owner)
    \/ pc[owner] = "join" /\ ENABLED CompletionStep(zzh)

\* What a thread needs, in the locks and the sessions, to go on from where it is.
Ready(t) ==
  CASE pc[t] = "update"  -> owner \in {Nobody, t}
    [] pc[t] = "calling" -> zzh = Nobody \/ hstate[zzh] \in Open
    [] pc[t] = "init"    -> \E h \in Handles : hstate[h] = "closed"
    [] pc[t] = "join"    -> hstate[zzh] = "closed"
    [] pc[t] = "idle"    -> hstate[t] = "closing" /\ todo[t] = {} /\ events[t] = <<>>
    [] OTHER             -> pc[t] \in {"wait", "assign", "leave"}

\* The form of HolderCanMove that can be proved, in terms of what the code waits for
\* instead of ENABLED: the holder of zk_.mtx_ waits for nothing, unless it is a closer whose completion thread has
\* only to end.  zookeeper_init finds a handle, the call on a handle ends, and
\* nobody that holds the mutex sleeps, serves or is idle.
HolderReady ==
  Running /\ owner # Nobody /\ ~Stuck =>
    Ready(owner) \/ (pc[owner] = "join" /\ Ready(zzh))

\* The list is always filled from a view the znode really had, and never with an
\* empty one (updateModelServerList returns before the assignment).
Directory == INSTANCE MsDirectory WITH list <- ms_cluster
ImplementsDirectory == Directory!DirSpec

\* Nothing queued, nothing running: the program just waits for the next event.
Quiet ==
  /\ Running
  /\ pc[Main] = "serving"
  /\ pc[Loop] = "sleep"
  /\ \A h \in Handles : pc[h] = "idle" /\ todo[h] = {} /\ events[h] = <<>>

Connected == zzh # Nobody /\ hstate[zzh] = "connected"
Watched   == Connected /\ watch[zzh] # 0

\* The list holds the servers that are registered now.
Fresh == Members = AddressesIn(Current)

\* Lost connections, expired sessions, closes and restarts never lose the watch:
\* once all events are handled, a connected client is watching the znode again
\* without any help of the ten-minute loop, unless its own call has failed since.
QuietMeansWatched == Quiet /\ Connected /\ ~missed => Watched

\* A quiet, connected client that watches the znode has the registered servers
\* in memory ("dynamic change of the proxied services", README.md:4).
QuietMeansFresh ==
  Quiet /\ Watched /\ watch[zzh] = Len(history) => 
    Fresh \/ AddressesIn(Current) = {}

\* However long the trouble lasted, when it is over the loop brings back the
\* watch and the current list, unless the threads deadlocked before.  (calm stays
\* TRUE, so this is "again and again", not "for good": Loop may find the handle
\* not connected and close it after it did connect, tgp_cluster_admin.cc:65-75.)
Repaired == calm ~> ((Watched /\ Fresh) \/ Stuck \/ ~Running)

\* The loop registers the watcher again after a session went wrong, whatever
\* the interleaving (the comment on t_ in tgp_cluster_admin.h).
WatchComesBack == calm ~> (Watched \/ ~Running)

=============================================================================
