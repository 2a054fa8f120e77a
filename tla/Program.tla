------------------------------ MODULE Program -------------------------------
(***************************************************************************)
(* main: the program starts, serves and ends, while the watchers of the    *)
(* client's sessions and the detached loop already, or still, run.         *)
(*                                                                         *)
(* Main returns early when a file is wrong or the client does not connect, *)
(* and then does not stop the client.  After main the singletons end in    *)
(* the reverse order of their construction: first TGPClusterAdmin (its     *)
(* list of servers, then zk_, whose destructor closes the session), then   *)
(* TGPContext (the settings).                                              *)
(*                                                                         *)
(* Every handle of the client has a completion thread, named by it, that   *)
(* runs the watchers.  A close joins that thread, except when zk_watcher,  *)
(* told that the session has expired, closes the handle from the thread    *)
(* itself: then nobody ever joins it.                                      *)
(*                                                                         *)
(* What the client does while Main serves is ClusterAdmin's matter.  Here  *)
(* a watcher or the loop is only its way through the mutex, the three      *)
(* objects and the handles, and a restart of the session by the loop is    *)
(* one step.                                                               *)
(***************************************************************************)
EXTENDS MsConf

CONSTANTS
  Main, Loop,
  Handles,         \* zhandle_t's, none of them made twice: a bound on the sessions
  Nobody,          \* no owner of the mutex, and the null handle
  NoIp, Loopback,  \* no address; 127.0.0.1
  Lan,             \* private addresses
  Machines         \* what getLocalIp may find: sequences of addresses

Threads == {Loop} \cup Handles
Objects == {"list", "client", "settings"}

ASSUME ProgramAssumption ==
  /\ Main \notin Threads /\ Nobody \notin Threads \cup {Main} /\ Loop \notin Handles
  /\ NoIp # Loopback /\ {NoIp, Loopback} \cap Lan = {}
  /\ \A ifs \in Machines : Len(ifs) \in Nat \ {0}

VARIABLES
  main,      \* where main is
  holder,    \* who holds zk_.mtx_
  zzh,       \* zk_.zzh_
  hstate,    \* per handle: "orphan" = closed by its own thread, which goes on
  closing,   \* the handle ~ZK is closing
  at,        \* per thread: where it is, "rest" = asleep or waiting for events
  alive,     \* the objects that are constructed and not yet destroyed
  machine,   \* the interfaces getLocalIp looked at
  ip,        \* the address the server is bound to
  stopped,   \* history: Main has stopped the client
  late,      \* history: the loop was awake when Main did not serve any more
  raced,     \* history: ~ZK worked on zzh_ while a watcher replaced it
  dangling   \* history: which thread used which object before or after its life,
             \* as long as the loop is not late

clientVars  == <<holder, zzh, hstate, closing, raced>>
threadVars  == <<clientVars, at, dangling>>
serverVars  == <<machine, ip>>
historyVars == <<stopped, late>>
ownVars     == <<main, threadVars, alive, serverVars, historyVars>>
vars        == <<ownVars, confVars>>

Running == main \notin {"ended", "terminated"}

Init ==
  /\ ConfInit
  /\ main = "settings"
  /\ holder = Nobody /\ zzh = Nobody /\ closing = Nobody
  /\ hstate = [h \in Handles |-> "unused"]
  /\ at = [t \in Threads |-> "rest"]
  /\ alive = {}
  /\ machine = <<>> /\ ip = NoIp
  /\ stopped = FALSE /\ late = FALSE /\ raced = FALSE
  /\ dangling = {}

-----------------------------------------------------------------------------
(* Main.                                                                   *)

\* No -c: nothing is constructed.  A file that boost cannot parse throws outside
\* the try block; one without a key is refused.
ReadSettings ==
  /\ main = "settings"
  /\ \/ main' = "exit" /\ alive' = {}
     \/ main' \in {"exit", "terminated", "client"} /\ alive' = {"settings"}
  /\ UNCHANGED <<threadVars, serverVars, historyVars, confVars>>

\* zookeeper_init: a handle of its own, with its own thread.
Opened(h) ==
  /\ hstate[h] = "unused"
  /\ hstate' = [hstate EXCEPT ![h] = "open"]
  /\ zzh' = h

\* startZkProcess: without an address, or when zookeeper_init fails, it returns
\* at once; otherwise it waits with zk_.mtx_ held.
StartClient ==
  /\ main = "client"
  /\ alive' = Objects
  /\ \/ main' = "exit" /\ UNCHANGED <<holder, zzh, hstate>>
     \/ main' = "wait" /\ holder' = Main /\ \E h \in Handles : Opened(h)
  /\ UNCHANGED <<closing, raced, at, dangling, serverVars, historyVars, confVars>>

\* Connected, or not within six seconds: then, and when the settings name no file
\* of model servers, main returns and the session stays open.
EndWait ==
  /\ main = "wait"
  /\ main' \in {"load", "exit"}
  /\ holder' = Nobody
  /\ UNCHANGED <<zzh, hstate, closing, raced, at, dangling, alive, serverVars,
                 historyVars, confVars>>

Load ==
  /\ main = "load"
  /\ LoadStep
  /\ UNCHANGED ownVars

EndLoad ==
  /\ main = "load"
  /\ \/ pc = "loaded" /\ main' = "bind"
     \/ pc = "refused" /\ main' = "exit"
  /\ UNCHANGED <<threadVars, alive, serverVars, historyVars, confVars>>

\* An assertion of rapidjson, or undefined behaviour.
Crash ==
  /\ main \in {"load", "serve"}
  /\ pc \in {"aborted", "undefined"}
  /\ main' = "terminated"
  /\ UNCHANGED <<threadVars, alive, serverVars, historyVars, confVars>>

\* Mutant of LocalIp: the interfaces are looked at from the first to the last.
LocalIpUpwards(ifs) ==
  LET n == Len(ifs) - 1
      scan[k \in 0..n] ==
        [shift \in Nat |->
           IF k + shift >= n THEN NoIp
           ELSE LET this == ifs[k + shift + 1]
                IN IF this = Loopback THEN scan[k + 1][shift + 1]
                   ELSE IF this \in Lan THEN this ELSE scan[k + 1][shift]]
  IN scan[0][0]

\* getLocalIp.  ifreq[k] is ifs[k + 1]; the last one is what the buffer holds
\* behind the interfaces.  The loop begins there and never comes to ifreq[0], and
\* at a loopback address ifreq++ undoes the i--.
LocalIp(ifs) ==
  LET n == Len(ifs) - 1
      scan[k \in 0..n] ==
        [shift \in Nat |->
           IF k = 0 THEN NoIp
           ELSE LET this == ifs[k + shift + 1]
                IN IF this = Loopback THEN scan[k - 1][shift + 1]
                   ELSE IF this \in Lan THEN this ELSE scan[k - 1][shift]]
  IN scan[n][0]

\* setHTTPServerIPs and bind; both throw, folly when there is no address.  Without
\* a socket getLocalIp looks at no interface and leaves the address empty.
Bind ==
  /\ main = "bind"
  /\ \/ machine' \in Machines /\ ip' = LocalIp(machine')
     \/ machine' = <<>> /\ ip' = NoIp
  /\ \/ main' = "terminated"
     \/ main' = "serve" /\ ip' # NoIp
  /\ UNCHANGED <<threadVars, alive, historyVars, confVars>>

Lookup ==
  /\ main = "serve"
  /\ LookupStep
  /\ UNCHANGED ownVars

\* SIGINT or SIGTERM; the workers are joined.
Shutdown ==
  /\ main = "serve"
  /\ \A w \in Workers : wpc[w] = "idle"
  /\ main' = "stop"
  /\ late' = (at[Loop] # "rest")
  /\ UNCHANGED <<threadVars, alive, serverVars, stopped, confVars>>

\* stopZkProcess: finalize_zk takes zk_.mtx_ and closes the session.
StopClient ==
  /\ main = "stop"
  /\ holder = Nobody
  /\ IF zzh = Nobody THEN main' = "exit" /\ UNCHANGED holder
                     ELSE main' = "join" /\ holder' = Main
  /\ stopped' = TRUE
  /\ UNCHANGED <<zzh, hstate, closing, raced, at, dangling, alive, serverVars, late, confVars>>

\* zookeeper_close returns when the completion thread of this handle has ended, and
\* may return before when that thread closed the handle, too: it is detached then.
Joined(h) == at[h] = "rest" \/ hstate[h] = "orphan"

Closed(h) == hstate' = [hstate EXCEPT ![h] = IF @ = "open" THEN "closed" ELSE @]

Join ==
  /\ main = "join"
  /\ Joined(zzh)
  /\ main' = "exit"
  /\ Closed(zzh) /\ zzh' = Nobody /\ holder' = Nobody
  /\ UNCHANGED <<closing, raced, at, dangling, alive, serverVars, historyVars, confVars>>

\* Mutant of Order: main asks for the TGPClusterAdmin before the TGPContext.
OrderOfAdminFirst == <<"settings", "list", "client">>

Order == <<"list", "client", "settings">>

First == CHOOSE o \in alive :
  \A p \in alive : \E m, n \in 1..Len(Order) : Order[m] = o /\ Order[n] = p /\ m <= n

\* Mutant of Closes: ~ZK leaves the session to the end of the process.
ClosesNothing(o) == FALSE

\* ~ZK closes the session, if it finds one.
Closes(o) == o = "client" /\ zzh # Nobody

\* In the expiry branch of zk_watcher, with the mutex.
Replacing(h) == at[h] \in {"finalize", "init", "wait"}

\* ~ZK reads zzh_ without the mutex.
Destroy ==
  /\ main = "exit"
  /\ alive # {}
  /\ raced' = (raced \/ (First = "client" /\ \E h \in Handles : Replacing(h)))
  /\ IF Closes(First)
     THEN main' = "close" /\ closing' = zzh /\ UNCHANGED alive
     ELSE alive' = alive \ {First} /\ UNCHANGED <<main, closing>>
  /\ UNCHANGED <<holder, zzh, hstate, at, dangling, serverVars, historyVars, confVars>>

\* ~ZK forgets what zzh_ holds by then, which need not be what it has closed.
EndClose ==
  /\ main = "close"
  /\ Joined(closing)
  /\ main' = "exit"
  /\ Closed(closing) /\ zzh' = Nobody /\ closing' = Nobody
  /\ alive' = alive \ {"client"}
  /\ UNCHANGED <<holder, raced, at, dangling, serverVars, historyVars, confVars>>

\* A handle closed twice, or used after it was closed.
CrashOfRace ==
  /\ raced
  /\ main \in {"exit", "close"}
  /\ main' = "terminated"
  /\ UNCHANGED <<threadVars, alive, serverVars, historyVars, confVars>>

Exit ==
  /\ main = "exit"
  /\ alive = {}
  /\ main' = "ended"
  /\ UNCHANGED <<threadVars, alive, serverVars, historyVars, confVars>>

-----------------------------------------------------------------------------
(* The other threads.                                                      *)

Use(t, objects) ==
  dangling' = IF late THEN dangling ELSE dangling \cup ({t} \X (objects \ alive))

Goto(t, l) == at' = [at EXCEPT ![t] = l]

\* The way back: zk_watcher unlocks.
Leave(t) ==
  /\ Goto(t, "rest")
  /\ holder' = IF holder = t THEN Nobody ELSE holder

\* An event: zk_watcher locks first; tgpChildrenWatcher goes on at once, but is
\* set by no call on a handle for which start_zk still waits.
Event(h) ==
  /\ Running
  /\ hstate[h] = "open"
  /\ at[h] = "rest"
  /\ \/ Goto(h, "lock")
     \/ /\ h = zzh => main # "wait" /\ \A g \in Handles : at[g] # "wait"
        /\ Goto(h, "settings")
  /\ UNCHANGED <<main, clientVars, dangling, alive, serverVars, historyVars, confVars>>

\* zk_watcher, told "connected", "expired", or something it only logs.
WatcherLocks(h) ==
  /\ Running
  /\ at[h] = "lock"
  /\ holder = Nobody
  /\ Use(h, {"client"})
  /\ \/ zzh = h /\ Goto(h, "settings") /\ holder' = h /\ UNCHANGED raced
     \/ zzh = h /\ Goto(h, "finalize") /\ holder' = h /\ raced' = (raced \/ main = "close")
     \/ Leave(h) /\ UNCHANGED raced
  /\ UNCHANGED <<main, zzh, hstate, closing, alive, serverVars, historyVars, confVars>>

\* finalize_zk from the thread of the handle itself: nobody joins it.
WatcherCloses(h) ==
  /\ Running
  /\ at[h] = "finalize"
  /\ Use(h, {"client"})
  /\ Goto(h, "init")
  /\ hstate' = IF zzh = Nobody THEN hstate ELSE [hstate EXCEPT ![zzh] = "orphan"]
  /\ zzh' = Nobody
  /\ UNCHANGED <<main, holder, closing, raced, alive, serverVars, historyVars, confVars>>

\* start_zk: zookeeper_init, which may fail.
WatcherOpens(h) ==
  /\ Running
  /\ at[h] = "init"
  /\ Use(h, {"client"})
  /\ \/ Goto(h, "wait") /\ UNCHANGED holder /\ \E g \in Handles : Opened(g)
     \/ Leave(h) /\ UNCHANGED <<zzh, hstate>>
  /\ UNCHANGED <<main, closing, raced, alive, serverVars, historyVars, confVars>>

\* Connected, or not within six seconds.  The event that told of the expiry may
\* be one for tgpChildrenWatcher, too.
WatcherWaits(h) ==
  /\ Running
  /\ at[h] = "wait"
  /\ Use(h, {"client"})
  /\ holder' = Nobody
  /\ \E l \in {"rest", "settings"} : Goto(h, l)
  /\ UNCHANGED <<main, zzh, hstate, closing, raced, alive, serverVars, historyVars, confVars>>

\* updateModelServerList: the path, the children, the list.
UpdateReads(t) ==
  /\ Running
  /\ at[t] = "settings"
  /\ Use(t, {"settings"})
  /\ Goto(t, "call")
  /\ UNCHANGED <<main, clientVars, alive, serverVars, historyVars, confVars>>

UpdateCalls(t) ==
  /\ Running
  /\ at[t] = "call"
  /\ holder \in {Nobody, t}
  /\ Use(t, {"client"})
  /\ \/ Goto(t, "assign") /\ UNCHANGED holder
     \/ Leave(t)
  /\ UNCHANGED <<main, zzh, hstate, closing, raced, alive, serverVars, historyVars, confVars>>

UpdateAssigns(t) ==
  /\ Running
  /\ at[t] = "assign"
  /\ Use(t, {"list"})
  /\ Leave(t)
  /\ UNCHANGED <<main, zzh, hstate, closing, raced, alive, serverVars, historyVars, confVars>>

\* The loop sleeps ten minutes; Main has served, or returned, long before.
LoopWakes ==
  /\ Running
  /\ ip # NoIp
  /\ at[Loop] = "rest"
  /\ holder = Nobody
  /\ \/ zzh # Nobody /\ Goto(Loop, "settings")
     \/ Goto(Loop, "restart")
  /\ late' = (late \/ main # "serve")
  /\ UNCHANGED <<main, clientVars, dangling, alive, serverVars, stopped, confVars>>

\* stopZkProcess and startZkProcess.
LoopRestarts ==
  /\ Running
  /\ at[Loop] = "restart"
  /\ holder = Nobody
  /\ Use(Loop, {"client", "settings"})
  /\ zzh # Nobody => Joined(zzh)
  /\ LET left == IF zzh = Nobody THEN hstate ELSE [hstate EXCEPT ![zzh] = "closed"]
     IN \/ zzh' = Nobody /\ hstate' = left
        \/ \E h \in Handles : /\ left[h] = "unused"
                              /\ zzh' = h /\ hstate' = [left EXCEPT ![h] = "open"]
  /\ Goto(Loop, "rest")
  /\ UNCHANGED <<main, holder, closing, raced, alive, serverVars, historyVars, confVars>>

-----------------------------------------------------------------------------
MainStep ==
  \/ ReadSettings \/ StartClient \/ EndWait \/ Load \/ EndLoad \/ Crash \/ Bind
  \/ Lookup \/ Shutdown \/ StopClient \/ Join \/ Destroy \/ EndClose \/ CrashOfRace
  \/ Exit

WatcherStep(h) ==
  Event(h) \/ WatcherLocks(h) \/ WatcherCloses(h) \/ WatcherOpens(h) \/ WatcherWaits(h)

ThreadStep ==
  \/ \E h \in Handles : WatcherStep(h)
  \/ \E t \in Threads : UpdateReads(t) \/ UpdateCalls(t) \/ UpdateAssigns(t)
  \/ LoopWakes \/ LoopRestarts

\* Over, or the deadlock that ClusterAdmin describes: Main, with zk_.mtx_, joins
\* a thread that waits for it.
Over ==
  /\ ~Running \/ (main = "join" /\ at[zzh] \in {"lock", "call"})
  /\ UNCHANGED vars

Next == MainStep \/ ThreadStep \/ Over

Spec == Init /\ [][Next]_vars

-----------------------------------------------------------------------------
(* Properties.                                                             *)

\* Type invariant.
TypeOK ==
  /\ ConfTypeOK
  /\ main \in {"settings", "client", "wait", "load", "bind", "serve", "stop", "join",
               "exit", "close", "ended", "terminated"}
  /\ holder \in Threads \cup {Main, Nobody}
  /\ {zzh, closing} \subseteq Handles \cup {Nobody}
  /\ hstate \in [Handles -> {"unused", "open", "closed", "orphan"}]
  /\ at \in [Threads -> {"rest", "lock", "settings", "call", "assign", "restart",
                         "finalize", "init", "wait"}]
  /\ alive \subseteq Objects
  /\ {stopped, late, raced} \subseteq BOOLEAN
  /\ dangling \subseteq Threads \X Objects

\* At the end of the program a thread that is joined uses nothing that is destroyed
\* already.  The exceptions: a loop that happens to be awake then; the thread of a
\* handle that it has closed itself, which nobody joins; and, only when main
\* returns without having stopped the client, a watcher that still assigns the
\* list, which ends before zk_, and whatever runs once ~ZK, which takes no mutex,
\* has met a watcher that replaces the handle.
UsedWhileAlive ==
  \A t \in Threads, o \in Objects :
    <<t, o>> \in dangling =>
      /\ t \in Handles
      /\ \/ hstate[t] = "orphan"
         \/ ~stopped /\ (o = "list" \/ raced)

\* However main returns, the program does not end with a session open, for which
\* the ensemble would have to wait to expire, unless ~ZK has met a watcher that
\* replaces the handle; and it does not when main has stopped the client.
SessionClosedAtExit ==
  main = "ended" /\ ~late => \/ \A h \in Handles : hstate[h] # "open"
                             \/ raced /\ ~stopped

\* The off-by-one of getLocalIp at both ends does no harm on a machine whose
\* loopback interface, if it has one, comes first, when the memory behind the
\* interfaces holds no private or loopback address by chance: the server is bound
\* to a private address of the machine's other interfaces if there is one.
LanAddressFound ==
  LET n      == Len(machine) - 1
      others == {machine[k] : k \in 2..n}
  IN /\ machine # <<>>
     /\ machine[n + 1] \notin Lan \cup {Loopback}
     /\ Loopback \notin others
     /\ others \cap Lan # {}
     => ip \in others \cap Lan

=============================================================================
