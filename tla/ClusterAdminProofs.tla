------------------------- MODULE ClusterAdminProofs -------------------------
(***************************************************************************)
(* Proofs about ClusterAdmin, for any number of handles, views and events. *)
(***************************************************************************)
EXTENDS ClusterAdmin, SequenceTheorems, TLAPS


\* Where each thread can be, and which watcher leads where.
Positions ==
  /\ pc[Main] \in {"start", "init", "wait", "serving", "stop", "join", "exited"}
  /\ pc[Loop] \in {"sleep", "update", "calling", "assign", "stop", "join",
                   "start", "init", "wait"}
  /\ \A h \in Handles :
       /\ pc[h] \in {"idle", "update", "calling", "assign", "init", "wait", "leave"}
       /\ pc[h] = "idle" <=> cb[h] = "none"
       /\ pc[h] \in {"init", "wait"} => cb[h] = "expired"

\* What the holder of zk_.mtx_ knows of zk_.zzh_.
HolderKnows ==
  \A t \in Threads :
    /\ pc[t] = "init" => zzh = Nobody
    /\ pc[t] = "wait" => zzh \in Handles /\ hstate[zzh] \in Open
    /\ pc[t] = "join" => zzh \in Handles /\ hstate[zzh] \in {"closing", "closed"}

\* While a closer is between its close and its restart no thread makes a handle.
Restarts ==
  /\ pc[Main] \in {"start", "init", "wait"} => pc[Loop] = "sleep"
  /\ \A t \in Closers : pc[t] = "start" =>
       zzh = Nobody /\ \A u \in Threads : pc[u] # "init"

\* A completion thread has ended only after it handled every event.
Drained ==
  \A h \in Handles : hstate[h] = "closed" =>
    pc[h] = "idle" /\ todo[h] = {} /\ events[h] = <<>>

\* A list on its way to ms_cluster_ has an address.
GotAddresses ==
  \A t \in Threads :
    /\ pc[t] = "assign" => got[t] # 0
    /\ got[t] # 0 => AddressesIn(history[got[t]]) # {}

IInv ==
  /\ TypeOK
  /\ Positions
  /\ LockDiscipline
  /\ SingleSession
  /\ HolderKnows
  /\ Drained
  /\ GotAddresses
  /\ Restarts

\* How often a thread can hold the mutex, and that holding it means owning it.
LEMMA LockedBound ==
  ASSUME NEW t \in Threads
  PROVE  /\ Locked(t) \in 0..2
         /\ pc[t] \in Inside => Locked(t) > 0
BY DEF Locked, Inside

\* Whoever is inside a section that zk_.mtx_ protects owns it, so it is alone.
LEMMA HolderAlone ==
  ASSUME LockDiscipline, NEW t \in Threads, NEW u \in Threads, pc[t] \in Inside
  PROVE  /\ owner = t
         /\ pc[u] \in Inside => u = t
<1>1. Locked(t) > 0 /\ (pc[u] \in Inside => Locked(u) > 0)
  BY LockedBound
<1> QED BY <1>1 DEF LockDiscipline

\* A lock_guard that is entered.
LEMMA LockTaken ==
  ASSUME LockDiscipline, NEW t \in Threads, Acquire(t),
         Locked(t)' = Locked(t) + 1,
         \A u \in Threads \ {t} : Locked(u)' = Locked(u)
  PROVE  LockDiscipline' /\ owner' \in Threads \cup {Nobody} /\ depth' \in 0..2
<1>1. \A u \in Threads : Locked(u) \in 0..2
  BY LockedBound
<1>2. \A u \in Threads \ {t} : ~(Locked(u) > 0)
  BY ThreadsAssumption DEF Acquire, LockDiscipline
<1>3. depth = Locked(t)
  BY <1>1, ThreadsAssumption DEF Acquire, LockDiscipline
<1>4. Locked(t)' \in 0..2
  BY DEF Locked
<1> QED BY <1>1, <1>2, <1>3, <1>4, ThreadsAssumption DEF Acquire, LockDiscipline

\* A lock_guard that is left.
LEMMA LockLeft ==
  ASSUME LockDiscipline, NEW t \in Threads, Release, Locked(t) > 0,
         Locked(t)' = Locked(t) - 1,
         \A u \in Threads \ {t} : Locked(u)' = Locked(u)
  PROVE  LockDiscipline' /\ owner' \in Threads \cup {Nobody} /\ depth' \in 0..2
<1>1. \A u \in Threads : Locked(u) \in 0..2
  BY LockedBound
<1>2. owner = t /\ depth = Locked(t)
  BY ThreadsAssumption DEF LockDiscipline
<1>3. \A u \in Threads \ {t} : ~(Locked(u) > 0)
  BY <1>2 DEF LockDiscipline
<1>4. Locked(t)' \in 0..2
  BY DEF Locked
<1> QED BY <1>1, <1>2, <1>3, <1>4, ThreadsAssumption DEF Release, LockDiscipline

\* A step that neither enters nor leaves one.
LEMMA LockKept ==
  ASSUME LockDiscipline, owner \in Threads \cup {Nobody}, UNCHANGED lockVars,
         \A u \in Threads : Locked(u)' = Locked(u)
  PROVE  LockDiscipline'
BY DEF LockDiscipline, lockVars

\* Thread t goes from where it is to l, every other thread stays.
MovesTo(t, l) == pc'[t] = l /\ \A u \in Threads \ {t} : pc'[u] = pc[u]

\* An assignment to one thread's position is such a move.
LEMMA GotoMoves ==
  ASSUME pc \in [Threads -> Labels], NEW t \in Threads, NEW l \in Labels,
         pc' = [pc EXCEPT ![t] = l]
  PROVE  pc' \in [Threads -> Labels] /\ MovesTo(t, l)
BY DEF MovesTo

\* What such a move means for the mutex, while no watcher begins or ends.
LEMMA LockedMoves ==
  ASSUME NEW t \in Threads, NEW l, MovesTo(t, l), UNCHANGED cb
  PROVE  /\ \A u \in Threads \ {t} : Locked(u)' = Locked(u)
         /\ pc[t] \notin Inside /\ l \in Inside => Locked(t)' = Locked(t) + 1
         /\ pc[t] \in Inside /\ l \notin Inside => Locked(t)' = Locked(t) - 1
         /\ (pc[t] \in Inside <=> l \in Inside) => Locked(t)' = Locked(t)
BY DEF MovesTo, Locked, InZkWatcher

\* A thread that runs, or that has a watcher to call, belongs to no finished
\* handle; so its moves keep what the invariant says of the sessions, unless they
\* begin or end a wait, a close or an init, or change a session themselves.
LEMMA SessionsKept ==
  ASSUME IInv, NEW t \in Threads, NEW l, MovesTo(t, l),
         UNCHANGED <<zzh, hstate>>,
         \A h \in Handles : hstate[h] = "closed" =>
           events'[h] = events[h] /\ (todo[h] = {} => todo'[h] = {}),
         pc[t] # "idle" \/ todo[t] # {},
         pc[t] = "join" \/ l \in {"wait", "join"} => l = pc[t],
         l = "init" => zzh = Nobody \/ l = pc[t]
  PROVE  SingleSession' /\ HolderKnows' /\ Drained'
<1>1. SingleSession'
  <2>1. \A c \in Closers : pc[c] = "join" => pc'[c] = "join"
    BY DEF MovesTo, Closers, Threads
  <2> QED BY <2>1 DEF IInv, SingleSession
<1>2. HolderKnows'
  <2>1. \A u \in Threads : pc'[u] \in {"wait", "join"} => pc[u] = pc'[u]
    BY DEF MovesTo
  <2>2. \A u \in Threads : pc'[u] = "init" => zzh = Nobody
    BY DEF MovesTo, IInv, HolderKnows
  <2> QED BY <2>1, <2>2 DEF IInv, HolderKnows
<1>3. Drained'
  <2>1. \A h \in Handles : hstate[h] = "closed" => h # t
    BY DEF IInv, Drained
  <2>2. \A h \in Handles : hstate[h] = "closed" => pc'[h] = pc[h]
    BY <2>1 DEF MovesTo, Threads
  <2> QED BY <2>2 DEF IInv, Drained
<1> QED BY <1>1, <1>2, <1>3

\* A move between two positions of the same thread, inside one watcher if it is a
\* completion thread.
LEMMA PositionsKept ==
  ASSUME Positions, NEW t \in Threads, NEW l, MovesTo(t, l), UNCHANGED cb,
         t = Main => l \in {"init", "wait", "serving", "stop", "exited"},
         t = Loop => l \in {"sleep", "update", "calling", "assign", "stop", "start",
                            "init", "wait"},
         t \in Handles =>
           /\ pc[t] # "idle"
           /\ l \in {"update", "calling", "assign", "wait", "leave"}
           /\ l = "wait" => pc[t] \in {"init", "wait"}
  PROVE  Positions'
<1>1. pc'[Main] \in {"start", "init", "wait", "serving", "stop", "join", "exited"}
  BY DEF MovesTo, Positions, Threads
<1>2. pc'[Loop] \in {"sleep", "update", "calling", "assign", "stop", "join",
                     "start", "init", "wait"}
  BY DEF MovesTo, Positions, Threads
<1>3. ASSUME NEW h \in Handles
      PROVE  /\ pc'[h] \in {"idle", "update", "calling", "assign", "init", "wait", "leave"}
             /\ pc'[h] = "idle" <=> cb[h] = "none"
             /\ pc'[h] \in {"init", "wait"} => cb[h] = "expired"
  <2>1. CASE h = t
    BY <2>1 DEF MovesTo, Positions
  <2>2. CASE h # t
    BY <2>2 DEF MovesTo, Positions, Threads
  <2> QED BY <2>1, <2>2
<1> QED BY <1>1, <1>2, <1>3 DEF Positions

\* A list that is on its way stays there, whoever else moves.
LEMMA GotKept ==
  ASSUME GotAddresses, NEW t \in Threads, NEW l, MovesTo(t, l),
         UNCHANGED <<got, history>>, l = "assign" => l = pc[t]
  PROVE  GotAddresses'
<1>1. \A u \in Threads : pc'[u] = "assign" => pc[u] = "assign"
  BY DEF MovesTo
<1> QED BY <1>1 DEF GotAddresses, AddressesIn

\* A restart is disturbed only by a thread that makes a handle or leaves a sleep.
LEMMA RestartsKept ==
  ASSUME Restarts, NEW t \in Threads, NEW l, MovesTo(t, l), UNCHANGED zzh,
         t = Main => l # "start" /\ (l \in {"init", "wait"} => pc[Main] \in {"start", "init", "wait"}),
         t = Loop => l = "sleep" \/ pc[Main] \notin {"start", "init", "wait"},
         l = "start" => l = pc[t],
         l = "init" => l = pc[t] \/ (t \in Closers /\ pc[t] = "start")
  PROVE  Restarts'
<1>1. pc'[Main] \in {"start", "init", "wait"} => pc'[Loop] = "sleep"
  BY ThreadsAssumption DEF MovesTo, Restarts, Threads
<1>2. ASSUME NEW c \in Closers, pc'[c] = "start"
      PROVE  zzh = Nobody /\ \A u \in Threads : pc'[u] # "init"
  <2>1. c \in Threads /\ pc[c] = "start"
    BY <1>2 DEF MovesTo, Closers, Threads
  <2>2. zzh = Nobody /\ \A u \in Threads : pc[u] # "init"
    BY <2>1 DEF Restarts
  <2>3. c = t => pc'[t] = l /\ l = pc[t]
    BY <1>2, <2>1 DEF MovesTo
  <2>4. c # t => ~(t \in Closers /\ pc[t] = "start")
    BY <2>1, ThreadsAssumption DEF Restarts, Closers
  <2>5. l = "init" => l = pc[t]
    BY <1>2, <2>3, <2>4 DEF MovesTo
  <2> QED BY <2>2, <2>5 DEF MovesTo
<1> QED BY <1>1, <1>2 DEF Restarts

\* The connections and the ensemble move no thread: they change what the open
\* handles have seen and queued, and add to the views.
LEMMA ThreadsKept ==
  ASSUME IInv, UNCHANGED <<pc, owner, depth, zzh, got, todo, cb>>,
         \A h \in Handles :
           \/ hstate'[h] = hstate[h] /\ (hstate[h] = "closed" => events'[h] = events[h])
           \/ hstate[h] \in Open /\ hstate'[h] \in Open,
         \A i \in 1..Len(history) : history'[i] = history[i]
  PROVE  /\ Positions' /\ LockDiscipline' /\ SingleSession' /\ HolderKnows'
         /\ Drained' /\ GotAddresses' /\ Restarts'
<1>1. Positions'
  BY DEF IInv, Positions
<1>2. LockDiscipline'
  BY DEF IInv, LockDiscipline, Locked, InZkWatcher
<1>3. SingleSession'
  <2>1. \A h \in Handles : hstate'[h] \in Open <=> hstate[h] \in Open
    OBVIOUS
  <2>2. zzh \in Handles \cup {Nobody}
    BY DEF IInv, TypeOK
  <2> QED BY <2>1, <2>2 DEF IInv, SingleSession
<1>4. HolderKnows'
  BY DEF IInv, HolderKnows, Open
<1>5. Drained'
  BY DEF IInv, Drained, Open
<1>6. GotAddresses'
  <2>1. \A t \in Threads : got[t] # 0 => got[t] \in 1..Len(history)
    BY DEF IInv, TypeOK
  <2> QED BY <2>1 DEF IInv, GotAddresses, AddressesIn
<1>7. Restarts'
  BY DEF IInv, Restarts
<1> QED BY <1>1, <1>2, <1>3, <1>4, <1>5, <1>6, <1>7

\* zk_wget_chdnodes enters its lock_guard.
LEMMA GetChildrenKeeps ==
  ASSUME IInv, NEW t \in {Loop} \cup Handles, GetChildren(t)
  PROVE  IInv'
<1> USE ThreadsAssumption DEF GetChildren, At, Goto, clientVars, threadVars, envVars
<1>1. /\ t \in Threads /\ t # Main /\ pc[t] = "update"
      /\ pc' \in [Threads -> Labels] /\ MovesTo(t, "calling")
  BY GotoMoves DEF TypeOK, Labels, Threads, IInv
<1>2. LockDiscipline' /\ owner' \in Threads \cup {Nobody} /\ depth' \in 0..2
  BY <1>1, LockedMoves, LockTaken DEF Inside, IInv
<1>3. TypeOK'
  BY <1>1, <1>2 DEF TypeOK, IInv
<1>4. Positions'
  BY <1>1, PositionsKept DEF IInv
<1>5. SingleSession' /\ HolderKnows' /\ Drained'
  BY <1>1, SessionsKept
<1>6. GotAddresses'
  BY <1>1, GotKept DEF IInv
<1>7. Restarts'
  BY <1>1, RestartsKept DEF IInv, Positions, Restarts
<1> QED BY <1>2, <1>3, <1>4, <1>5, <1>6, <1>7 DEF IInv

\* A successful read sets the watch and releases the mutex.
LEMMA GetOkKeeps ==
  ASSUME IInv, NEW t \in {Loop} \cup Handles, GetOk(t)
  PROVE  IInv'
<1> USE ThreadsAssumption DEF GetOk, At, Goto, threadVars
<1>1. PICK l \in {"assign", Updated(t)} : pc' = [pc EXCEPT ![t] = l]
  OBVIOUS
<1>2. /\ t \in Threads /\ t # Main /\ pc[t] = "calling"
      /\ l = "assign" \/ l = (IF t = Loop THEN "sleep" ELSE "leave")
      /\ pc' \in [Threads -> Labels] /\ MovesTo(t, l)
  <2>1. /\ t \in Threads /\ t # Main /\ pc[t] = "calling"
        /\ l = "assign" \/ l = (IF t = Loop THEN "sleep" ELSE "leave")
    BY DEF Updated, Threads
  <2>2. l \in Labels /\ pc \in [Threads -> Labels]
    BY ONLY <2>1, IInv DEF TypeOK, Labels, IInv
  <2> QED BY ONLY <1>1, <2>1, <2>2, GotoMoves
<1>3. LockDiscipline' /\ owner' \in Threads \cup {Nobody} /\ depth' \in 0..2
  BY <1>2, LockedMoves, LockedBound, LockLeft DEF Inside, IInv
<1>4. TypeOK'
  <2>1. zzh \in Handles /\ Len(history) \in 0..Len(history)
    BY DEF TypeOK, IInv
  <2>2. got' \in [Threads -> 0..Len(history)]
    BY <2>1 DEF TypeOK, IInv
  <2>3. watch' \in [Handles -> 0..Len(history)]
    BY <2>1 DEF TypeOK, IInv, SetWatch
  <2>4. {"child"} \in (SUBSET Calls) \ {{}}
    BY DEF Calls
  <2>5. events' \in [Handles -> Seq((SUBSET Calls) \ {{}})]
    <3>1. events[zzh] \in Seq((SUBSET Calls) \ {{}})
      BY <2>1 DEF TypeOK, IInv
    <3>2. Append(events[zzh], {"child"}) \in Seq((SUBSET Calls) \ {{}})
      BY <2>4, <3>1
    <3> QED BY <2>1, <3>2 DEF TypeOK, IInv
  <2> QED BY <1>2, <1>3, <2>2, <2>3, <2>5 DEF TypeOK, IInv
<1>5. Positions'
  BY <1>2, PositionsKept DEF IInv
<1>6. SingleSession' /\ HolderKnows' /\ Drained'
  <2>1. \A h \in Handles : hstate[h] = "closed" => events'[h] = events[h]
    BY DEF TypeOK, IInv
  <2> QED BY <1>2, <2>1, SessionsKept
<1>7. GotAddresses'
  <2>1. \A u \in Threads \ {t} : got'[u] = got[u]
    BY DEF TypeOK, IInv
  <2>2. CASE AddressesIn(Current) # {}
    <3>1. Len(history) # 0 /\ AddressesIn(history[Len(history)]) # {}
      BY <2>2 DEF TypeOK, IInv, Current
    <3>2. got'[t] = Len(history)
      BY <1>2, <2>2 DEF TypeOK, IInv, Usable
    <3> QED BY <1>2, <2>1, <3>1, <3>2 DEF GotAddresses, AddressesIn, MovesTo, IInv
  <2>3. CASE AddressesIn(Current) = {}
    <3>1. UNCHANGED got /\ l = Updated(t)
      BY <1>1, <1>2, <2>3 DEF Usable, Updated, MovesTo, TypeOK, IInv
    <3> QED BY <1>2, <3>1, GotKept DEF IInv, Updated
  <2> QED BY <2>2, <2>3
<1>8. Restarts'
  BY <1>2, RestartsKept DEF IInv, Positions, Restarts
<1> QED BY <1>3, <1>4, <1>5, <1>6, <1>7, <1>8 DEF IInv

\* An error path leaves the lock_guard.
LEMMA GetFailsKeeps ==
  ASSUME IInv, NEW t \in {Loop} \cup Handles, GetFails(t)
  PROVE  IInv'
<1> USE ThreadsAssumption DEF GetFails, At, Goto, clientVars, threadVars
<1>1. /\ t \in Threads /\ t # Main /\ pc[t] = "calling"
      /\ Updated(t) = IF t = Loop THEN "sleep" ELSE "leave"
      /\ pc' \in [Threads -> Labels] /\ MovesTo(t, Updated(t))
  BY GotoMoves DEF TypeOK, Labels, Threads, IInv, Updated
<1>2. LockDiscipline' /\ owner' \in Threads \cup {Nobody} /\ depth' \in 0..2
  BY <1>1, LockedMoves, LockedBound, LockLeft DEF Inside, IInv
<1>3. TypeOK'
  BY <1>1, <1>2 DEF TypeOK, IInv, Miss
<1>4. Positions'
  BY <1>1, PositionsKept DEF IInv
<1>5. SingleSession' /\ HolderKnows' /\ Drained'
  BY <1>1, SessionsKept
<1>6. GotAddresses'
  BY <1>1, GotKept DEF IInv
<1>7. Restarts'
  BY <1>1, RestartsKept DEF IInv, Positions, Restarts
<1> QED BY <1>2, <1>3, <1>4, <1>5, <1>6, <1>7 DEF IInv

\* A retried error keeps the mutex, the last one releases it.
LEMMA GetRetriesKeeps ==
  ASSUME IInv, NEW t \in {Loop} \cup Handles, GetRetries(t)
  PROVE  IInv'
<1> USE ThreadsAssumption DEF GetRetries, At, Goto, clientVars, threadVars
<1>1. PICK l \in {"calling", Updated(t)} :
        /\ t \in Threads /\ t # Main /\ pc[t] = "calling"
        /\ Updated(t) = IF t = Loop THEN "sleep" ELSE "leave"
        /\ pc' \in [Threads -> Labels] /\ MovesTo(t, l)
        /\ IF l = "calling" THEN UNCHANGED lockVars ELSE Release
  <2>1. t \in Threads /\ t # Main /\ pc[t] = "calling" /\ pc \in [Threads -> Labels]
    BY DEF Threads, TypeOK, IInv
  <2>2. CASE attempts + 1 < MaxTries
    BY <2>1, <2>2 DEF MovesTo, Updated
  <2>3. CASE ~(attempts + 1 < MaxTries)
    <3>1. Updated(t) \in Labels /\ Updated(t) # "calling"
      BY DEF Updated, Labels
    <3>2. pc' \in [Threads -> Labels] /\ MovesTo(t, Updated(t)) /\ Release
      BY <2>1, <2>3, <3>1, GotoMoves
    <3> QED BY <2>1, <3>1, <3>2 DEF Updated
  <2> QED BY <2>2, <2>3
<1>2. LockDiscipline' /\ owner' \in Threads \cup {Nobody} /\ depth' \in 0..2
  <2>1. CASE l = "calling"
    BY <1>1, <2>1, LockedMoves, LockKept DEF Inside, IInv, TypeOK, lockVars
  <2>2. CASE l # "calling"
    BY <1>1, <2>2, LockedMoves, LockedBound, LockLeft DEF Inside, IInv
  <2> QED BY <2>1, <2>2
<1>3. TypeOK'
  <2>1. attempts' \in Nat
    BY DEF TypeOK, IInv
  <2>2. missed' \in BOOLEAN
    BY DEF TypeOK, IInv, Miss
  <2> QED BY <1>1, <1>2, <2>1, <2>2 DEF TypeOK, IInv
<1>4. Positions'
  BY <1>1, PositionsKept DEF IInv
<1>5. SingleSession' /\ HolderKnows' /\ Drained'
  BY <1>1, SessionsKept
<1>6. GotAddresses'
  BY <1>1, GotKept DEF IInv
<1>7. Restarts'
  BY <1>1, RestartsKept DEF IInv, Positions, Restarts
<1> QED BY <1>2, <1>3, <1>4, <1>5, <1>6, <1>7 DEF IInv

\* The assignment to ms_cluster_ does not touch zk_.mtx_.
LEMMA AssignClusterKeeps ==
  ASSUME IInv, NEW t \in {Loop} \cup Handles, AssignCluster(t)
  PROVE  IInv'
<1> USE ThreadsAssumption DEF AssignCluster, At, Goto, lockVars, clientVars, threadVars, envVars
<1>1. /\ t \in Threads /\ t # Main /\ pc[t] = "assign"
      /\ Updated(t) = IF t = Loop THEN "sleep" ELSE "leave"
      /\ pc' \in [Threads -> Labels] /\ MovesTo(t, Updated(t))
  BY GotoMoves DEF TypeOK, Labels, Threads, IInv, Updated
<1>2. LockDiscipline' /\ owner' \in Threads \cup {Nobody} /\ depth' \in 0..2
  BY <1>1, LockedMoves, LockKept DEF Inside, IInv, TypeOK
<1>3. TypeOK'
  <2>1. ms_cluster' \in 0..Len(history) /\ got' \in [Threads -> 0..Len(history)]
    BY <1>1 DEF TypeOK, IInv
  <2> QED BY <1>1, <1>2, <2>1 DEF TypeOK, IInv
<1>4. Positions'
  BY <1>1, PositionsKept DEF IInv
<1>5. SingleSession' /\ HolderKnows' /\ Drained'
  BY <1>1, SessionsKept
<1>6. GotAddresses'
  <2>1. \A u \in Threads : got'[u] = IF u = t THEN 0 ELSE got[u]
    BY <1>1 DEF TypeOK, IInv
  <2> QED BY <1>1, <2>1 DEF GotAddresses, AddressesIn, MovesTo, IInv
<1>7. Restarts'
  BY <1>1, RestartsKept DEF IInv, Positions, Restarts
<1> QED BY <1>2, <1>3, <1>4, <1>5, <1>6, <1>7 DEF IInv

\* start_zk enters its lock_guard, or finds a handle and returns.
LEMMA StartZkKeeps ==
  ASSUME IInv, NEW t \in Closers, StartZk(t)
  PROVE  IInv'
<1> USE ThreadsAssumption DEF StartZk, At, Goto, clientVars, threadVars, envVars
<1>1. PICK l \in {"init", "exited", "sleep"} :
        /\ t \in Threads /\ t \notin Handles /\ pc[t] = "start"
        /\ l = "init" \/ l = (IF t = Main THEN "exited" ELSE "sleep")
        /\ pc' \in [Threads -> Labels] /\ MovesTo(t, l)
        /\ IF l = "init" THEN zzh = Nobody /\ Acquire(t) ELSE UNCHANGED lockVars
  <2>1. t \in Threads /\ t \notin Handles /\ pc[t] = "start" /\ pc \in [Threads -> Labels]
    BY DEF Threads, Closers, TypeOK, IInv
  <2>2. Started(t, FALSE) = (IF t = Main THEN "exited" ELSE "sleep")
    BY DEF Started, Closers
  <2>3. "init" \in Labels /\ Started(t, FALSE) \in Labels \ {"init"}
    BY <2>2 DEF Labels
  <2> QED BY <2>1, <2>2, <2>3, GotoMoves
<1>2. LockDiscipline' /\ owner' \in Threads \cup {Nobody} /\ depth' \in 0..2
  <2>1. CASE l = "init"
    BY <1>1, <2>1, LockedMoves, LockTaken DEF Inside, IInv
  <2>2. CASE l # "init"
    <3>1. pc[t] \notin Inside /\ l \notin Inside
      BY <1>1, <2>2 DEF Inside
    <3>2. \A u \in Threads : Locked(u)' = Locked(u)
      BY <1>1, <3>1, LockedMoves
    <3> QED BY <1>1, <2>2, <3>2, LockKept DEF IInv, TypeOK, lockVars
  <2> QED BY <2>1, <2>2
<1>3. TypeOK'
  BY <1>1, <1>2 DEF TypeOK, IInv
<1>4. Positions'
  BY <1>1, PositionsKept DEF IInv
<1>5. SingleSession' /\ HolderKnows' /\ Drained'
  BY <1>1, SessionsKept
<1>6. GotAddresses'
  BY <1>1, GotKept DEF IInv
<1>7. Restarts'
  BY <1>1, RestartsKept DEF IInv, Positions, Restarts
<1> QED BY <1>2, <1>3, <1>4, <1>5, <1>6, <1>7 DEF IInv

\* zookeeper_init makes the only open handle.
LEMMA InitHandleKeeps ==
  ASSUME IInv, NEW t \in Threads, NEW h \in Handles, InitHandle(t, h)
  PROVE  IInv'
<1> USE ThreadsAssumption DEF IInv, At, InitHandle, Goto, lockVars, clientVars, threadVars, envVars
<1>1. LockDiscipline' /\ owner' \in Threads \cup {Nobody} /\ depth' \in 0..2
  <2>1. \A u \in Threads : Locked(u)' = Locked(u)
    BY DEF Locked, InZkWatcher, Inside, TypeOK
  <2> QED BY <2>1, LockKept DEF TypeOK, LockDiscipline
<1>2. TypeOK'
  <2>1. pc' \in [Threads -> Labels]
    BY DEF TypeOK, Labels, Threads
  <2>2. hstate' \in [Handles -> HStates] /\ zzh' \in Handles \cup {Nobody}
    BY DEF TypeOK, HStates, Open
  <2> QED BY <1>1, <2>1, <2>2 DEF TypeOK
<1>3. Positions'
  <2>1. MovesTo(t, "wait") /\ pc[t] = "init"
    BY GotoMoves DEF TypeOK, Labels
  <2> QED BY <2>1, PositionsKept
<1>4. SingleSession' /\ HolderKnows' /\ Drained'
  <2>1. zzh = Nobody /\ pc[t] \in Inside
    BY DEF HolderKnows, Inside
  <2>2. \A u \in Threads \ {t} : pc'[u] = pc[u] /\ pc[u] \notin Inside
    BY <2>1, HolderAlone DEF TypeOK
  <2>3. pc'[t] = "wait" /\ zzh' = h /\ hstate'[h] = "new"
    BY DEF TypeOK
  <2>4. SingleSession'
    BY <2>1, <2>3 DEF TypeOK, SingleSession, Open, Threads
  <2>5. HolderKnows'
    BY <2>2, <2>3 DEF HolderKnows, Inside, Open
  <2>6. Drained'
    BY <2>3 DEF TypeOK, Drained, Threads
  <2> QED BY <2>4, <2>5, <2>6
<1>5. GotAddresses'
  <2>1. \A u \in Threads : pc'[u] = "assign" => pc[u] = "assign"
    BY DEF TypeOK
  <2> QED BY <2>1 DEF GotAddresses, AddressesIn
<1>6. Restarts'
  BY HolderAlone DEF TypeOK, Restarts, Closers, Threads, Positions, Inside
<1> QED BY <1>1, <1>2, <1>3, <1>4, <1>5, <1>6

\* A failed zookeeper_init leaves the lock_guard.
LEMMA InitFailsKeeps ==
  ASSUME IInv, NEW t \in Threads, InitFails(t)
  PROVE  IInv'
<1> USE ThreadsAssumption DEF InitFails, At, Goto, clientVars, threadVars, envVars
<1>1. /\ pc[t] = "init"
      /\ Started(t, FALSE) = CASE t = Main -> "exited" [] t = Loop -> "sleep" [] OTHER -> "leave"
      /\ pc' \in [Threads -> Labels] /\ MovesTo(t, Started(t, FALSE))
  BY GotoMoves DEF TypeOK, Labels, IInv, Started
<1>2. LockDiscipline' /\ owner' \in Threads \cup {Nobody} /\ depth' \in 0..2
  BY <1>1, LockedMoves, LockedBound, LockLeft DEF Inside, IInv
<1>3. TypeOK'
  BY <1>1, <1>2 DEF TypeOK, IInv
<1>4. Positions'
  BY <1>1, PositionsKept DEF IInv
<1>5. SingleSession' /\ HolderKnows' /\ Drained'
  BY <1>1, SessionsKept
<1>6. GotAddresses'
  BY <1>1, GotKept DEF IInv
<1>7. Restarts'
  BY <1>1, RestartsKept DEF IInv, Positions, Restarts
<1> QED BY <1>2, <1>3, <1>4, <1>5, <1>6, <1>7 DEF IInv

\* The wait loop keeps the mutex until it returns.
LEMMA PollKeeps ==
  ASSUME IInv, NEW t \in Threads, Poll(t)
  PROVE  IInv'
<1> USE ThreadsAssumption DEF Poll, At, Goto, clientVars, threadVars, envVars
<1>1. PICK l \in Labels :
        /\ pc[t] = "wait"
        /\ \/ l = "wait"
           \/ l \in (CASE t = Main -> {"serving", "exited"} [] t = Loop -> {"sleep"} [] OTHER -> {"leave"})
        /\ pc' \in [Threads -> Labels] /\ MovesTo(t, l)
        /\ IF l = "wait" THEN UNCHANGED lockVars ELSE Release
  <2>1. pc[t] = "wait" /\ pc \in [Threads -> Labels]
    BY DEF TypeOK, IInv
  <2>2. CASE hstate[zzh] # "connected" /\ ~(attempts + 1 > MaxPolls)
    BY <2>1, <2>2 DEF MovesTo, Labels
  <2>3. CASE ~(hstate[zzh] # "connected" /\ ~(attempts + 1 > MaxPolls))
    <3>1. PICK ok \in BOOLEAN : pc' = [pc EXCEPT ![t] = Started(t, ok)] /\ Release
      BY <2>3
    <3>2. /\ Started(t, ok) \in Labels \ {"wait"}
          /\ Started(t, ok) \in (CASE t = Main -> {"serving", "exited"} [] t = Loop -> {"sleep"}
                                   [] OTHER -> {"leave"})
      BY DEF Started, Labels
    <3>3. pc' \in [Threads -> Labels] /\ MovesTo(t, Started(t, ok))
      BY <2>1, <3>1, <3>2, GotoMoves
    <3> QED BY <2>1, <3>1, <3>2, <3>3
  <2> QED BY <2>2, <2>3
<1>2. LockDiscipline' /\ owner' \in Threads \cup {Nobody} /\ depth' \in 0..2
  <2>1. CASE l = "wait"
    BY <1>1, <2>1, LockedMoves, LockKept DEF Inside, IInv, TypeOK, lockVars
  <2>2. CASE l # "wait"
    <3>1. l \notin Inside
      BY <1>1, <2>2 DEF Inside
    <3> QED BY <1>1, <2>2, <3>1, LockedMoves, LockedBound, LockLeft DEF Inside, IInv
  <2> QED BY <2>1, <2>2
<1>3. TypeOK'
  <2>1. attempts' \in Nat
    BY DEF TypeOK, IInv
  <2> QED BY <1>1, <1>2, <2>1 DEF TypeOK, IInv
<1>4. Positions'
  BY <1>1, PositionsKept DEF IInv
<1>5. SingleSession' /\ HolderKnows' /\ Drained'
  BY <1>1, SessionsKept
<1>6. GotAddresses'
  BY <1>1, GotKept DEF IInv
<1>7. Restarts'
  BY <1>1, RestartsKept DEF IInv, Positions, Restarts
<1> QED BY <1>2, <1>3, <1>4, <1>5, <1>6, <1>7 DEF IInv

\* zookeeper_close is called with the mutex, on the open handle.
LEMMA FinalizeKeeps ==
  ASSUME IInv, NEW t \in Closers, Finalize(t)
  PROVE  IInv'
<1> USE ThreadsAssumption DEF IInv, At, Finalize, Finalized, Goto, Closers, lockVars, clientVars, threadVars, envVars
<1>1. LockDiscipline' /\ owner' \in Threads \cup {Nobody} /\ depth' \in 0..2
  <2>1. CASE zzh = Nobody
    <3>1. \A u \in Threads : Locked(u)' = Locked(u)
      BY <2>1 DEF Locked, InZkWatcher, Inside, TypeOK, Threads
    <3> QED BY <2>1, <3>1, LockKept DEF TypeOK
  <2>2. CASE zzh # Nobody
    <3>1. \A u \in Threads \ {t} : Locked(u)' = Locked(u)
      BY <2>2 DEF Locked, InZkWatcher, Inside, TypeOK
    <3>2. Locked(t)' = Locked(t) + 1
      BY <2>2 DEF Locked, InZkWatcher, Inside, TypeOK, Threads
    <3> QED BY <2>2, <3>1, <3>2, LockTaken DEF Threads
  <2> QED BY <2>1, <2>2
<1>2. TypeOK'
  <2>1. pc' \in [Threads -> Labels]
    BY DEF TypeOK, Labels, Threads
  <2>2. hstate' \in [Handles -> HStates]
    BY DEF TypeOK, HStates, Open
  <2> QED BY <1>1, <2>1, <2>2 DEF TypeOK
<1>3. Positions'
  BY DEF TypeOK, Positions, Threads, Closers
<1>4. SingleSession' /\ HolderKnows' /\ Drained'
  <2>1. CASE zzh = Nobody
    <3>1. t \in Threads /\ pc[t] = "stop" /\ Finalized(t) \in {"exited", "start"}
      BY DEF Threads
    <3>2. MovesTo(t, Finalized(t))
      BY <2>1, <3>1, GotoMoves DEF TypeOK, Labels
    <3> QED BY <2>1, <3>1, <3>2, SessionsKept
  <2>2. CASE zzh # Nobody
    <3>1. \A u \in Threads \ {t} : pc'[u] = pc[u] /\ pc[u] \notin Inside
      <4>1. \A u \in Threads : Locked(u) \in 0..2 /\ (pc[u] \in Inside => Locked(u) > 0)
        BY LockedBound
      <4>2. owner \in {Nobody, t} /\ zzh \in Handles
        BY <2>2 DEF Acquire, TypeOK
      <4> QED BY <2>2, <4>1, <4>2 DEF LockDiscipline, TypeOK
    <3>2. pc'[t] = "join" /\ zzh' = zzh /\ zzh \in Handles /\ hstate'[zzh] = "closing"
      BY <2>2 DEF TypeOK, Threads
    <3>3. HolderKnows'
      BY <3>1, <3>2 DEF HolderKnows, Inside, Threads
    <3>4. SingleSession'
      BY <2>2, <3>2 DEF TypeOK, SingleSession, Open
    <3>5. Drained'
      BY <2>2, <3>2 DEF TypeOK, Drained, Threads
    <3> QED BY <3>3, <3>4, <3>5
  <2> QED BY <2>1, <2>2
<1>5. GotAddresses'
  <2>1. \A u \in Threads : pc'[u] = "assign" => pc[u] = "assign"
    BY DEF TypeOK, Threads
  <2> QED BY <2>1 DEF GotAddresses, AddressesIn
<1>6. Restarts'
  BY HolderAlone DEF TypeOK, Restarts, Closers, Threads, Positions, Inside
<1> QED BY <1>1, <1>2, <1>3, <1>4, <1>5, <1>6

\* After the join zzh_ is null and the mutex is released.
LEMMA JoinKeeps ==
  ASSUME IInv, NEW t \in Closers, Join(t)
  PROVE  IInv'
<1> USE ThreadsAssumption DEF IInv, At, Join, Finalized, Goto, Closers, lockVars, clientVars, threadVars, envVars
<1>0. /\ t \in Threads /\ t \notin Handles /\ pc[t] = "join"
      /\ Finalized(t) = IF t = Main THEN "exited" ELSE "start"
      /\ pc' \in [Threads -> Labels] /\ MovesTo(t, Finalized(t))
  BY GotoMoves DEF TypeOK, Labels, Threads
<1>1. LockDiscipline' /\ owner' \in Threads \cup {Nobody} /\ depth' \in 0..2
  <2>1. \A u \in Threads \ {t} : Locked(u)' = Locked(u)
    BY <1>0, LockedMoves
  <2>2. pc[t] \in Inside /\ Finalized(t) \notin Inside
    BY <1>0 DEF Inside
  <2>3. Locked(t)' = Locked(t) - 1 /\ Locked(t) > 0
    BY <1>0, <2>2, LockedMoves, LockedBound
  <2> QED BY <1>0, <2>1, <2>3, LockLeft
<1>2. TypeOK'
  BY <1>0, <1>1 DEF TypeOK
<1>3. Positions'
  BY <1>0, PositionsKept
<1>4. SingleSession' /\ HolderKnows' /\ Drained'
  <2>1. \A u \in Threads \ {t} : pc'[u] = pc[u] /\ pc[u] \notin Inside
    BY <1>0, HolderAlone DEF MovesTo, Inside
  <2>2. zzh \in Handles /\ hstate[zzh] = "closed" /\ zzh' = Nobody
    BY <1>0 DEF HolderKnows
  <2>3. SingleSession'
    BY <2>2 DEF SingleSession, Open
  <2>4. HolderKnows'
    BY <1>0, <2>1, <2>2 DEF HolderKnows, MovesTo, Inside
  <2>5. Drained'
    BY <1>0 DEF Drained, MovesTo, Threads
  <2> QED BY <2>3, <2>4, <2>5
<1>5. GotAddresses'
  BY <1>0, GotKept
<1>6. Restarts'
  <2>1. \A u \in Threads : pc'[u] # "init"
    BY <1>0, HolderAlone DEF MovesTo, Inside
  <2>2. pc'[Main] \in {"start", "init", "wait"} => pc'[Loop] = "sleep"
    <3>1. CASE t = Main
      BY <1>0, <3>1 DEF MovesTo
    <3>2. CASE t = Loop
      BY <1>0, <3>2 DEF MovesTo, Restarts, Threads
    <3> QED BY <3>1, <3>2
  <2> QED BY <2>1, <2>2 DEF Restarts
<1> QED BY <1>1, <1>2, <1>3, <1>4, <1>5, <1>6

\* Loop wakes up without the mutex.
LEMMA WakeKeeps ==
  ASSUME IInv, Wake
  PROVE  IInv'
<1> USE ThreadsAssumption DEF Wake, At, Goto, lockVars, clientVars, threadVars, envVars
<1> DEFINE t == Loop
<1>1. PICK l \in {"update", "stop"} :
        /\ t \in Threads /\ t # Main /\ pc[t] = "sleep"
        /\ pc' \in [Threads -> Labels] /\ MovesTo(t, l)
  <2>1. PICK l \in {"update", "stop"} : pc' = [pc EXCEPT ![t] = l]
    OBVIOUS
  <2>2. t \in Threads /\ t # Main /\ pc[t] = "sleep" /\ l \in Labels /\ pc \in [Threads -> Labels]
    BY DEF Threads, TypeOK, IInv, Labels
  <2> QED BY <2>1, <2>2, GotoMoves
<1>2. LockDiscipline' /\ owner' \in Threads \cup {Nobody} /\ depth' \in 0..2
  <2>1. pc[t] \notin Inside /\ l \notin Inside
    BY <1>1 DEF Inside
  <2>2. \A u \in Threads : Locked(u)' = Locked(u)
    BY <1>1, <2>1, LockedMoves
  <2> QED BY <2>2, LockKept DEF IInv, TypeOK
<1>3. TypeOK'
  BY <1>1, <1>2 DEF TypeOK, IInv
<1>4. Positions'
  BY <1>1, PositionsKept DEF IInv
<1>5. SingleSession' /\ HolderKnows' /\ Drained'
  BY <1>1, SessionsKept
<1>6. GotAddresses'
  BY <1>1, GotKept DEF IInv
<1>7. Restarts'
  BY <1>1, RestartsKept DEF IInv, Positions, Restarts
<1> QED BY <1>2, <1>3, <1>4, <1>5, <1>6, <1>7 DEF IInv

\* Main leaves the server loop.
LEMMA ShutdownKeeps ==
  ASSUME IInv, Shutdown
  PROVE  IInv'
<1> USE ThreadsAssumption DEF Shutdown, At, Goto, lockVars, clientVars, threadVars, envVars
<1> DEFINE t == Main
<1>1. /\ t \in Threads /\ t # Loop /\ pc[t] = "serving"
      /\ pc' \in [Threads -> Labels] /\ MovesTo(t, "stop")
  BY GotoMoves DEF TypeOK, Labels, Threads, IInv
<1>2. LockDiscipline' /\ owner' \in Threads \cup {Nobody} /\ depth' \in 0..2
  <2>1. pc[t] \notin Inside /\ "stop" \notin Inside
    BY <1>1 DEF Inside
  <2>2. \A u \in Threads : Locked(u)' = Locked(u)
    BY <1>1, <2>1, LockedMoves
  <2> QED BY <2>2, LockKept DEF IInv, TypeOK
<1>3. TypeOK'
  BY <1>1, <1>2 DEF TypeOK, IInv
<1>4. Positions'
  BY <1>1, PositionsKept DEF IInv
<1>5. SingleSession' /\ HolderKnows' /\ Drained'
  BY <1>1, SessionsKept
<1>6. GotAddresses'
  BY <1>1, GotKept DEF IInv
<1>7. Restarts'
  BY <1>1, RestartsKept DEF IInv, Positions, Restarts
<1> QED BY <1>2, <1>3, <1>4, <1>5, <1>6, <1>7 DEF IInv

\* The completion thread takes the next event.
LEMMA DequeueKeeps ==
  ASSUME IInv, NEW h \in Handles, Dequeue(h)
  PROVE  IInv'
<1> USE ThreadsAssumption DEF IInv, At, Dequeue, lockVars, clientVars, threadVars, envVars
<1>1. LockDiscipline' /\ owner' \in Threads \cup {Nobody} /\ depth' \in 0..2
  <2>1. \A u \in Threads : Locked(u)' = Locked(u)
    BY DEF Locked, InZkWatcher, Inside, TypeOK, Positions, Threads, Closers, SessionCalls
  <2> QED BY <2>1, LockKept DEF TypeOK, LockDiscipline
<1>2. TypeOK'
  <2>1. Head(events[h]) \in (SUBSET Calls) \ {{}} /\ Tail(events[h]) \in Seq((SUBSET Calls) \ {{}})
    <3>1. events[h] \in Seq((SUBSET Calls) \ {{}})
      BY DEF TypeOK
    <3> QED BY <3>1, HeadTailProperties
  <2>2. todo' \in [Handles -> SUBSET Calls]
    BY <2>1 DEF TypeOK
  <2>3. events' \in [Handles -> Seq((SUBSET Calls) \ {{}})]
    BY <2>1 DEF TypeOK
  <2> QED BY <1>1, <2>1, <2>2, <2>3 DEF TypeOK
<1>3. Positions'
  BY DEF TypeOK, Positions, Threads, Closers
<1>4. SingleSession' /\ HolderKnows' /\ Drained'
  <2>1. hstate[h] # "closed"
    BY DEF Drained
  <2>2. \A u \in Handles \ {h} : todo'[u] = todo[u] /\ events'[u] = events[u]
    BY DEF TypeOK
  <2>3. SingleSession' /\ HolderKnows'
    BY DEF SingleSession, HolderKnows
  <2>4. Drained'
    BY <2>1, <2>2 DEF Drained
  <2> QED BY <2>3, <2>4
<1>5. GotAddresses'
  BY DEF TypeOK, GotAddresses, AddressesIn, Threads
<1>6. Restarts'
  BY HolderAlone DEF TypeOK, Restarts, Closers, Threads, Positions, Inside
<1> QED BY <1>1, <1>2, <1>3, <1>4, <1>5, <1>6

\* tgpChildrenWatcher starts without the mutex.
LEMMA CallChildrenWatcherKeeps ==
  ASSUME IInv, NEW h \in Handles, CallChildrenWatcher(h)
  PROVE  IInv'
<1> USE ThreadsAssumption DEF IInv, At, CallChildrenWatcher, Goto, lockVars, clientVars, threadVars, envVars
<1>0. /\ h \in Threads /\ h \notin Closers /\ pc[h] = "idle" /\ todo[h] # {}
      /\ pc' \in [Threads -> Labels] /\ MovesTo(h, "update")
  BY GotoMoves DEF TypeOK, Labels, Threads, Closers
<1>1. LockDiscipline' /\ owner' \in Threads \cup {Nobody} /\ depth' \in 0..2
  <2>1. \A u \in Threads : Locked(u)' = Locked(u)
    BY DEF Locked, InZkWatcher, Inside, TypeOK, Positions, Threads, Closers, SessionCalls
  <2> QED BY <2>1, LockKept DEF TypeOK, LockDiscipline
<1>2. TypeOK'
  <2>1. pc' \in [Threads -> Labels]
    BY <1>0
  <2>2. todo' \in [Handles -> SUBSET Calls] /\ cb' \in [Handles -> Calls \cup {"none"}]
    BY DEF TypeOK, Calls
  <2> QED BY <1>1, <2>1, <2>2 DEF TypeOK
<1>3. Positions'
  <2>1. \A u \in Handles : cb'[u] = IF u = h THEN "child" ELSE cb[u]
    BY DEF TypeOK
  <2> QED BY <1>0, <2>1 DEF Positions, MovesTo, Threads, Closers
<1>4. SingleSession' /\ HolderKnows' /\ Drained'
  <2>1. \A u \in Handles : todo[u] = {} => todo'[u] = {}
    BY DEF TypeOK
  <2> QED BY <1>0, <2>1, SessionsKept
<1>5. GotAddresses'
  BY <1>0, GotKept
<1>6. Restarts'
  BY <1>0, RestartsKept DEF Closers
<1> QED BY <1>1, <1>2, <1>3, <1>4, <1>5, <1>6

\* zk_watcher takes the free mutex; on an expired session it closes its own handle.
LEMMA CallZkWatcherKeeps ==
  ASSUME IInv, NEW h \in Handles, NEW s \in SessionCalls, CallZkWatcher(h, s)
  PROVE  IInv'
<1> USE ThreadsAssumption DEF IInv, At, CallZkWatcher, Goto, lockVars, clientVars, threadVars, envVars
<1>0. PICK l \in {"update", "init", "leave"} :
        /\ h \in Threads /\ h \notin Closers /\ pc[h] = "idle" /\ todo[h] # {}
        /\ pc' \in [Threads -> Labels] /\ MovesTo(h, l) /\ (l = "init" <=> h = zzh /\ s = "expired")
        /\ zzh' = (IF l = "init" THEN Nobody ELSE zzh)
        /\ hstate' = (IF l = "init" THEN [hstate EXCEPT ![h] = "closing"] ELSE hstate)
  <2>1. PICK l \in {"update", "init", "leave"} :
          /\ pc' = [pc EXCEPT ![h] = l] /\ (l = "init" <=> h = zzh /\ s = "expired")
          /\ zzh' = (IF l = "init" THEN Nobody ELSE zzh)
          /\ hstate' = (IF l = "init" THEN [hstate EXCEPT ![h] = "closing"] ELSE hstate)
    OBVIOUS
  <2>2. h \in Threads /\ h \notin Closers /\ l \in Labels /\ pc \in [Threads -> Labels]
    BY DEF Threads, Closers, Labels, TypeOK
  <2> QED BY <2>1, <2>2, GotoMoves
<1>1. LockDiscipline' /\ owner' \in Threads \cup {Nobody} /\ depth' \in 0..2
  <2>1. \A u \in Threads \ {h} : Locked(u)' = Locked(u)
    BY DEF Locked, InZkWatcher, Inside, TypeOK
  <2>2. \A u \in Threads : Locked(u) \in 0..2 /\ ~(Locked(u) > 0)
    BY LockedBound DEF LockDiscipline
  <2>3. owner' = h /\ h \in Threads /\ cb'[h] = s
    BY DEF TypeOK, Threads
  <2>4. depth' = Locked(h)' /\ depth' \in 1..2
    BY <2>3 DEF Locked, InZkWatcher, Inside, TypeOK
  <2> QED BY <2>1, <2>2, <2>3, <2>4 DEF LockDiscipline
<1>2. TypeOK'
  <2>1. pc' \in [Threads -> Labels]
    BY <1>0
  <2>2. todo' \in [Handles -> SUBSET Calls] /\ cb' \in [Handles -> Calls \cup {"none"}]
    BY DEF TypeOK, Calls
  <2>3. zzh' \in Handles \cup {Nobody} /\ hstate' \in [Handles -> HStates]
    BY DEF TypeOK, HStates
  <2> QED BY <1>1, <2>1, <2>2, <2>3 DEF TypeOK
<1>3. Positions'
  <2>1. s \in {"connected", "connecting", "expired"}
    BY DEF SessionCalls
  <2>2. pc'[h] \in {"update", "init", "leave"} /\ (pc'[h] = "init" => s = "expired")
    BY <1>0 DEF MovesTo
  <2>3. cb'[h] = s /\ \A u \in Handles \ {h} : pc'[u] = pc[u] /\ cb'[u] = cb[u]
    <3>1. \A u \in Handles : cb'[u] = IF u = h THEN s ELSE cb[u]
      BY DEF TypeOK
    <3> QED BY <1>0, <3>1 DEF MovesTo, Threads
  <2>4. pc'[Main] = pc[Main] /\ pc'[Loop] = pc[Loop]
    BY <1>0 DEF MovesTo, Threads
  <2> QED BY <2>1, <2>2, <2>3, <2>4 DEF Positions
<1>4. SingleSession' /\ HolderKnows' /\ Drained'
  <2>1. \A u \in Threads : pc[u] \notin Inside
    BY LockedBound DEF LockDiscipline
  <2>2. \A u \in Threads \ {h} : pc'[u] = pc[u]
    BY DEF TypeOK
  <2>3. h \in Threads /\ hstate[h] # "closed"
    BY DEF Drained, Threads
  <2>4. \A u \in Handles \ {h} : todo'[u] = todo[u] /\ events'[u] = events[u]
    BY DEF TypeOK
  <2>5. CASE h = zzh /\ s = "expired"
    <3>1. pc'[h] = "init" /\ zzh' = Nobody /\ hstate' = [hstate EXCEPT ![h] = "closing"]
      BY <1>0, <2>5 DEF MovesTo
    <3>2. SingleSession'
      BY <2>5, <3>1 DEF TypeOK, SingleSession, Open
    <3>3. HolderKnows'
      BY <2>1, <2>2, <3>1 DEF HolderKnows, Inside
    <3>4. \A u \in Handles : hstate'[u] = "closed" => u # h /\ hstate[u] = "closed"
      BY <3>1 DEF TypeOK
    <3>5. Drained'
      BY <2>2, <2>4, <3>4 DEF Drained, Threads
    <3> QED BY <3>2, <3>3, <3>5
  <2>6. CASE ~(h = zzh /\ s = "expired")
    <3>1. pc'[h] \in {"update", "leave"} /\ UNCHANGED <<zzh, hstate>>
      BY <1>0, <2>6 DEF MovesTo
    <3>2. SingleSession'
      BY <2>1, <2>2, <3>1 DEF SingleSession, Inside, Closers, Threads
    <3>3. HolderKnows'
      BY <2>1, <2>2, <3>1 DEF HolderKnows, Inside
    <3>4. Drained'
      BY <2>2, <2>3, <2>4, <3>1 DEF Drained, Threads
    <3> QED BY <3>2, <3>3, <3>4
  <2> QED BY <2>5, <2>6
<1>5. GotAddresses'
  BY <1>0, GotKept
<1>6. Restarts'
  <2>1. \A t \in Closers : pc'[t] = pc[t]
    BY <1>0 DEF MovesTo, Closers, Threads
  <2>2. Main \in Closers /\ Loop \in Closers
    BY DEF Closers
  <2>3. CASE l # "init"
    <3>1. \A u \in Threads : pc'[u] = "init" => pc[u] = "init"
      BY <1>0, <2>3 DEF MovesTo
    <3> QED BY <1>0, <2>1, <2>2, <2>3, <3>1 DEF Restarts
  <2>4. CASE l = "init"
    <3>1. zzh # Nobody
      BY <1>0, <2>4
    <3> QED BY <2>1, <2>2, <3>1 DEF Restarts
  <2> QED BY <2>3, <2>4
<1> QED BY <1>1, <1>2, <1>3, <1>4, <1>5, <1>6

\* Only zk_watcher has a lock_guard to leave.
LEMMA LeaveWatcherKeeps ==
  ASSUME IInv, NEW h \in Handles, LeaveWatcher(h)
  PROVE  IInv'
<1> USE ThreadsAssumption DEF IInv, At, LeaveWatcher, Goto, lockVars, clientVars, threadVars, envVars
<1>0. /\ h \in Threads /\ h \notin Closers /\ pc[h] = "leave"
      /\ pc' \in [Threads -> Labels] /\ MovesTo(h, "idle")
  BY GotoMoves DEF TypeOK, Labels, Threads, Closers
<1>1. LockDiscipline' /\ owner' \in Threads \cup {Nobody} /\ depth' \in 0..2
  <2>1. \A u \in Threads \ {h} : Locked(u)' = Locked(u)
    BY DEF Locked, InZkWatcher, Inside, TypeOK
  <2>2. h \in Threads /\ cb[h] \in Calls
    BY DEF TypeOK, Positions, Threads
  <2>3. CASE cb[h] = "child"
    <3>1. \A u \in Threads : Locked(u)' = Locked(u)
      BY <2>1, <2>3 DEF Locked, InZkWatcher, Inside, TypeOK, SessionCalls
    <3> QED BY <2>3, <3>1, LockKept DEF TypeOK
  <2>4. CASE cb[h] # "child"
    <3>1. Locked(h)' = Locked(h) - 1 /\ Locked(h) > 0
      BY <2>2, <2>4 DEF Locked, InZkWatcher, Inside, TypeOK, SessionCalls, Calls
    <3> QED BY <2>1, <2>2, <2>4, <3>1, LockLeft
  <2> QED BY <2>3, <2>4
<1>2. TypeOK'
  <2>1. pc' \in [Threads -> Labels]
    BY <1>0
  <2>2. cb' \in [Handles -> Calls \cup {"none"}]
    BY DEF TypeOK, Calls
  <2> QED BY <1>1, <2>1, <2>2 DEF TypeOK
<1>3. Positions'
  <2>1. \A u \in Handles : cb'[u] = IF u = h THEN "none" ELSE cb[u]
    BY DEF TypeOK
  <2> QED BY <1>0, <2>1 DEF Positions, MovesTo, Threads, Closers
<1>4. SingleSession' /\ HolderKnows' /\ Drained'
  BY <1>0, SessionsKept
<1>5. GotAddresses'
  BY <1>0, GotKept
<1>6. Restarts'
  BY <1>0, RestartsKept DEF Closers
<1> QED BY <1>1, <1>2, <1>3, <1>4, <1>5, <1>6

\* A completion thread ends with an empty queue.
LEMMA ThreadExitsKeeps ==
  ASSUME IInv, NEW h \in Handles, ThreadExits(h)
  PROVE  IInv'
<1> USE ThreadsAssumption DEF IInv, At, ThreadExits, lockVars, clientVars, threadVars, envVars
<1>1. LockDiscipline' /\ owner' \in Threads \cup {Nobody} /\ depth' \in 0..2
  <2>1. \A u \in Threads : Locked(u)' = Locked(u)
    BY DEF Locked, InZkWatcher, Inside, TypeOK, Positions, Threads, Closers, SessionCalls
  <2> QED BY <2>1, LockKept DEF TypeOK, LockDiscipline
<1>2. TypeOK'
  <2>1. hstate' \in [Handles -> HStates] /\ watch' \in [Handles -> 0..Len(history)]
    BY DEF TypeOK, HStates, Open
  <2> QED BY <1>1, <2>1 DEF TypeOK
<1>3. Positions'
  BY DEF TypeOK, Positions, Threads, Closers
<1>4. SingleSession' /\ HolderKnows' /\ Drained'
  <2>1. \A u \in Handles : hstate'[u] = IF u = h THEN "closed" ELSE hstate[u]
    BY DEF TypeOK
  <2>2. SingleSession'
    BY <2>1 DEF SingleSession, TypeOK, Open
  <2>3. HolderKnows'
    BY <2>1 DEF HolderKnows, Open
  <2>4. Drained'
    BY <2>1 DEF Drained
  <2> QED BY <2>2, <2>3, <2>4
<1>5. GotAddresses'
  BY DEF TypeOK, GotAddresses, AddressesIn, Threads
<1>6. Restarts'
  BY HolderAlone DEF TypeOK, Restarts, Closers, Threads, Positions, Inside
<1> QED BY <1>1, <1>2, <1>3, <1>4, <1>5, <1>6

\* A connection is made.
LEMMA ConnectKeeps ==
  ASSUME IInv, NEW h \in Handles, Connect(h)
  PROVE  IInv'
<1> USE DEF Connect, SessionEvent, lockVars, threadVars, envVars
<1>1. TypeOK'
  <2>1. hstate' \in [Handles -> HStates]
    BY DEF TypeOK, IInv, HStates, Open
  <2>2. events' \in [Handles -> Seq((SUBSET Calls) \ {{}})]
    BY DEF TypeOK, IInv, Calls, SessionCalls
  <2> QED BY <2>1, <2>2 DEF TypeOK, IInv
<1>2. \A u \in Handles :
        \/ hstate'[u] = hstate[u] /\ (hstate[u] = "closed" => events'[u] = events[u])
        \/ hstate[u] \in Open /\ hstate'[u] \in Open
  BY DEF TypeOK, IInv, Open
<1>3. \A i \in 1..Len(history) : history'[i] = history[i]
  OBVIOUS
<1> QED BY <1>1, <1>2, <1>3, ThreadsKept DEF IInv

\* A connection is lost.
LEMMA DisconnectKeeps ==
  ASSUME IInv, NEW h \in Handles, Disconnect(h)
  PROVE  IInv'
<1> USE DEF Disconnect, SessionEvent, lockVars, threadVars, envVars
<1>1. TypeOK'
  <2>1. hstate' \in [Handles -> HStates]
    BY DEF TypeOK, IInv, HStates, Open
  <2>2. events' \in [Handles -> Seq((SUBSET Calls) \ {{}})]
    BY DEF TypeOK, IInv, Calls, SessionCalls
  <2> QED BY <2>1, <2>2 DEF TypeOK, IInv
<1>2. \A u \in Handles :
        \/ hstate'[u] = hstate[u] /\ (hstate[u] = "closed" => events'[u] = events[u])
        \/ hstate[u] \in Open /\ hstate'[u] \in Open
  BY DEF TypeOK, IInv, Open
<1>3. \A i \in 1..Len(history) : history'[i] = history[i]
  OBVIOUS
<1> QED BY <1>1, <1>2, <1>3, ThreadsKept DEF IInv

\* A session expires.
LEMMA ExpireKeeps ==
  ASSUME IInv, NEW h \in Handles, Expire(h)
  PROVE  IInv'
<1> USE DEF Expire, SessionEvent, lockVars, threadVars, envVars
<1>1. TypeOK'
  <2>1. hstate' \in [Handles -> HStates]
    BY DEF TypeOK, IInv, HStates, Open
  <2>2. events' \in [Handles -> Seq((SUBSET Calls) \ {{}})]
    BY DEF TypeOK, IInv, Calls, SessionCalls
  <2> QED BY <2>1, <2>2 DEF TypeOK, IInv
<1>2. \A u \in Handles :
        \/ hstate'[u] = hstate[u] /\ (hstate[u] = "closed" => events'[u] = events[u])
        \/ hstate[u] \in Open /\ hstate'[u] \in Open
  BY DEF TypeOK, IInv, Open
<1>3. \A i \in 1..Len(history) : history'[i] = history[i]
  OBVIOUS
<1> QED BY <1>1, <1>2, <1>3, ThreadsKept DEF IInv

\* The child watch fires.
LEMMA NotifyKeeps ==
  ASSUME IInv, NEW h \in Handles, Notify(h)
  PROVE  IInv'
<1> USE DEF Notify, lockVars, threadVars, envVars
<1>1. TypeOK'
  <2>1. events' \in [Handles -> Seq((SUBSET Calls) \ {{}})]
    BY DEF TypeOK, IInv, Calls, SessionCalls
  <2>2. watch' \in [Handles -> 0..Len(history)]
    BY DEF TypeOK, IInv
  <2> QED BY <2>1, <2>2 DEF TypeOK, IInv
<1>2. \A u \in Handles :
        \/ hstate'[u] = hstate[u] /\ (hstate[u] = "closed" => events'[u] = events[u])
        \/ hstate[u] \in Open /\ hstate'[u] \in Open
  BY DEF TypeOK, IInv
<1>3. \A i \in 1..Len(history) : history'[i] = history[i]
  OBVIOUS
<1> QED BY <1>1, <1>2, <1>3, ThreadsKept DEF IInv

\* The znode changes; earlier views are kept.
LEMMA PublishKeeps ==
  ASSUME IInv, NEW v \in AllViews, Publish(v)
  PROVE  IInv'
<1> USE DEF Publish, lockVars, clientVars, threadVars
<1>1. TypeOK'
  <2>1. history' \in Seq(Views \cup {NoNode}) /\ Len(history') = Len(history) + 1
    BY DEF TypeOK, IInv, AllViews
  <2>2. 0..Len(history) \subseteq 0..Len(history')
    BY <2>1 DEF TypeOK, IInv
  <2>3. ms_cluster' \in 0..Len(history')
    BY <2>2 DEF TypeOK, IInv
  <2>4. got' \in [Threads -> 0..Len(history')]
    BY <2>2 DEF TypeOK, IInv
  <2>5. watch' \in [Handles -> 0..Len(history')]
    BY <2>2 DEF TypeOK, IInv
  <2>6. Len(history') > 0
    BY <2>1 DEF TypeOK, IInv
  <2> QED BY <2>1, <2>3, <2>4, <2>5, <2>6 DEF TypeOK, IInv
<1>2. \A u \in Handles :
        \/ hstate'[u] = hstate[u] /\ (hstate[u] = "closed" => events'[u] = events[u])
        \/ hstate[u] \in Open /\ hstate'[u] \in Open
  OBVIOUS
<1>3. \A i \in 1..Len(history) : history'[i] = history[i]
  BY DEF TypeOK, IInv
<1> QED BY <1>1, <1>2, <1>3, ThreadsKept DEF IInv

\* The environment calms down.
LEMMA CalmDownKeeps ==
  ASSUME IInv, CalmDown
  PROVE  IInv'
<1> USE DEF CalmDown, lockVars, clientVars, threadVars
<1>1. TypeOK'
  BY DEF TypeOK, IInv
<1>2. \A u \in Handles :
        \/ hstate'[u] = hstate[u] /\ (hstate[u] = "closed" => events'[u] = events[u])
        \/ hstate[u] \in Open /\ hstate'[u] \in Open
  OBVIOUS
<1>3. \A i \in 1..Len(history) : history'[i] = history[i]
  OBVIOUS
<1> QED BY <1>1, <1>2, <1>3, ThreadsKept DEF IInv

\* The constructor, and main before startZkProcess.
LEMMA InitEstablishes == Init => IInv
<1> SUFFICES ASSUME Init PROVE IInv
  OBVIOUS
<1> USE ThreadsAssumption DEF Init, Threads
<1>1. TypeOK
  <2>1. pc \in [Threads -> Labels]
    BY DEF Labels
  <2>2. \A v \in AllViews : <<v>> \in Seq(Views \cup {NoNode}) /\ Len(<<v>>) = 1
    BY DEF AllViews
  <2>3. history \in Seq(Views \cup {NoNode}) /\ Len(history) = 1
    BY <2>2
  <2>4. \A h \in Handles : events[h] \in Seq((SUBSET Calls) \ {{}})
    OBVIOUS
  <2>5. /\ events \in [Handles -> Seq((SUBSET Calls) \ {{}})]
        /\ hstate \in [Handles -> HStates]
    BY <2>4 DEF HStates
  <2>6. 0 \in 0..Len(history) /\ 0 \in 0..2 /\ Len(history) > 0
    BY <2>3
  <2>7. /\ todo \in [Handles -> SUBSET Calls]
        /\ cb \in [Handles -> Calls \cup {"none"}]
        /\ watch \in [Handles -> 0..Len(history)]
        /\ got \in [Threads -> 0..Len(history)]
    BY <2>6
  <2> QED BY <2>1, <2>3, <2>5, <2>6, <2>7 DEF TypeOK
<1>2. Positions
  BY DEF Positions
<1>3. LockDiscipline
  BY DEF LockDiscipline, Locked, InZkWatcher, Inside, SessionCalls
<1>4. SingleSession /\ HolderKnows /\ Drained /\ GotAddresses /\ Restarts
  BY DEF SingleSession, HolderKnows, Drained, GotAddresses, Restarts, Closers, Open
<1> QED BY <1>1, <1>2, <1>3, <1>4 DEF IInv

LEMMA StutterKeeps ==
  ASSUME IInv, UNCHANGED vars
  PROVE  IInv'
<1>1. TypeOK'
  <2>1. UNCHANGED <<pc, owner, depth, attempts, zzh, ms_cluster, got, hstate, events,
                    todo, cb, watch, history, calm, missed>>
    BY DEF vars
  <2> QED BY <2>1 DEF IInv, TypeOK
<1>2. UNCHANGED <<pc, owner, depth, zzh, got, todo, cb, hstate, events, history>>
  BY DEF vars
<1> QED BY <1>1, <1>2, ThreadsKept DEF IInv

\* Every step of every thread and of the environment keeps the invariant.
LEMMA NextKeeps == IInv /\ [Next]_vars => IInv'
<1> SUFFICES ASSUME IInv, [Next]_vars PROVE IInv'
  OBVIOUS
<1>1. ASSUME NEW t \in {Loop} \cup Handles, Update(t) PROVE IInv'
  BY <1>1, GetChildrenKeeps, GetOkKeeps, GetFailsKeeps, GetRetriesKeeps,
     AssignClusterKeeps DEF Update
<1>2. ASSUME NEW t \in Threads, Start(t) PROVE IInv'
  BY <1>2, InitFailsKeeps, PollKeeps, InitHandleKeeps DEF Start
<1>3. ASSUME NEW t \in Closers, Stop(t) PROVE IInv'
  BY <1>3, FinalizeKeeps, JoinKeeps DEF Stop
<1>4. CASE MainStep
  BY <1>2, <1>3, <1>4, StartZkKeeps DEF MainStep, Threads, Closers
<1>5. CASE Shutdown
  BY <1>5, ShutdownKeeps
<1>6. CASE LoopStep
  BY <1>1, <1>2, <1>3, <1>6, WakeKeeps, StartZkKeeps DEF LoopStep, Threads, Closers
<1>7. ASSUME NEW h \in Handles, CompletionStep(h) PROVE IInv'
  BY <1>1, <1>2, <1>7, DequeueKeeps, CallChildrenWatcherKeeps, LeaveWatcherKeeps,
     CallZkWatcherKeeps, ThreadExitsKeeps DEF CompletionStep, Threads
<1>8. CASE Environment
  BY <1>8, ConnectKeeps, DisconnectKeeps, ExpireKeeps, NotifyKeeps, PublishKeeps,
     CalmDownKeeps DEF Environment
<1>9. CASE UNCHANGED vars
  BY <1>9, StutterKeeps
<1> QED BY <1>4, <1>5, <1>6, <1>7, <1>8, <1>9 DEF Next, Exited

\* The inductive invariant holds in every reachable state.
THEOREM InvariantHolds == Spec => []IInv
BY InitEstablishes, NextKeeps, PTL DEF Spec

\* Type correctness, in particular a recursion depth of zk_.mtx_ of at most 2.
THEOREM TypeCorrect == Spec => []TypeOK
<1>1. IInv => TypeOK
  BY DEF IInv
<1> QED BY <1>1, InvariantHolds, PTL

\* zk_.mtx_ is held by the thread whose position in the code says so, exactly as
\* deep as its lock_guards nest (ZK::mtx_ and everything that locks it).
THEOREM LockIsDisciplined == Spec => []LockDiscipline
<1>1. IInv => LockDiscipline
  BY DEF IInv
<1> QED BY <1>1, InvariantHolds, PTL

\* start_zk, finalize_zk and zk_watcher never leak a session nor use a closed one.
THEOREM OneSession == Spec => []SingleSession
<1>1. IInv => SingleSession
  BY DEF IInv
<1> QED BY <1>1, InvariantHolds, PTL

\* The loop and main never find a handle when they start the client: nobody else
\* opened one since they closed theirs (loopUpdateModelServerList).
THEOREM RestartsClean == Spec => []RestartFindsNoHandle
<1>1. IInv => RestartFindsNoHandle
  BY DEF IInv, Restarts, RestartFindsNoHandle
<1> QED BY <1>1, InvariantHolds, PTL

-----------------------------------------------------------------------------
(* The deadlock of zookeeper_close is permanent.                           *)

\* Who is in the deadlock: a closer c that owns the mutex, and a completion
\* thread that is neither finished nor able to lock it.
LEMMA StuckMeans ==
  ASSUME IInv, Stuck, NEW c \in Closers, pc[c] = "join"
  PROVE  /\ c \in Threads /\ c \notin Handles
         /\ owner = c /\ owner # Nobody
         /\ \A t \in Threads \ {c} : pc[t] \notin Inside
         /\ zzh \in Handles /\ zzh # Nobody /\ hstate[zzh] = "closing"
<1>1. c \in Threads /\ c \notin Handles /\ c # Nobody
  BY ThreadsAssumption DEF Threads, Closers
<1>2. owner = c /\ \A t \in Threads \ {c} : pc[t] \notin Inside
  BY <1>1, HolderAlone DEF IInv, Inside
<1>3. zzh \in Handles /\ zzh # Nobody /\ hstate[zzh] \in {"closing", "closed"}
  BY <1>1, ThreadsAssumption DEF IInv, HolderKnows, Threads
<1>4. hstate[zzh] # "closed"
  BY <1>3 DEF IInv, Drained, Stuck
<1> QED BY <1>1, <1>2, <1>3, <1>4

LEMMA StuckStays ==
  ASSUME IInv, Stuck, [Next]_vars
  PROVE  Stuck'
<1>1. PICK c \in Closers : pc[c] = "join"
  BY DEF Stuck
<1>2. /\ c \in Threads /\ c \notin Handles
      /\ owner = c /\ owner # Nobody
      /\ \A t \in Threads \ {c} : pc[t] \notin Inside
      /\ zzh \in Handles /\ zzh # Nobody /\ hstate[zzh] = "closing"
  BY <1>1, StuckMeans
<1> DEFINE Pending == pc[zzh] = "update" \/ todo[zzh] # {} \/ events[zzh] # <<>>
<1>3. Pending
  BY DEF Stuck
<1>4. ASSUME zzh' = zzh, pc'[c] = "join", Pending' PROVE Stuck'
  BY <1>2, <1>4 DEF Stuck
<1> HIDE DEF Pending
\* A step of a thread that needs the mutex, or already is inside: impossible.
<1>5. ASSUME NEW t \in {Loop} \cup Handles, Update(t) PROVE Stuck'
  <2>1. t \in Threads /\ pc[t] \in {"update", "calling", "assign"}
    BY <1>5 DEF Update, At, GetChildren, GetOk, GetFails, GetRetries, AssignCluster, Threads
  <2>2. t # c /\ pc[t] # "calling"
    BY <1>1, <1>2, <2>1 DEF Inside
  <2>3. CASE AssignCluster(t)
    <3>1. zzh' = zzh /\ pc' = [pc EXCEPT ![t] = Updated(t)] /\ pc[t] = "assign"
          /\ UNCHANGED <<todo, events>>
      BY <2>3 DEF AssignCluster, At, Goto, clientVars, threadVars
    <3>2. pc'[c] = "join" /\ Pending'
      BY <1>1, <1>2, <1>3, <2>1, <2>2, <3>1 DEF Pending, IInv, TypeOK
    <3> QED BY <1>4, <3>1, <3>2
  <2>4. CASE GetChildren(t)
    BY <1>2, <2>2, <2>4 DEF GetChildren, At, Acquire
  <2> QED BY <1>5, <2>2, <2>3, <2>4 DEF Update, At, GetOk, GetFails, GetRetries
<1>6. ASSUME NEW t \in Threads, Start(t) \/ StartZk(t) PROVE FALSE
  <2>1. pc[t] \in {"start", "init", "wait"}
    BY <1>6 DEF Start, At, StartZk, InitFails, Poll, InitHandle
  <2>2. t # c /\ pc[t] = "start"
    BY <1>1, <1>2, <2>1 DEF Inside
  <2> QED BY <1>2, <1>6, <2>2 DEF Start, At, StartZk, InitFails, Poll, InitHandle
<1>7. ASSUME NEW t \in Closers, Stop(t) PROVE FALSE
  <2>1. t \in Threads /\ pc[t] \in {"stop", "join"}
    BY <1>7 DEF Stop, At, Finalize, Join, Threads, Closers
  <2>2. CASE Finalize(t)
    BY <1>1, <1>2, <2>1, <2>2 DEF Finalize, At, Acquire
  <2>3. CASE Join(t)
    BY <1>2, <2>3 DEF Join
  <2> QED BY <1>7, <2>2, <2>3 DEF Stop
\* The remaining steps leave the pending work of the completion thread.
<1>8. CASE Shutdown
  <2>1. zzh' = zzh /\ pc' = [pc EXCEPT ![Main] = "stop"] /\ pc[Main] = "serving"
        /\ UNCHANGED <<todo, events>>
    BY <1>8 DEF Shutdown, At, Goto, clientVars, threadVars
  <2>2. Main # c /\ Main # zzh
    BY <1>1, <1>2, <2>1, ThreadsAssumption DEF Threads
  <2>3. pc'[c] = "join" /\ Pending'
    BY <1>1, <1>2, <1>3, <2>1, <2>2 DEF Pending, IInv, TypeOK, Threads
  <2> QED BY <1>4, <2>1, <2>3
<1>9. ASSUME NEW h \in Handles, CompletionStep(h) PROVE Stuck'
  <2>1. h \in Threads /\ h # c /\ pc[h] \notin Inside
    BY <1>2 DEF Threads
  <2>2. CASE Dequeue(h)
    <3>1. Head(events[h]) # {}
      <4>1. events[h] \in Seq((SUBSET Calls) \ {{}}) /\ events[h] # <<>>
        BY <2>2 DEF Dequeue, At, IInv, TypeOK
      <4> QED BY <4>1, HeadTailProperties
    <3>2. zzh' = zzh /\ UNCHANGED pc /\ todo'[h] # {}
          /\ \A g \in Handles \ {h} : todo'[g] = todo[g] /\ events'[g] = events[g]
      BY <2>2, <3>1 DEF Dequeue, At, IInv, TypeOK
    <3>3. Pending'
      BY <1>2, <1>3, <3>2 DEF Pending
    <3> QED BY <1>1, <1>4, <3>2, <3>3
  <2>3. CASE CallChildrenWatcher(h)
    <3>1. zzh' = zzh /\ pc'[h] = "update" /\ pc'[c] = pc[c] /\ UNCHANGED events
          /\ \A g \in Handles \ {h} : pc'[g] = pc[g] /\ todo'[g] = todo[g]
      BY <1>2, <2>1, <2>3
      DEF CallChildrenWatcher, At, Goto, clientVars, IInv, TypeOK, Threads
    <3>2. Pending'
      BY <1>2, <1>3, <3>1 DEF Pending
    <3> QED BY <1>1, <1>4, <3>1, <3>2
  <2>4. CASE LeaveWatcher(h)
    <3>1. zzh' = zzh /\ pc' = [pc EXCEPT ![h] = "idle"] /\ pc[h] = "leave"
          /\ UNCHANGED <<todo, events>>
      BY <2>4 DEF LeaveWatcher, At, Goto, clientVars
    <3>2. pc'[c] = "join" /\ Pending'
      BY <1>1, <1>2, <1>3, <2>1, <3>1 DEF Pending, IInv, TypeOK
    <3> QED BY <1>4, <3>1, <3>2
  <2>5. ASSUME NEW s \in SessionCalls, CallZkWatcher(h, s) PROVE FALSE
    BY <1>2, <2>5 DEF CallZkWatcher
  <2>6. CASE ThreadExits(h)
    <3>1. h # zzh /\ UNCHANGED <<zzh, pc, todo, events>>
      BY <1>2, <1>3, <2>6 DEF ThreadExits, At, Pending, threadVars
    <3> QED BY <1>1, <1>3, <1>4, <3>1 DEF Pending
  <2> QED BY <1>5, <1>6, <1>9, <2>1, <2>2, <2>3, <2>4, <2>5, <2>6 DEF CompletionStep
<1>10. CASE Environment
  <2>1. UNCHANGED <<zzh, pc, todo>>
    BY <1>10 DEF Environment, Connect, Disconnect, Expire, Notify, Publish, CalmDown,
       threadVars
  <2>2. events[zzh] # <<>> => events'[zzh] # <<>>
    <3>1. events[zzh] \in Seq((SUBSET Calls) \ {{}})
      BY <1>2 DEF IInv, TypeOK
    <3>2. \A e : Append(events[zzh], e) # <<>>
      BY <3>1
    <3>3. ASSUME NEW h \in Handles, NEW e, events' = [events EXCEPT ![h] = Append(@, e)],
                 events[zzh] # <<>>
          PROVE  events'[zzh] # <<>>
      BY <1>2, <3>2, <3>3 DEF IInv, TypeOK
    <3> QED BY <1>10, <3>3 DEF Environment, Connect, Disconnect, Expire, Notify,
               SessionEvent, Publish, CalmDown, clientVars
  <2>3. Pending'
    BY <1>3, <2>1, <2>2 DEF Pending
  <2> QED BY <1>1, <1>4, <2>1, <2>3
<1>11. CASE UNCHANGED vars
  BY <1>11 DEF Stuck, vars
<1>12. CASE MainStep
  BY <1>6, <1>7, <1>12 DEF MainStep, Threads, Closers
<1>13. CASE LoopStep
  <2>1. ~Wake
    BY <1>2 DEF Wake
  <2> QED BY <1>5, <1>6, <1>7, <1>13, <2>1 DEF LoopStep, Threads, Closers
<1> QED BY <1>8, <1>9, <1>10, <1>11, <1>12, <1>13 DEF Next, Exited

\* Once a closer joins a completion thread that still needs zk_.mtx_, no event,
\* wake-up or signal ever lets either of them go on (finalize_zk).
THEOREM DeadlockIsPermanent == Spec => StuckForever
<1>1. IInv /\ [Next]_vars => [Stuck => Stuck']_vars
  BY StuckStays DEF Next
<1> QED BY <1>1, InvariantHolds, PTL DEF Spec, StuckForever

-----------------------------------------------------------------------------
(* ClusterAdmin implements MsDirectory.                                    *)

LEMMA DirectoryInit == Init => Directory!DirInit
BY DEF Init, Directory!DirInit, AllViews

\* The list changes only in AssignCluster, to a view that had an address.
LEMMA AssignInstalls ==
  ASSUME IInv, NEW t \in Threads, AssignCluster(t)
  PROVE  Directory!DirInstall
<1>1. pc[t] = "assign" /\ ms_cluster' = got[t] /\ UNCHANGED history
  BY DEF AssignCluster, At, envVars
<1>2. got[t] \in 1..Len(history) /\ AddressesIn(history[got[t]]) # {}
  <2>1. got[t] \in 0..Len(history) /\ Len(history) \in Nat
    BY DEF IInv, TypeOK
  <2>2. got[t] # 0 /\ AddressesIn(history[got[t]]) # {}
    BY <1>1 DEF IInv, GotAddresses
  <2> QED BY <2>1, <2>2
<1> QED BY <1>1, <1>2 DEF Directory!DirInstall, Directory!Servers, AddressesIn

LEMMA UpdateOk ==
  ASSUME IInv, NEW t \in Threads, Update(t)
  PROVE  Directory!DirInstall \/ UNCHANGED <<history, ms_cluster>>
BY AssignInstalls
DEF Update, GetChildren, GetOk, GetFails, GetRetries, envVars

LEMMA StepImplements ==
  ASSUME IInv, [Next]_vars
  PROVE  [Directory!DirNext]_<<history, ms_cluster>>
<1>1. ASSUME NEW t \in Threads, StartZk(t) \/ Start(t) \/ Stop(t)
      PROVE  UNCHANGED <<history, ms_cluster>>
  BY <1>1 DEF Start, Stop, StartZk, InitFails, Poll, InitHandle, Finalize, Join, envVars
<1>2. CASE MainStep \/ Shutdown
  BY <1>1, <1>2 DEF MainStep, Shutdown, envVars, Threads
<1>3. CASE LoopStep
  BY <1>1, <1>3, UpdateOk DEF LoopStep, Wake, envVars, Threads, Directory!DirNext
<1>4. ASSUME NEW h \in Handles, CompletionStep(h)
      PROVE  [Directory!DirNext]_<<history, ms_cluster>>
  BY <1>1, <1>4, UpdateOk
  DEF CompletionStep, Dequeue, CallChildrenWatcher, CallZkWatcher, LeaveWatcher,
      ThreadExits, envVars, Threads, Directory!DirNext
<1>5. CASE Environment
  <2>1. ASSUME NEW v \in AllViews, Publish(v)
        PROVE  Directory!DirPublish
    BY <2>1 DEF Publish, AllViews, Directory!DirPublish
  <2> QED BY <1>5, <2>1
          DEF Environment, Connect, Disconnect, Expire, Notify, CalmDown, envVars,
              Directory!DirNext
<1>6. CASE UNCHANGED vars
  BY <1>6 DEF vars
<1> QED BY <1>2, <1>3, <1>4, <1>5, <1>6 DEF Next, Exited

\* updateModelServerList only ever installs the addresses of a view the znode
\* really had, and never an empty list.
THEOREM ListImplementsDirectory == Spec => ImplementsDirectory
<1>1. IInv /\ [Next]_vars => [Directory!DirNext]_<<history, ms_cluster>>
  BY StepImplements
<1> QED BY <1>1, DirectoryInit, InvariantHolds, PTL
        DEF Spec, ImplementsDirectory, Directory!DirSpec, Directory!dirVars

-----------------------------------------------------------------------------
(* A connected client does not lose its watch.                             *)

\* An update under way, or a call of a watcher that updates, on its way to the
\* completion thread of zk_.zzh_: what will set the child watch again.
Updating == \E t \in {Loop} \cup Handles : pc[t] \in {"update", "calling"}

Renews(calls) == calls \cap {"connected", "child"} # {}

Renewing ==
  \/ Updating
  \/ Renews(todo[zzh])
  \/ \E i \in 1..Len(events[zzh]) : Renews(events[zzh][i])

\* The strengthening of QuietMeansWatched for the states in between.
WatchRenewed == Connected => watch[zzh] # 0 \/ missed \/ Renewing

\* A thread that moves, and was in no update.
LEMMA UpdatingKept ==
  ASSUME TypeOK, NEW t \in Threads, NEW l, pc' = [pc EXCEPT ![t] = l],
         pc[t] \notin {"update", "calling"}, Updating
  PROVE  Updating'
BY DEF Updating, TypeOK, Threads

\* A step that leaves the watch, the events and the session alone.
LEMMA RenewalKept ==
  ASSUME WatchRenewed, UNCHANGED <<zzh, missed>>,
         Connected' => /\ Connected
                       /\ watch'[zzh] = watch[zzh]
                       /\ todo'[zzh] = todo[zzh] /\ events'[zzh] = events[zzh],
         Updating => Updating'
  PROVE  WatchRenewed'
BY DEF WatchRenewed, Renewing, Renews

\* updateModelServerList sets the watch, fails to, or is still under way.
LEMMA UpdateRenews ==
  ASSUME IInv, WatchRenewed, NEW t \in {Loop} \cup Handles, Update(t)
  PROVE  WatchRenewed'
<1>1. TypeOK /\ t \in Threads
  BY DEF IInv, Threads
<1>2. CASE GetChildren(t)
  <2>1. pc'[t] = "calling"
    BY <1>1, <1>2 DEF GetChildren, Goto, TypeOK
  <2> QED BY <2>1 DEF WatchRenewed, Renewing, Updating
<1>3. CASE GetOk(t)
  <2>1. zzh' = zzh /\ zzh \in Handles /\ watch' = [watch EXCEPT ![zzh] = Len(history)]
    BY <1>1, <1>3 DEF GetOk, SetWatch, TypeOK
  <2>2. watch'[zzh'] # 0
    BY <1>1, <2>1 DEF TypeOK
  <2> QED BY <2>2 DEF WatchRenewed
<1>4. ASSUME UNCHANGED <<zzh, hstate, watch>>, Miss
      PROVE  WatchRenewed'
  BY <1>4 DEF Miss, WatchRenewed, Connected
<1>5. CASE GetFails(t)
  BY <1>4, <1>5 DEF GetFails, clientVars
<1>6. CASE GetRetries(t)
  <2>1. CASE UNCHANGED <<pc, missed>>
    BY <1>6, <2>1, RenewalKept DEF GetRetries, clientVars, threadVars, Connected, Updating
  <2>2. CASE Miss
    BY <1>4, <1>6, <2>2 DEF GetRetries, clientVars
  <2> QED BY <1>6, <2>1, <2>2 DEF GetRetries
<1>7. CASE AssignCluster(t)
  <2>1. Updating => Updating'
    BY <1>1, <1>7, UpdatingKept DEF AssignCluster, At, Goto
  <2> QED BY <1>7, <2>1, RenewalKept
          DEF AssignCluster, clientVars, threadVars, envVars, Connected
<1> QED BY <1>2, <1>3, <1>5, <1>6, <1>7 DEF Update

\* A new session is not connected yet, a closed one is no longer.
LEMMA RestartRenews ==
  ASSUME IInv, WatchRenewed, NEW t \in Threads,
         \/ Start(t)
         \/ t \in Closers /\ (StartZk(t) \/ Stop(t))
  PROVE  WatchRenewed'
<1>1. TypeOK /\ Nobody \notin Handles
  BY ThreadsAssumption DEF IInv, Threads
<1>2. CASE (t \in Closers /\ StartZk(t)) \/ InitFails(t) \/ Poll(t)
  <2>1. Updating => Updating'
    <3>1. /\ pc[t] \in {"start", "init", "wait"}
          /\ UNCHANGED pc \/ \E l \in Labels : pc' = [pc EXCEPT ![t] = l]
      BY <1>2 DEF StartZk, InitFails, Poll, At, Goto, Started, Labels
    <3>2. CASE UNCHANGED pc
      BY <3>2 DEF Updating
    <3> QED BY <1>1, <3>1, <3>2, UpdatingKept
  <2> QED BY <1>2, <2>1, RenewalKept
          DEF StartZk, InitFails, Poll, clientVars, threadVars, envVars, Connected
<1>3. ASSUME NEW h \in Handles, InitHandle(t, h)
      PROVE  ~Connected'
  BY <1>1, <1>3 DEF InitHandle, Connected, TypeOK
<1>4. CASE t \in Closers /\ Finalize(t)
  <2>1. ~Connected'
    BY <1>1, <1>4 DEF Finalize, Connected, TypeOK
  <2> QED BY <2>1 DEF WatchRenewed
<1>5. CASE t \in Closers /\ Join(t)
  BY <1>5 DEF Join, WatchRenewed, Connected
<1> QED BY <1>2, <1>3, <1>4, <1>5 DEF Start, Stop, WatchRenewed

\* Events become calls, and calls become updates.
LEMMA CompletionRenews ==
  ASSUME IInv, WatchRenewed, NEW h \in Handles, CompletionStep(h)
  PROVE  WatchRenewed'
<1>1. TypeOK /\ h \in Threads
  BY DEF IInv, Threads
<1>2. CASE Dequeue(h)
  <2>1. /\ todo' = [todo EXCEPT ![h] = Head(events[h])]
        /\ events' = [events EXCEPT ![h] = Tail(events[h])]
        /\ events[h] # <<>> /\ todo[h] = {}
        /\ UNCHANGED <<pc, zzh, hstate, watch, missed>>
    BY <1>2 DEF Dequeue, envVars
  <2>2. Updating => Updating'
    BY <2>1 DEF Updating
  <2>3. CASE h # zzh
    BY <1>1, <2>1, <2>2, <2>3, RenewalKept DEF Connected, TypeOK
  <2>4. CASE h = zzh
    <3>1. events[zzh] \in Seq((SUBSET Calls) \ {{}}) /\ events[zzh] # <<>>
      BY <1>1, <2>1, <2>4 DEF TypeOK
    <3>2. /\ Head(events[zzh]) = events[zzh][1]
          /\ Len(Tail(events[zzh])) = Len(events[zzh]) - 1
          /\ \A i \in 1..Len(Tail(events[zzh])) : Tail(events[zzh])[i] = events[zzh][i + 1]
      BY <3>1, HeadTailProperties
    <3>3. todo'[zzh] = Head(events[zzh]) /\ events'[zzh] = Tail(events[zzh])
      BY <1>1, <2>1, <2>4 DEF TypeOK
    <3>4. ASSUME NEW i \in 1..Len(events[zzh]), Renews(events[zzh][i])
          PROVE  Renewing'
      <4>1. CASE i = 1
        BY <2>1, <3>2, <3>3, <3>4, <4>1 DEF Renewing, Renews
      <4>2. CASE i # 1
        <5>1. Len(events[zzh]) \in Nat /\ i - 1 \in 1..Len(events'[zzh])
          BY <3>1, <3>2, <3>3, <4>2
        <5>2. events'[zzh][i - 1] = events[zzh][i]
          BY <3>2, <3>3, <5>1
        <5> QED BY <2>1, <3>4, <5>1, <5>2 DEF Renewing, Renews
      <4> QED BY <4>1, <4>2
    <3>5. Renewing => Renewing'
      BY <2>1, <2>2, <2>4, <3>4 DEF Renewing, Renews
    <3> QED BY <2>1, <3>5 DEF WatchRenewed, Connected
  <2> QED BY <2>3, <2>4
<1>3. CASE CallChildrenWatcher(h)
  <2>1. pc'[h] = "update"
    BY <1>1, <1>3 DEF CallChildrenWatcher, Goto, TypeOK
  <2> QED BY <2>1 DEF WatchRenewed, Renewing, Updating
<1>4. ASSUME NEW s \in SessionCalls, CallZkWatcher(h, s)
      PROVE  WatchRenewed'
  <2>1. CASE h = zzh /\ s = "connected"
    <3>1. pc'[h] = "update"
      BY <1>1, <1>4, <2>1 DEF CallZkWatcher, Goto, TypeOK
    <3> QED BY <3>1 DEF WatchRenewed, Renewing, Updating
  <2>2. CASE h = zzh /\ s = "expired"
    BY <1>4, <2>2 DEF CallZkWatcher, WatchRenewed, Connected
  <2>3. CASE ~(h = zzh /\ s \in {"connected", "expired"})
    <3>1. /\ pc[h] = "idle" /\ pc' = [pc EXCEPT ![h] = "leave"]
          /\ todo' = [todo EXCEPT ![h] = @ \ {s}]
          /\ UNCHANGED <<zzh, hstate, events, watch, missed>>
      BY <1>4, <2>3 DEF CallZkWatcher, At, Goto, envVars
    <3>2. Updating => Updating'
      BY <1>1, <3>1, UpdatingKept
    <3>3. zzh \in Handles /\ Renews(todo[zzh]) => Renews(todo'[zzh])
      BY <1>1, <2>3, <3>1 DEF Renews, TypeOK, SessionCalls
    <3> QED BY <1>1, <3>1, <3>2, <3>3 DEF WatchRenewed, Renewing, Connected, TypeOK
  <2> QED BY <2>1, <2>2, <2>3
<1>5. CASE LeaveWatcher(h)
  <2>1. Updating => Updating'
    BY <1>1, <1>5, UpdatingKept DEF LeaveWatcher, At, Goto
  <2> QED BY <1>5, <2>1, RenewalKept DEF LeaveWatcher, clientVars, envVars, Connected
<1>6. CASE ThreadExits(h)
  <2>1. Connected' => Connected /\ watch'[zzh] = watch[zzh]
    BY <1>1, <1>6 DEF ThreadExits, Connected, TypeOK
  <2> QED BY <1>6, <2>1, RenewalKept DEF ThreadExits, threadVars, envVars, Updating
<1> QED BY <1>1, <1>2, <1>3, <1>4, <1>5, <1>6, UpdateRenews, RestartRenews DEF CompletionStep

\* Whatever takes the watch or makes the session is told to a watcher.
LEMMA EnvironmentRenews ==
  ASSUME IInv, WatchRenewed, Environment
  PROVE  WatchRenewed'
<1>1. TypeOK
  BY DEF IInv
<1>2. ASSUME NEW h \in Handles, NEW calls, Renews(calls), zzh' = zzh, h = zzh,
             events' = [events EXCEPT ![h] = Append(@, calls)]
      PROVE  WatchRenewed'
  <2>1. events[zzh] \in Seq((SUBSET Calls) \ {{}})
    BY <1>1, <1>2 DEF TypeOK
  <2>2. events'[zzh] = Append(events[zzh], calls)
    BY <1>1, <1>2 DEF TypeOK
  <2>3. /\ Len(events'[zzh]) = Len(events[zzh]) + 1 /\ Len(events[zzh]) \in Nat
        /\ events'[zzh][Len(events[zzh]) + 1] = calls
    BY <2>1, <2>2
  <2>4. Len(events[zzh]) + 1 \in 1..Len(events'[zzh])
    BY <2>3
  <2> QED BY <1>2, <2>3, <2>4 DEF WatchRenewed, Renewing, Renews
<1>3. ASSUME NEW h \in Handles, h # zzh, NEW calls, NEW state,
             events' = [events EXCEPT ![h] = Append(@, calls)],
             hstate' = [hstate EXCEPT ![h] = state] \/ hstate' = hstate,
             watch' = [watch EXCEPT ![h] = 0] \/ watch' = watch,
             UNCHANGED <<pc, zzh, todo, missed>>
      PROVE  WatchRenewed'
  <2>1. Connected' => /\ Connected
                      /\ watch'[zzh] = watch[zzh] /\ events'[zzh] = events[zzh]
    BY <1>1, <1>3 DEF Connected, TypeOK
  <2> QED BY <1>3, <2>1, RenewalKept DEF Updating
<1>4. ASSUME NEW h \in Handles, Connect(h)
      PROVE  WatchRenewed'
  <2> DEFINE calls == {"connected"} \cup (IF watch[h] = 0 THEN {} ELSE {"child"})
  <2>1. /\ events' = [events EXCEPT ![h] = Append(@, calls)]
        /\ hstate' = [hstate EXCEPT ![h] = "connected"]
        /\ UNCHANGED <<pc, zzh, todo, watch, missed>>
    BY <1>4 DEF Connect, SessionEvent, threadVars, envVars
  <2>2. Renews(calls)
    BY DEF Renews
  <2> HIDE DEF calls
  <2> QED BY <1>2, <1>3, <2>1, <2>2
<1>5. ASSUME NEW h \in Handles, Disconnect(h) \/ Expire(h)
      PROVE  WatchRenewed'
  <2>1. CASE h = zzh
    <3>1. hstate'[zzh] \in {"lost", "expired"} /\ UNCHANGED zzh
      BY <1>1, <1>5, <2>1 DEF Disconnect, Expire, TypeOK
    <3> QED BY <3>1 DEF WatchRenewed, Connected
  <2>2. CASE h # zzh
    <3>1. CASE Disconnect(h)
      BY <1>3, <2>2, <3>1 DEF Disconnect, SessionEvent, threadVars, envVars
    <3>2. CASE Expire(h)
      BY <1>3, <2>2, <3>2 DEF Expire, SessionEvent, threadVars, envVars
    <3> QED BY <1>5, <3>1, <3>2
  <2> QED BY <2>1, <2>2
<1>6. ASSUME NEW h \in Handles, Notify(h)
      PROVE  WatchRenewed'
  <2>1. /\ events' = [events EXCEPT ![h] = Append(@, {"child"})]
        /\ watch' = [watch EXCEPT ![h] = 0]
        /\ UNCHANGED <<pc, zzh, todo, hstate, missed>>
    BY <1>6 DEF Notify, threadVars, envVars
  <2>2. Renews({"child"})
    BY DEF Renews
  <2> QED BY <1>2, <1>3, <2>1, <2>2
<1>7. CASE (\E v \in AllViews : Publish(v)) \/ CalmDown
  BY <1>7, RenewalKept DEF Publish, CalmDown, clientVars, threadVars, Connected, Updating
<1> QED BY <1>4, <1>5, <1>6, <1>7 DEF Environment

LEMMA WatchRenewedNext == IInv /\ WatchRenewed /\ [Next]_vars => WatchRenewed'
<1> SUFFICES ASSUME IInv, WatchRenewed, [Next]_vars PROVE WatchRenewed'
  OBVIOUS
<1>1. TypeOK /\ Main \in Threads /\ Loop \in Threads
  BY DEF IInv, Threads
<1>2. CASE MainStep
  BY <1>1, <1>2, RestartRenews DEF MainStep, Closers
<1>3. CASE Shutdown \/ Wake
  <2>1. Updating => Updating'
    BY <1>1, <1>3, UpdatingKept DEF Shutdown, Wake, At, Goto
  <2> QED BY <1>3, <2>1, RenewalKept
          DEF Shutdown, Wake, clientVars, threadVars, envVars, Connected
<1>4. CASE LoopStep
  BY <1>1, <1>3, <1>4, RestartRenews, UpdateRenews DEF LoopStep, Closers
<1>5. CASE UNCHANGED vars
  BY <1>5, RenewalKept DEF vars, Connected, Updating
<1> QED
  BY <1>2, <1>3, <1>4, <1>5, CompletionRenews, EnvironmentRenews DEF Next, Exited

LEMMA WatchRenewedAlways == Spec => []WatchRenewed
<1>1. Init => WatchRenewed
  BY DEF Init, WatchRenewed, Connected
<1> QED BY <1>1, WatchRenewedNext, InvariantHolds, PTL DEF Spec

\* Lost connections, expired sessions, closes and restarts never lose the watch,
\* unless the client's own call failed: tgpChildrenWatcher and zk_watcher are told
\* of all that takes it.
THEOREM WatchIsNotLost == Spec => []QuietMeansWatched
<1>1. IInv /\ WatchRenewed => QuietMeansWatched
  <2> SUFFICES ASSUME IInv, WatchRenewed, Quiet, Connected, ~missed PROVE Watched
    BY DEF QuietMeansWatched
  <2>1. ~Updating
    BY DEF Updating, Quiet
  <2>2. zzh \in Handles /\ todo[zzh] = {} /\ Len(events[zzh]) = 0
    BY DEF Quiet, Connected, IInv, TypeOK
  <2>3. ~Renewing
    BY <2>1, <2>2 DEF Renewing, Renews
  <2> QED BY <2>1, <2>3 DEF WatchRenewed, Watched
<1> QED BY <1>1, WatchRenewedAlways, InvariantHolds, PTL

-----------------------------------------------------------------------------
(* Whoever holds zk_.mtx_ can go on.                                       *)

\* zk_watcher is told of an expired session only when the handle's has expired.
ExpiryKnown ==
  \A h \in Handles :
    "expired" \in todo[h] \/ (\E i \in 1..Len(events[h]) : "expired" \in events[h][i]) =>
      hstate[h] \in {"expired", "closing"}

\* There is a handle for the next session whenever one is or will be needed.
HandleLeft ==
  zzh = Nobody \/ (\E h \in Handles : hstate[h] = "expired") =>
    \E free \in Handles : hstate[free] = "closed"

\* A handle leaves these two states only when no event is left.
LEMMA ExpiryStaysKnown ==
  ASSUME ExpiryKnown,
         \A h \in Handles :
           \/ todo'[h] = {} /\ events'[h] = <<>>
           \/ /\ "expired" \in todo'[h] => "expired" \in todo[h]
              /\ events'[h] = events[h]
              /\ hstate[h] \in {"expired", "closing"} =>
                   hstate'[h] \in {"expired", "closing"}
  PROVE  ExpiryKnown'
BY DEF ExpiryKnown

\* An event that is appended, other than an expiry.
LEMMA ExpiryNotRaised ==
  ASSUME TypeOK, ExpiryKnown, NEW g \in Handles, NEW calls, UNCHANGED todo,
         events' = [events EXCEPT ![g] = Append(@, calls)],
         "expired" \in calls => hstate'[g] \in {"expired", "closing"},
         \A h \in Handles : hstate[h] \in {"expired", "closing"} =>
                              hstate'[h] \in {"expired", "closing"}
  PROVE  ExpiryKnown'
<1> SUFFICES ASSUME NEW h \in Handles,
                    "expired" \in todo[h]
                      \/ \E i \in 1..Len(events'[h]) : "expired" \in events'[h][i]
             PROVE  hstate'[h] \in {"expired", "closing"}
  BY DEF ExpiryKnown
<1>1. CASE h # g
  BY <1>1 DEF ExpiryKnown, TypeOK
<1>2. CASE h = g
  <2>1. events[g] \in Seq((SUBSET Calls) \ {{}}) /\ events'[g] = Append(events[g], calls)
    BY DEF TypeOK
  <2>2. \A i \in 1..Len(events'[g]) :
          events'[g][i] = calls \/ (i \in 1..Len(events[g]) /\ events'[g][i] = events[g][i])
    BY <2>1
  <2> QED BY <1>2, <2>2 DEF ExpiryKnown
<1> QED BY <1>1, <1>2

LEMMA ExpiryKnownNext == IInv /\ ExpiryKnown /\ [Next]_vars => ExpiryKnown'
<1> SUFFICES ASSUME IInv, ExpiryKnown, [Next]_vars PROVE ExpiryKnown'
  OBVIOUS
<1>1. TypeOK /\ Drained
  BY DEF IInv
<1>2. ASSUME UNCHANGED <<todo, events, hstate>> PROVE ExpiryKnown'
  BY <1>2, ExpiryStaysKnown
<1>3. ASSUME NEW t \in Threads, Update(t) PROVE ExpiryKnown'
  <2>1. CASE GetOk(t) /\ Due(zzh)
    BY <1>1, <2>1, ExpiryNotRaised DEF GetOk, threadVars, TypeOK
  <2>2. CASE GetOk(t) /\ ~Due(zzh)
    BY <1>2, <2>2 DEF GetOk, threadVars
  <2> QED BY <1>2, <1>3, <2>1, <2>2
          DEF Update, GetChildren, GetFails, GetRetries, AssignCluster, clientVars, threadVars
<1>4. ASSUME NEW t \in Threads, Start(t) \/ StartZk(t) PROVE ExpiryKnown'
  <2>1. ASSUME NEW h \in Handles, InitHandle(t, h) PROVE ExpiryKnown'
    BY <1>1, <2>1, ExpiryStaysKnown DEF InitHandle, threadVars, Drained, TypeOK
  <2> QED BY <1>2, <1>4, <2>1
          DEF Start, StartZk, InitFails, Poll, clientVars, threadVars
<1>5. ASSUME NEW t \in Closers, Stop(t) PROVE ExpiryKnown'
  <2>1. CASE Finalize(t)
    BY <1>1, <2>1, ExpiryStaysKnown DEF Finalize, threadVars, TypeOK
  <2>2. CASE Join(t)
    BY <1>2, <2>2 DEF Join, clientVars, threadVars
  <2> QED BY <1>5, <2>1, <2>2 DEF Stop
<1>6. ASSUME NEW h \in Handles, CompletionStep(h) PROVE ExpiryKnown'
  <2>1. CASE Dequeue(h)
    <3>1. /\ events[h] \in Seq((SUBSET Calls) \ {{}}) /\ events[h] # <<>>
          /\ todo' = [todo EXCEPT ![h] = Head(events[h])]
          /\ events' = [events EXCEPT ![h] = Tail(events[h])] /\ UNCHANGED hstate
      BY <1>1, <2>1 DEF Dequeue, TypeOK
    <3>2. /\ 1 \in 1..Len(events[h]) /\ Head(events[h]) = events[h][1]
          /\ \A i \in 1..Len(Tail(events[h])) :
               i + 1 \in 1..Len(events[h]) /\ Tail(events[h])[i] = events[h][i + 1]
      BY <3>1
    <3>3. /\ todo'[h] = Head(events[h]) /\ events'[h] = Tail(events[h])
          /\ \A g \in Handles \ {h} : todo'[g] = todo[g] /\ events'[g] = events[g]
      BY <1>1, <3>1 DEF TypeOK
    <3>4. "expired" \in todo'[h]
            \/ (\E i \in 1..Len(events'[h]) : "expired" \in events'[h][i]) =>
          \E i \in 1..Len(events[h]) : "expired" \in events[h][i]
      BY <3>2, <3>3
    <3> QED BY <3>1, <3>3, <3>4 DEF ExpiryKnown
  <2>2. CASE CallChildrenWatcher(h)
    BY <1>1, <2>2, ExpiryStaysKnown DEF CallChildrenWatcher, clientVars, TypeOK
  <2>3. ASSUME NEW s \in SessionCalls, CallZkWatcher(h, s) PROVE ExpiryKnown'
    BY <1>1, <2>3, ExpiryStaysKnown DEF CallZkWatcher, TypeOK
  <2>4. CASE LeaveWatcher(h)
    BY <1>2, <2>4 DEF LeaveWatcher, clientVars
  <2>5. CASE ThreadExits(h)
    BY <1>1, <2>5, ExpiryStaysKnown DEF ThreadExits, threadVars, TypeOK
  <2> QED BY <1>3, <1>4, <1>6, <2>1, <2>2, <2>3, <2>4, <2>5 DEF CompletionStep, Threads
<1>7. CASE Environment
  <2>1. ASSUME NEW h \in Handles, Connect(h) \/ Notify(h) PROVE ExpiryKnown'
    BY <1>1, <2>1, ExpiryNotRaised DEF Connect, Notify, SessionEvent, threadVars, TypeOK
  <2>2. ASSUME NEW h \in Handles, Disconnect(h) \/ Expire(h) PROVE ExpiryKnown'
    BY <1>1, <2>2, ExpiryNotRaised DEF Disconnect, Expire, SessionEvent, threadVars, TypeOK
  <2> QED BY <1>2, <1>7, <2>1, <2>2
          DEF Environment, Publish, CalmDown, clientVars, threadVars
<1>8. CASE MainStep \/ LoopStep
  BY <1>2, <1>3, <1>4, <1>5, <1>8
  DEF MainStep, LoopStep, Wake, clientVars, threadVars, Closers, Threads
<1> QED BY <1>2, <1>6, <1>7, <1>8
        DEF Next, Shutdown, Exited, vars, clientVars, threadVars

\* No step takes the last free handle while one is needed.
LEMMA HandleLeftNext == IInv /\ ExpiryKnown /\ HandleLeft /\ [Next]_vars => HandleLeft'
<1> SUFFICES ASSUME IInv, ExpiryKnown, HandleLeft, [Next]_vars PROVE HandleLeft'
  OBVIOUS
<1>1. TypeOK /\ SingleSession /\ Nobody \notin Handles /\ Closers \subseteq Threads
  BY ThreadsAssumption DEF IInv, Threads, Closers
<1>2. ASSUME UNCHANGED <<zzh, hstate>> PROVE HandleLeft'
  BY <1>2 DEF HandleLeft
\* zookeeper_init takes a handle when no session is open, and none is needed then.
<1>3. ASSUME NEW t \in Threads, Start(t) \/ StartZk(t) PROVE HandleLeft'
  <2>1. ASSUME NEW h \in Handles, InitHandle(t, h) PROVE HandleLeft'
    <3>1. zzh = Nobody /\ zzh' = h /\ hstate' = [hstate EXCEPT ![h] = "new"]
      BY <2>1 DEF InitHandle, At, IInv, HolderKnows
    <3> QED BY <1>1, <3>1 DEF HandleLeft, SingleSession, Open, TypeOK
  <2> QED BY <1>2, <1>3, <2>1 DEF Start, StartZk, InitFails, Poll, clientVars
\* A handle that is closed is free for the next session.
<1>4. ASSUME NEW t \in Closers, Stop(t) PROVE HandleLeft'
  <2>1. CASE Finalize(t)
    <3>1. CASE zzh = Nobody
      BY <1>2, <2>1, <3>1 DEF Finalize
    <3>2. CASE zzh # Nobody
      BY <1>1, <2>1, <3>2 DEF Finalize, HandleLeft, SingleSession, Open, TypeOK
    <3> QED BY <3>1, <3>2
  <2>2. CASE Join(t)
    <3>1. zzh \in Handles /\ hstate[zzh] = "closed" /\ UNCHANGED hstate
      BY <1>1, <2>2 DEF Join, At, clientVars, IInv, HolderKnows
    <3> QED BY <3>1 DEF HandleLeft
  <2> QED BY <1>4, <2>1, <2>2 DEF Stop
\* zk_watcher closes a handle that has expired, when there was one left.
<1>5. ASSUME NEW h \in Handles, NEW s \in SessionCalls, CallZkWatcher(h, s)
      PROVE  HandleLeft'
  <2>1. CASE h = zzh /\ s = "expired"
    <3>1. owner = Nobody /\ hstate' = [hstate EXCEPT ![h] = "closing"]
      BY <1>5, <2>1 DEF CallZkWatcher
    <3>2. \A t \in Threads : pc[t] # "join"
      BY <3>1, ThreadsAssumption, HolderAlone DEF IInv, Inside
    <3>3. hstate[h] \in Open
      BY <1>1, <2>1, <3>2 DEF SingleSession
    <3>4. hstate[h] = "expired"
      BY <1>5, <2>1, <3>3 DEF CallZkWatcher, ExpiryKnown, Open
    <3>5. PICK free \in Handles : hstate[free] = "closed"
      BY <3>4 DEF HandleLeft
    <3>6. hstate'[free] = "closed"
      BY <1>1, <3>1, <3>4, <3>5 DEF TypeOK
    <3> QED BY <3>6 DEF HandleLeft
  <2>2. CASE ~(h = zzh /\ s = "expired")
    BY <1>2, <1>5, <2>2 DEF CallZkWatcher
  <2> QED BY <2>1, <2>2
<1>6. ASSUME NEW t \in Threads, Update(t) PROVE HandleLeft'
  BY <1>2, <1>6
  DEF Update, GetChildren, GetOk, GetFails, GetRetries, AssignCluster, clientVars
<1>7. ASSUME NEW h \in Handles, CompletionStep(h) PROVE HandleLeft'
  <2>1. CASE ThreadExits(h)
    BY <1>1, <2>1 DEF ThreadExits, HandleLeft, TypeOK
  <2> QED BY <1>2, <1>3, <1>5, <1>6, <1>7, <2>1
          DEF CompletionStep, Dequeue, CallChildrenWatcher, LeaveWatcher, clientVars, Threads
<1>8. CASE Environment
  <2>1. ASSUME NEW h \in Handles, Connect(h) \/ Disconnect(h) \/ Expire(h)
        PROVE  HandleLeft'
    <3>1. CASE Expire(h)
      BY <1>1, <3>1 DEF Expire, HandleLeft, TypeOK
    <3>2. CASE Connect(h)
      BY <1>1, <3>2 DEF Connect, HandleLeft, TypeOK
    <3>3. CASE Disconnect(h)
      BY <1>1, <3>3 DEF Disconnect, HandleLeft, TypeOK
    <3> QED BY <2>1, <3>1, <3>2, <3>3
  <2> QED BY <1>2, <1>8, <2>1 DEF Environment, Notify, Publish, CalmDown, clientVars
<1>9. CASE MainStep \/ LoopStep
  BY <1>1, <1>2, <1>3, <1>4, <1>6, <1>9 DEF MainStep, LoopStep, Wake, clientVars, Closers, Threads
<1> QED BY <1>2, <1>7, <1>8, <1>9 DEF Next, Shutdown, Exited, vars, clientVars

LEMMA HandleLeftAlways == Spec => [](ExpiryKnown /\ HandleLeft)
<1>1. Init => ExpiryKnown /\ HandleLeft
  BY ThreadsAssumption DEF Init, ExpiryKnown, HandleLeft
<1> QED BY <1>1, ExpiryKnownNext, HandleLeftNext, InvariantHolds, PTL DEF Spec

\* The holder of zk_.mtx_ never waits for anything but the end of a completion
\* thread: the join of zookeeper_close on a thread with work left (Stuck) is the
\* only way to deadlock (ZK::mtx_ and everything that runs under it).
THEOREM OnlyStuckDeadlocks == Spec => []HolderReady
<1>1. IInv /\ HandleLeft => HolderReady
  <2> SUFFICES ASSUME IInv, HandleLeft, owner # Nobody, ~Stuck
               PROVE  Ready(owner) \/ (pc[owner] = "join" /\ Ready(zzh))
    BY DEF HolderReady
  <2> DEFINE t == owner
  <2>1. t \in Threads /\ Locked(t) > 0 /\ pc[t] \in Labels
    BY DEF IInv, TypeOK, LockDiscipline
  <2>2. \A u \in Threads : pc[u] \in Inside => u = t
    <3>1. \A u \in Threads : pc[u] \in Inside => Locked(u) > 0
      BY LockedBound
    <3> QED BY <3>1 DEF IInv, LockDiscipline
  <2> HIDE DEF t
  <2>3. CASE pc[t] \notin Inside
    <3>1. t \in Handles /\ pc[t] \in {"update", "assign", "leave"}
      BY <2>1, <2>3 DEF Locked, InZkWatcher, Inside, IInv, Positions, SessionCalls
    <3> QED BY <3>1 DEF Ready, t
  <2>4. CASE pc[t] = "calling"
    <3>1. \A u \in Closers : pc[u] # "join"
      BY <2>2, <2>4 DEF Inside, Closers, Threads
    <3> QED BY <2>4, <3>1 DEF Ready, IInv, SingleSession, t
  <2>5. CASE pc[t] = "init"
    <3>1. zzh = Nobody
      BY <2>1, <2>5 DEF IInv, HolderKnows
    <3> QED BY <2>5, <3>1 DEF HandleLeft, Ready, t
  <2>6. CASE pc[t] = "wait"
    BY <2>6 DEF Ready, t
  <2>7. CASE pc[t] = "join"
    <3>1. zzh \in Handles /\ zzh \in Threads /\ hstate[zzh] \in {"closing", "closed"}
      BY <2>1, <2>7 DEF IInv, HolderKnows, Threads
    <3>2. t \in Closers /\ t # zzh
      BY <2>1, <2>7, <3>1, ThreadsAssumption DEF IInv, Positions, Threads, Closers
    <3>3. pc[zzh] # "update" /\ todo[zzh] = {} /\ events[zzh] = <<>>
      BY <2>7, <3>1, <3>2, ThreadsAssumption DEF Stuck, Threads
    <3>4. pc[zzh] \in {"idle", "assign", "leave"}
      BY <2>2, <3>1, <3>2, <3>3 DEF Inside, IInv, Positions
    <3> QED BY <2>7, <3>1, <3>3, <3>4 DEF Ready, t
  <2> QED BY <2>3, <2>4, <2>5, <2>6, <2>7 DEF Inside, t
<1> QED BY <1>1, HandleLeftAlways, InvariantHolds, PTL

=============================================================================
