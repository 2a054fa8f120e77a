------------------------- MODULE HttpHandlerProofs --------------------------
(* Proofs about HttpHandler, for any number of workers, transactions and   *)
(* parts of a body, and any paths.                                         *)
EXTENDS HttpHandler, FiniteSetTheorems, SequenceTheorems, WellFoundedInduction, TLAPS

-----------------------------------------------------------------------------
(* The inductive invariant.                                                *)

\* What a transaction may have by the phase it is in.
Phases ==
  \A c \in Transactions :
    /\ phase[c] = "none" => handler[c] = "none" /\ body_[c] = <<>> /\ sent[c] = <<>>
    /\ phase[c] # "none" => worker[c] \in Workers
    /\ phase[c] \in {"none", "headers", "body"} => given[c] = NotGiven /\ replies[c] = <<>>

\* A worker inside tgpExpress has not replied yet.
NotYetReplied ==
  \A w \in Workers :
    busy[w] # None /\ phase[busy[w]] = "eom" => replies[busy[w]] = <<>>

\* Nobody else stores between the load and the store of a worker.
Loaded == \A w \in Workers : Counting(w) => counter[w] = reqCount_[w]

\* One reply, none before the request was read, and one before it is complete.
OneReply ==
  \A c \in Transactions :
    /\ Len(replies[c]) <= 1
    /\ replies[c] # <<>> => phase[c] \in {"eom", "complete", "failed"}
    /\ phase[c] = "complete" => replies[c] # <<>>

HInv ==
  /\ TypeOK /\ Phases /\ AliveInside /\ WholeBody
  /\ NotYetReplied /\ OneReply
  /\ Loaded /\ EachIsCounted

-----------------------------------------------------------------------------
LEMMA HandlerKinds == \A u : HandlerFor(u) \in {"proxy", "wrong"}
BY DEF HandlerFor

LEMMA ProxiedFinite ==
  ASSUME NEW w
  PROVE  /\ Proxied(w) \subseteq Transactions
         /\ IsFiniteSet(Proxied(w))
         /\ Cardinality(Proxied(w)) \in Nat
         /\ Cardinality(Proxied(w)) <= Cardinality(Transactions)
         /\ Cardinality(Transactions) \in Nat
<1>1. Proxied(w) \subseteq Transactions
  BY DEF Proxied
<1> QED
  BY <1>1, FS_Subset, FS_CardinalityType, HandlerAssumption

LEMMA HInvInit == Init => HInv
<1> SUFFICES ASSUME Init PROVE HInv
  OBVIOUS
<1>1. <<>> \in Seq(Pieces) /\ <<>> \in Seq({"weights", "reason", "empty"}) /\ Len(<<>>) = 0
  BY EmptySeq
<1>2. Cardinality(Transactions) \in Nat
  BY ProxiedFinite
<1>3. TypeOK
  BY <1>1, <1>2 DEF Init, TypeOK
<1>4. Phases /\ AliveInside /\ WholeBody /\ NotYetReplied /\ OneReply
  BY <1>1 DEF Init, Phases, AliveInside, WholeBody, NotYetReplied, OneReply
<1>5. \A w \in Workers : Proxied(w) = {} /\ ~Counting(w)
  BY DEF Init, Proxied, Counting
<1>6. Loaded /\ EachIsCounted
  BY <1>5, FS_EmptySet DEF Init, Loaded, EachIsCounted
<1> QED BY <1>3, <1>4, <1>6 DEF HInv

\* The counts stay when no request comes in and none is stored.
LEMMA CountsKept ==
  ASSUME Loaded, EachIsCounted, UNCHANGED <<url, worker, statVars>>,
         \A c \in Transactions : phase[c] = "none" <=> phase'[c] = "none",
         \A w \in Workers : Counting(w)' = Counting(w)
  PROVE  Loaded' /\ EachIsCounted'
<1>1. \A w \in Workers : Proxied(w)' = Proxied(w)
  BY DEF Proxied
<1> QED BY <1>1 DEF Loaded, EachIsCounted, statVars

-----------------------------------------------------------------------------
(* One lemma per callback.                                                 *)

LEMMA OnRequestKeeps ==
  ASSUME HInv, NEW c \in Transactions, NEW w \in Workers, NEW u \in Urls, OnRequest(c, w, u)
  PROVE  HInv'
<1> USE DEF HInv
<1>1. /\ phase[c] = "none" /\ busy[w] = None /\ c # None
      /\ phase' = [phase EXCEPT ![c] = "headers"]
      /\ handler' = [handler EXCEPT ![c] = HandlerFor(u)]
      /\ url' = [url EXCEPT ![c] = u] /\ worker' = [worker EXCEPT ![c] = w]
      /\ UNCHANGED <<body_, sent, given, replies, reqCount_>>
      /\ HandlerFor(u) \in {"proxy", "wrong"}
  BY HandlerKinds, HandlerAssumption DEF OnRequest, bodyVars
<1>2. \/ /\ HandlerFor(u) = "proxy" /\ busy' = [busy EXCEPT ![w] = c]
         /\ counter' = [counter EXCEPT ![w] = reqCount_[w]]
      \/ HandlerFor(u) = "wrong" /\ UNCHANGED <<busy, counter>>
  BY <1>1 DEF OnRequest, StatsOf
<1>3. TypeOK'
  <2>1. \A v \in Workers : busy'[v] # None => phase'[busy'[v]] \in {"headers", "eom"}
    BY <1>1, <1>2 DEF TypeOK
  <2>2. /\ busy' \in [Workers -> Transactions \cup {None}]
        /\ counter' \in [Workers -> 0..Cardinality(Transactions)]
    <3>1. CASE HandlerFor(u) = "proxy"
      <4>1. busy' = [busy EXCEPT ![w] = c] /\ counter' = [counter EXCEPT ![w] = reqCount_[w]]
        BY <1>2, <3>1
      <4>2. reqCount_[w] \in 0..Cardinality(Transactions)
        BY DEF TypeOK
      <4> QED BY <4>1, <4>2 DEF TypeOK
    <3>2. CASE HandlerFor(u) = "wrong"
      BY <1>2, <3>2 DEF TypeOK
    <3> QED BY <1>1, <3>1, <3>2
  <2>3. /\ url' \in [Transactions -> Urls \cup {<<>>}]
        /\ worker' \in [Transactions -> Workers \cup {None}]
        /\ handler' \in [Transactions -> {"none", "proxy", "wrong"}]
        /\ phase' \in [Transactions -> {"none", "headers", "body", "eom", "complete", "failed"}]
    BY <1>1 DEF TypeOK
  <2> QED BY <1>1, <2>1, <2>2, <2>3 DEF TypeOK
<1>4. AliveInside'
  <2>1. \A v \in Workers : busy[v] # None => busy[v] # c
    BY <1>1 DEF TypeOK
  <2> QED BY <1>1, <1>2, <2>1 DEF AliveInside, TypeOK
<1>5. Phases' /\ WholeBody' /\ OneReply'
  BY <1>1 DEF Phases, WholeBody, OneReply, TypeOK
<1>6. NotYetReplied'
  BY <1>1, <1>2 DEF NotYetReplied, TypeOK
<1>7. ASSUME NEW v \in Workers
      PROVE  /\ Counting(v)' => counter'[v] = reqCount_'[v]
             /\ Cardinality(Proxied(v)') = IF Counting(v)' THEN reqCount_'[v] + 1 ELSE reqCount_'[v]
  <2>1. CASE v = w /\ HandlerFor(u) = "proxy"
    <3>1. ~Counting(v) /\ Counting(v)' /\ counter'[v] = reqCount_[v] /\ reqCount_' = reqCount_
      BY <1>1, <1>2, <2>1 DEF Counting, TypeOK
    <3>2. Proxied(v)' = Proxied(v) \cup {c} /\ c \notin Proxied(v)
      BY <1>1, <2>1 DEF Proxied, TypeOK
    <3>3. Cardinality(Proxied(v)') = Cardinality(Proxied(v)) + 1
      BY <3>2, ProxiedFinite, FS_AddElement
    <3> QED BY <3>1, <3>3 DEF EachIsCounted
  <2>2. CASE ~(v = w /\ HandlerFor(u) = "proxy")
    <3>1. Counting(v)' = Counting(v) /\ counter'[v] = counter[v] /\ reqCount_' = reqCount_
      BY <1>1, <1>2, <2>2 DEF Counting, TypeOK
    <3>2. Proxied(v)' = Proxied(v)
      BY <1>1, <2>2 DEF Proxied, TypeOK
    <3> QED BY <3>1, <3>2 DEF Loaded, EachIsCounted
  <2> QED BY <2>1, <2>2
<1>8. Loaded' /\ EachIsCounted'
  BY <1>7 DEF Loaded, EachIsCounted
<1> QED BY <1>3, <1>4, <1>5, <1>6, <1>8

LEMMA RecordRequestKeeps ==
  ASSUME HInv, NEW w \in Workers, RecordRequest(w)
  PROVE  HInv'
<1> USE DEF HInv
<1> DEFINE c == busy[w]
<1>1. /\ c \in Transactions /\ c # None /\ phase[c] = "headers" /\ worker[c] = w
      /\ handler[c] = "proxy"
      /\ Counting(w) /\ counter[w] = reqCount_[w]
  BY DEF RecordRequest, AliveInside, Loaded, Counting, TypeOK
<1>2. /\ phase' = [phase EXCEPT ![c] = "body"]
      /\ busy' = [busy EXCEPT ![w] = None]
      /\ reqCount_' = [reqCount_ EXCEPT ![w] = counter[w] + 1]
      /\ counter' = [counter EXCEPT ![w] = 0]
      /\ UNCHANGED <<url, worker, body_, sent, given, handler, replies>>
  BY DEF RecordRequest, StatsOf, bodyVars
<1>3. \A v \in Workers : v # w /\ busy[v] # None => busy[v] # c
  BY <1>1 DEF AliveInside
<1> HIDE DEF c
<1>4. \A v \in Workers : Proxied(v)' = Proxied(v)
  BY <1>1, <1>2 DEF Proxied, TypeOK
<1>5. ASSUME NEW v \in Workers
      PROVE  /\ Counting(v)' => counter'[v] = reqCount_'[v]
             /\ Cardinality(Proxied(v)') = IF Counting(v)' THEN reqCount_'[v] + 1 ELSE reqCount_'[v]
  <2>1. CASE v = w
    <3>1. ~Counting(v)' /\ reqCount_'[v] = reqCount_[v] + 1
      BY <1>1, <1>2, <2>1 DEF Counting, TypeOK
    <3> QED BY <1>1, <1>4, <2>1, <3>1 DEF EachIsCounted
  <2>2. CASE v # w
    <3>1. Counting(v)' = Counting(v) /\ counter'[v] = counter[v] /\ reqCount_'[v] = reqCount_[v]
      BY <1>1, <1>2, <1>3, <2>2 DEF Counting, TypeOK
    <3> QED BY <1>4, <3>1 DEF Loaded, EachIsCounted
  <2> QED BY <2>1, <2>2
<1>6. Loaded' /\ EachIsCounted'
  BY <1>5 DEF Loaded, EachIsCounted
<1>7. TypeOK'
  <2>1. reqCount_'[w] \in 0..Cardinality(Transactions)
    <3>1. reqCount_'[w] = Cardinality(Proxied(w)) /\ reqCount_[w] \in Nat
      BY <1>1, <1>2 DEF EachIsCounted, TypeOK
    <3> QED BY <1>2, <3>1, ProxiedFinite DEF TypeOK
  <2>2. \A v \in Workers : busy'[v] # None => phase'[busy'[v]] \in {"headers", "eom"}
    BY <1>1, <1>2, <1>3 DEF TypeOK
  <2>3. 0 \in 0..Cardinality(Transactions)
    BY ProxiedFinite
  <2> QED BY <1>1, <1>2, <2>1, <2>2, <2>3 DEF TypeOK
<1>8. AliveInside' /\ NotYetReplied'
  BY <1>1, <1>2, <1>3 DEF AliveInside, NotYetReplied, TypeOK
<1>9. Phases' /\ WholeBody' /\ OneReply'
  BY <1>1, <1>2 DEF Phases, WholeBody, OneReply, TypeOK
<1> QED BY <1>6, <1>7, <1>8, <1>9

LEMMA OnBodyKeeps ==
  ASSUME HInv, NEW c \in Transactions, NEW piece \in Pieces, OnBody(c, piece)
  PROVE  HInv'
<1> USE DEF HInv
<1>1. /\ phase[c] \in {"headers", "body"}
      /\ sent' = [sent EXCEPT ![c] = Append(@, piece)]
      /\ body_' = IF handler[c] = "proxy" THEN [body_ EXCEPT ![c] = Append(@, piece)] ELSE body_
      /\ UNCHANGED <<url, worker, phase, counter, reqCount_, handler, given, replies, busy>>
  BY DEF OnBody, Live, Chained, transVars, statVars
<1>2. Append(sent[c], piece) \in Seq(Pieces) /\ Append(body_[c], piece) \in Seq(Pieces)
  BY AppendProperties DEF TypeOK
<1>3. TypeOK'
  BY <1>1, <1>2 DEF TypeOK
<1>4. WholeBody'
  BY <1>1 DEF WholeBody, Phases, TypeOK
<1>5. Phases' /\ AliveInside' /\ NotYetReplied' /\ OneReply'
  BY <1>1 DEF Phases, AliveInside, NotYetReplied, OneReply, TypeOK
<1>6. Loaded' /\ EachIsCounted'
  BY <1>1, CountsKept DEF Counting, statVars
<1> QED BY <1>3, <1>4, <1>5, <1>6

LEMMA OnEOMKeeps ==
  ASSUME HInv, NEW c \in Transactions, OnEOM(c)
  PROVE  HInv'
<1> USE DEF HInv
<1>1. /\ phase[c] \in {"headers", "body"} /\ busy[worker[c]] = None /\ worker[c] \in Workers
      /\ replies[c] = <<>> /\ c # None
      /\ phase' = [phase EXCEPT ![c] = "eom"]
      /\ UNCHANGED <<url, worker, sent, counter, reqCount_, handler>>
  BY HandlerAssumption DEF OnEOM, Live, Idle, Phases, TypeOK, statVars
<1>2. \A v \in Workers : busy[v] # None => busy[v] # c
  BY <1>1 DEF AliveInside
<1>3. \A v \in Workers : Counting(v)' = Counting(v)
  BY <1>1, <1>2 DEF OnEOM, Counting, TypeOK
<1>4. Loaded' /\ EachIsCounted'
  BY <1>1, <1>3, CountsKept DEF statVars, TypeOK
<1>5. CASE handler[c] = "proxy"
  <2>1. /\ given' = [given EXCEPT ![c] = body_[c]]
        /\ body_' = [body_ EXCEPT ![c] = <<>>]
        /\ busy' = [busy EXCEPT ![worker[c]] = c]
        /\ UNCHANGED replies
    BY <1>5 DEF OnEOM
  <2>2. <<>> \in Seq(Pieces) /\ body_[c] \in Seq(Pieces) /\ body_[c] # NotGiven
    BY EmptySeq, HandlerAssumption DEF TypeOK
  <2>3. TypeOK'
    <3>1. \A v \in Workers : busy'[v] # None => phase'[busy'[v]] \in {"headers", "eom"}
      BY <1>1, <1>2, <2>1 DEF TypeOK
    <3> QED BY <1>1, <2>1, <2>2, <3>1 DEF TypeOK
  <2>4. WholeBody'
    BY <1>1, <1>5, <2>1, <2>2 DEF WholeBody, Phases, TypeOK
  <2>5. AliveInside' /\ NotYetReplied'
    BY <1>1, <1>2, <1>5, <2>1 DEF AliveInside, NotYetReplied, TypeOK
  <2>6. Phases' /\ OneReply'
    BY <1>1, <2>1 DEF Phases, OneReply, TypeOK
  <2> QED BY <1>4, <2>3, <2>4, <2>5, <2>6
<1>6. CASE handler[c] # "proxy"
  <2>1. /\ replies' = [replies EXCEPT ![c] = Append(@, "empty")]
        /\ UNCHANGED <<given, body_, busy>>
    BY <1>6 DEF OnEOM
  <2>2. /\ Append(replies[c], "empty") \in Seq({"weights", "reason", "empty"})
        /\ Len(Append(replies[c], "empty")) = 1
    BY <1>1, AppendProperties, EmptySeq DEF TypeOK
  <2>3. TypeOK'
    BY <1>1, <1>2, <2>1, <2>2 DEF TypeOK
  <2>4. AliveInside' /\ NotYetReplied'
    BY <1>1, <1>2, <2>1 DEF AliveInside, NotYetReplied, TypeOK
  <2>5. Phases' /\ WholeBody' /\ OneReply'
    BY <1>1, <1>6, <2>1, <2>2 DEF Phases, WholeBody, OneReply, TypeOK
  <2> QED BY <1>4, <2>3, <2>4, <2>5
<1> QED BY <1>5, <1>6

LEMMA ExpressReturnsKeeps ==
  ASSUME HInv, NEW w \in Workers, ExpressReturns(w)
  PROVE  HInv'
<1> USE DEF HInv
<1> DEFINE c == busy[w]
<1>1. /\ c \in Transactions /\ c # None /\ phase[c] = "eom" /\ worker[c] = w
      /\ replies[c] = <<>>
  BY DEF ExpressReturns, AliveInside, NotYetReplied, TypeOK
<1>2. PICK ret \in BOOLEAN : replies' = [replies EXCEPT ![c] = @ \o Replied(ret)]
  BY DEF ExpressReturns
<1>3. /\ busy' = [busy EXCEPT ![w] = None]
      /\ UNCHANGED <<url, worker, phase, body_, sent, given, counter, reqCount_, handler>>
  BY DEF ExpressReturns, transVars, bodyVars, statVars
<1>4. \A v \in Workers : v # w /\ busy[v] # None => busy[v] # c
  BY <1>1 DEF AliveInside
<1> HIDE DEF c
<1>5. /\ replies[c] \o Replied(ret) \in Seq({"weights", "reason", "empty"})
      /\ Len(replies[c] \o Replied(ret)) = 1
      /\ replies[c] \o Replied(ret) # <<>>
  <2>1. Replied(ret) \in Seq({"weights", "reason", "empty"}) /\ Len(Replied(ret)) = 1
    <3>1. Replied(ret) = <<"weights">> \/ Replied(ret) = <<"reason">>
      BY DEF Replied
    <3>2. /\ <<"weights">> \in Seq({"weights", "reason", "empty"}) /\ Len(<<"weights">>) = 1
          /\ <<"reason">> \in Seq({"weights", "reason", "empty"}) /\ Len(<<"reason">>) = 1
      OBVIOUS
    <3> QED BY <3>1, <3>2
  <2>2. replies[c] \o Replied(ret) = Replied(ret)
    BY <1>1, <2>1, ConcatEmptySeq
  <2> QED BY <2>1, <2>2, EmptySeq
<1>6. TypeOK'
  BY <1>1, <1>2, <1>3, <1>5 DEF TypeOK
<1>7. AliveInside' /\ NotYetReplied'
  BY <1>1, <1>2, <1>3, <1>4 DEF AliveInside, NotYetReplied, TypeOK
<1>8. Phases' /\ WholeBody' /\ OneReply'
  <2> DEFINE new == replies[c] \o Replied(ret)
  <2>1. Len(new) = 1 /\ new # <<>> /\ replies' = [replies EXCEPT ![c] = new]
    BY <1>2, <1>5
  <2> HIDE DEF new
  <2>2. \A d \in Transactions : replies'[d] = IF d = c THEN new ELSE replies[d]
    BY <2>1 DEF TypeOK
  <2>3. OneReply'
    <3>1. ASSUME NEW d \in Transactions
          PROVE  /\ Len(replies'[d]) <= 1
                 /\ replies'[d] # <<>> => phase'[d] \in {"eom", "complete", "failed"}
                 /\ phase'[d] = "complete" => replies'[d] # <<>>
      <4>1. CASE d = c
        BY <1>1, <1>3, <2>1, <2>2, <4>1
      <4>2. CASE d # c
        BY <1>3, <2>2, <4>2 DEF OneReply
      <4> QED BY <4>1, <4>2
    <3> QED BY <3>1 DEF OneReply
  <2> QED BY <1>1, <1>3, <2>2, <2>3 DEF Phases, WholeBody, TypeOK
<1>9. \A v \in Workers : Counting(v)' = Counting(v)
  BY <1>1, <1>3, <1>4 DEF Counting, TypeOK, c
<1>10. Loaded' /\ EachIsCounted'
  BY <1>3, <1>9, CountsKept DEF statVars
<1> QED BY <1>6, <1>7, <1>8, <1>10

\* requestComplete and onError delete the handler of a transaction whose worker
\* is not inside a callback.
LEMMA DeletedKeeps ==
  ASSUME HInv, NEW c \in Transactions, RequestComplete(c) \/ OnError(c)
  PROVE  HInv'
<1> USE DEF HInv
<1>1. /\ phase[c] \in {"headers", "body", "eom"} /\ busy[worker[c]] = None
      /\ \/ phase' = [phase EXCEPT ![c] = "complete"] /\ replies[c] # <<>>
         \/ phase' = [phase EXCEPT ![c] = "failed"]
      /\ handler' = [handler EXCEPT ![c] = "none"]
      /\ body_' = [body_ EXCEPT ![c] = <<>>]
      /\ UNCHANGED <<url, worker, sent, given, counter, reqCount_, replies, busy>>
  BY DEF RequestComplete, OnError, AfterError, Deleted, Live, Idle, statVars
<1>2. \A v \in Workers : busy[v] # None => busy[v] # c
  BY <1>1 DEF AliveInside
<1>3. <<>> \in Seq(Pieces)
  BY EmptySeq
<1>4. TypeOK'
  BY <1>1, <1>2, <1>3 DEF TypeOK
<1>5. AliveInside' /\ NotYetReplied'
  BY <1>1, <1>2 DEF AliveInside, NotYetReplied, TypeOK
<1>6. Phases' /\ WholeBody' /\ OneReply'
  BY <1>1 DEF Phases, WholeBody, OneReply, TypeOK
<1>7. \A v \in Workers : Counting(v)' = Counting(v)
  BY <1>1, <1>2 DEF Counting, TypeOK
<1>8. Loaded' /\ EachIsCounted'
  BY <1>1, <1>7, CountsKept DEF statVars, TypeOK
<1> QED BY <1>4, <1>5, <1>6, <1>8

LEMMA HInvNext == HInv /\ [Next]_vars => HInv'
<1> SUFFICES ASSUME HInv, [Next]_vars PROVE HInv'
  OBVIOUS
<1>1. CASE UNCHANGED vars
  <2>1. \A w \in Workers : Counting(w)' = Counting(w) /\ Proxied(w)' = Proxied(w)
    BY <1>1 DEF Counting, Proxied, vars, transVars
  <2> QED BY <1>1, <2>1 DEF HInv, TypeOK, Phases, AliveInside, WholeBody, NotYetReplied,
             OneReply, Loaded, EachIsCounted, vars, transVars, bodyVars, statVars
<1> QED
  BY <1>1, OnRequestKeeps, RecordRequestKeeps, OnBodyKeeps, OnEOMKeeps,
     ExpressReturnsKeeps, DeletedKeeps DEF Next, Served

LEMMA HInvAlways == Spec => []HInv
BY HInvInit, HInvNext, PTL DEF Spec

\* Every variable keeps its type; the statistics stay below the number of
\* transactions.
THEOREM HandlerTypeCorrect == Spec => []TypeOK
<1>1. HInv => TypeOK
  BY DEF HInv
<1> QED BY <1>1, HInvAlways, PTL

\* tgpExpress gets the body as it was sent, in any number of parts.
THEOREM BodiesAreWhole == Spec => []WholeBody
<1>1. HInv => WholeBody
  BY DEF HInv
<1> QED BY <1>1, HInvAlways, PTL

\* The counters of the workers lose no request.
THEOREM StatisticsAreExact == Spec => []EachIsCounted
<1>1. HInv => EachIsCounted
  BY DEF HInv
<1> QED BY <1>1, HInvAlways, PTL

\* A handler lives as long as a callback of it is under way.
THEOREM HandlersLiveInside == Spec => []AliveInside
<1>1. HInv => AliveInside
  BY DEF HInv
<1> QED BY <1>1, HInvAlways, PTL

-----------------------------------------------------------------------------
(* Routing.                                                                *)

\* Induction over the naturals, for a set in place of a predicate.
LEMMA SetInduction ==
  ASSUME NEW S, 0 \in S, \A n \in Nat : n \in S => n + 1 \in S
  PROVE  Nat \subseteq S
<1> DEFINE Less == OpToRel(<, Nat)
<1>1. \A m, n \in Nat : m < n => <<m, n>> \in Less
  BY Zenon DEF OpToRel
<1>2. IsWellFoundedOn(Less, Nat)
  BY Zenon, NatLessThanWellFounded
<1> HIDE DEF Less
<1> SUFFICES ASSUME Nat \ S # {} PROVE FALSE
  OBVIOUS
<1>3. PICK m \in Nat \ S : \A n \in Nat \ S : ~(<<n, m>> \in Less)
  BY <1>2, WFMin
<1>4. m # 0 /\ m - 1 \in Nat /\ m - 1 \notin S
  OBVIOUS
<1>5. <<m - 1, m>> \in Less
  <2>1. m - 1 \in Nat /\ m - 1 < m
    OBVIOUS
  <2> QED BY <1>1, <1>4, <2>1
<1> QED BY <1>3, <1>4, <1>5

\* upTo is the list of terms of every prefix of u with at most m characters.
TermsUpTo(upTo, u, m) ==
  upTo = [n \in 0..m |-> IF n = 0 THEN <<<<>>>> ELSE Continued(upTo[n - 1], u[n])]

\* terms are what the slashes leave of the first n characters of u: the slashes
\* are at at[2], at[3], ..., and a term reaches up to the next one or the end.
CutAt(at, terms, u, n) ==
  /\ terms \in Seq(Seq(STRING)) /\ Len(terms) > 0
  /\ at \in [1..Len(terms) -> 0..n] /\ at[1] = 0
  /\ \A i \in 1..(Len(terms) - 1) : at[i] < at[i + 1]
  /\ \A k \in 1..n : u[k] = Slash <=> \E i \in 2..Len(terms) : at[i] = k
  /\ \A i \in 1..(Len(terms) - 1) : Len(terms[i]) = at[i + 1] - at[i] - 1
  /\ Len(terms[Len(terms)]) = n - at[Len(terms)]

\* The recursion of Terms has a solution: one more character extends it.
LEMMA TermsExist ==
  ASSUME NEW u, NEW m \in Nat
  PROVE  \E upTo : TermsUpTo(upTo, u, m)
<1> DEFINE S == {n \in Nat : \E upTo : TermsUpTo(upTo, u, n)}
<1>1. 0 \in S
  <2>1. TermsUpTo([n \in 0..0 |-> <<<<>>>>], u, 0)
    BY DEF TermsUpTo
  <2> QED BY <2>1
<1>2. ASSUME NEW n \in Nat, n \in S PROVE n + 1 \in S
  <2>1. PICK f : TermsUpTo(f, u, n)
    BY <1>2
  <2> DEFINE g == [i \in 0..(n + 1) |-> IF i <= n THEN f[i] ELSE Continued(f[n], u[n + 1])]
  <2>2. \A i \in 0..(n + 1) :
          g[i] = IF i = 0 THEN <<<<>>>> ELSE Continued(g[i - 1], u[i])
    <3> SUFFICES ASSUME NEW i \in 0..(n + 1)
                 PROVE  g[i] = IF i = 0 THEN <<<<>>>> ELSE Continued(g[i - 1], u[i])
      OBVIOUS
    <3>1. CASE i = n + 1
      <4>1. g[i] = Continued(f[n], u[n + 1]) /\ g[n] = f[n] /\ i - 1 = n /\ i # 0
        BY <3>1
      <4> HIDE DEF g
      <4> QED BY <3>1, <4>1
    <3>2. CASE i # n + 1
      <4>1. i \in 0..n /\ g[i] = f[i] /\ (i # 0 => g[i - 1] = f[i - 1])
        BY <3>2
      <4>2. f[i] = IF i = 0 THEN <<<<>>>> ELSE Continued(f[i - 1], u[i])
        BY <2>1, <4>1 DEF TermsUpTo
      <4> HIDE DEF g
      <4> QED BY <4>1, <4>2
    <3> QED BY <3>1, <3>2
  <2>3. TermsUpTo(g, u, n + 1)
    BY <2>2 DEF TermsUpTo
  <2> QED BY <2>3
<1> HIDE DEF S
<1>3. m \in S
  BY <1>1, <1>2, SetInduction
<1> QED BY <1>3 DEF S

\* One more character, after the terms of the first n.
LEMMA ContinuedCut ==
  ASSUME NEW u \in Seq(STRING), NEW n \in 0..(Len(u) - 1), NEW at, NEW terms,
         CutAt(at, terms, u, n)
  PROVE  \E new : CutAt(new, Continued(terms, u[n + 1]), u, n + 1)
<1> DEFINE L == Len(terms)
<1>1. terms \in Seq(Seq(STRING)) /\ L \in Nat \ {0} /\ n \in Nat
  <2>1. terms \in Seq(Seq(STRING)) /\ L > 0
    BY DEF CutAt
  <2>2. L \in Nat /\ Len(u) \in Nat
    BY <2>1, LenProperties
  <2> QED BY <2>1, <2>2
<1>2. /\ at \in [1..L -> 0..n] /\ at[1] = 0
      /\ \A i \in 1..(L - 1) : at[i] < at[i + 1]
      /\ \A k \in 1..n : u[k] = Slash <=> \E i \in 2..L : at[i] = k
      /\ \A i \in 1..(L - 1) : Len(terms[i]) = at[i + 1] - at[i] - 1
      /\ Len(terms[L]) = n - at[L]
  BY DEF CutAt
<1>3. \A i \in 1..L : terms[i] \in Seq(STRING) /\ at[i] \in 0..n
  <2>1. \A i \in 1..L : terms[i] \in Seq(STRING)
    BY <1>1, ElementOfSeq
  <2> QED BY <1>2, <2>1
<1>4. CASE u[n + 1] = Slash
  <2> DEFINE all == Append(terms, <<>>)
             new == [i \in 1..(L + 1) |-> IF i <= L THEN at[i] ELSE n + 1]
  <2>1. Continued(terms, u[n + 1]) = all
    BY <1>4 DEF Continued
  <2>2. /\ all \in Seq(Seq(STRING)) /\ Len(all) = L + 1
        /\ \A i \in 1..L : all[i] = terms[i]
        /\ all[L + 1] = <<>>
    BY <1>1, AppendProperties, EmptySeq
  <2> HIDE DEF all, L
  <2>3. /\ new \in [1..(L + 1) -> 0..(n + 1)]
        /\ \A i \in 1..L : new[i] = at[i]
        /\ new[L + 1] = n + 1
    <3>1. \A i \in 1..(L + 1) : i <= L => i \in 1..L /\ at[i] \in 0..(n + 1)
      BY <1>1, <1>3
    <3> QED BY <1>1, <3>1
  <2> HIDE DEF new
  <2>4. new[1] = 0 /\ \A i \in 1..L : new[i] < new[i + 1]
    <3>1. new[1] = 0 /\ new[L] < new[L + 1]
      BY <1>1, <1>2, <1>3, <2>3
    <3>2. ASSUME NEW i \in 1..(L - 1) PROVE new[i] < new[i + 1]
      <4>1. i \in 1..L /\ i + 1 \in 1..L
        BY <1>1
      <4> QED BY <1>2, <2>3, <4>1
    <3> QED BY <1>1, <3>1, <3>2
  <2>5. \A k \in 1..(n + 1) : u[k] = Slash <=> \E i \in 2..(L + 1) : new[i] = k
    <3>1. \A i \in 2..L : i \in 1..L /\ i \in 2..(L + 1)
      BY <1>1
    <3>2. ASSUME NEW k \in 1..n
          PROVE  u[k] = Slash <=> \E i \in 2..(L + 1) : new[i] = k
      <4>1. u[k] = Slash <=> \E i \in 2..L : at[i] = k
        BY <1>2
      <4>2. \A i \in 2..(L + 1) : new[i] = k => i \in 2..L
        BY <1>1, <2>3
      <4> QED BY <2>3, <3>1, <4>1, <4>2
    <3>3. L + 1 \in 2..(L + 1) /\ new[L + 1] = n + 1
      BY <1>1, <2>3
    <3> QED BY <1>1, <1>4, <3>2, <3>3
  <2>6. \A i \in 1..L : Len(all[i]) = new[i + 1] - new[i] - 1
    <3>1. ASSUME NEW i \in 1..(L - 1) PROVE Len(all[i]) = new[i + 1] - new[i] - 1
      <4>1. i \in 1..L /\ i + 1 \in 1..L
        BY <1>1
      <4> QED BY <1>2, <2>2, <2>3, <4>1
    <3>2. Len(all[L]) = new[L + 1] - new[L] - 1
      <4>1. L \in 1..L /\ at[L] \in 0..n
        BY <1>1, <1>3
      <4>2. Len(all[L]) = n - at[L] /\ new[L] = at[L] /\ new[L + 1] = n + 1
        BY <1>2, <2>2, <2>3, <4>1
      <4> QED BY <1>1, <4>1, <4>2
    <3> QED BY <1>1, <3>1, <3>2
  <2>7. Len(all[L + 1]) = (n + 1) - new[L + 1]
    BY <1>1, <2>2, <2>3, EmptySeq
  <2>8. L + 1 > 0 /\ (L + 1) - 1 = L
    BY <1>1
  <2>9. CutAt(new, all, u, n + 1)
    BY <2>2, <2>3, <2>4, <2>5, <2>6, <2>7, <2>8 DEF CutAt
  <2> QED BY <2>1, <2>9
<1>5. CASE u[n + 1] # Slash
  <2> DEFINE all == [terms EXCEPT ![L] = Append(@, u[n + 1])]
  <2>1. Continued(terms, u[n + 1]) = all
    BY <1>5 DEF Continued
  <2>2. L \in 1..L /\ terms[L] \in Seq(STRING) /\ u[n + 1] \in STRING
    BY <1>1, <1>3
  <2>3. /\ Append(terms[L], u[n + 1]) \in Seq(STRING)
        /\ Len(Append(terms[L], u[n + 1])) = Len(terms[L]) + 1
    BY <2>2, AppendProperties
  <2>4. /\ all \in Seq(Seq(STRING)) /\ Len(all) = L
        /\ \A i \in 1..L : i # L => all[i] = terms[i]
        /\ all[L] = Append(terms[L], u[n + 1])
    BY <1>1, <2>2, <2>3, ExceptSeq
  <2> HIDE DEF all, L
  <2>5. at \in [1..L -> 0..(n + 1)]
    BY <1>1, <1>2, <1>3
  <2>6. \A k \in 1..(n + 1) : u[k] = Slash <=> \E i \in 2..L : at[i] = k
    <3>1. \A i \in 2..L : at[i] # n + 1
      BY <1>1, <1>3
    <3>2. \A k \in 1..(n + 1) : k \in 1..n \/ k = n + 1
      BY <1>1
    <3> QED BY <1>2, <1>5, <3>1, <3>2
  <2>7. Len(all[L]) = (n + 1) - at[L]
    <3>1. Len(terms[L]) = n - at[L] /\ at[L] \in 0..n
      BY <1>2, <1>3, <2>2
    <3>2. Len(all[L]) = Len(terms[L]) + 1
      BY <2>3, <2>4
    <3>3. n \in Nat
      OBVIOUS
    <3> QED BY ONLY <3>1, <3>2, <3>3
  <2>8. \A i \in 1..(L - 1) : Len(all[i]) = at[i + 1] - at[i] - 1
    <3>1. \A i \in 1..(L - 1) : i \in 1..L /\ i # L
      BY <1>1
    <3> QED BY <1>2, <2>4, <3>1
  <2>9. CutAt(at, all, u, n + 1)
    <3>1. at[1] = 0 /\ \A i \in 1..(L - 1) : at[i] < at[i + 1]
      BY <1>2
    <3>2. L > 0
      BY <1>1
    <3> QED BY ONLY <2>4, <2>5, <2>6, <2>7, <2>8, <3>1, <3>2 DEF CutAt
  <2> QED BY <2>1, <2>9
<1> QED BY <1>4, <1>5

\* Split cuts a path at its slashes, and nowhere else.
THEOREM SplitCutsAtSlashes ==
  ASSUME NEW u \in Seq(STRING)
  PROVE  \E at : CutAt(at, Terms(u), u, Len(u))
<1> DEFINE upTo == CHOOSE f : TermsUpTo(f, u, Len(u))
<1>1. TermsUpTo(upTo, u, Len(u))
  BY TermsExist
<1>2. Terms(u) = upTo[Len(u)]
  BY DEF Terms, TermsUpTo
<1> HIDE DEF upTo
<1> DEFINE S == {n \in Nat : n <= Len(u) => \E at : CutAt(at, upTo[n], u, n)}
<1>3. 0 \in S
  <2>1. upTo[0] = <<<<>>>>
    BY <1>1 DEF TermsUpTo
  <2>2. CutAt([i \in 1..1 |-> 0], <<<<>>>>, u, 0)
    BY DEF CutAt
  <2> QED BY <2>1, <2>2
<1>4. ASSUME NEW n \in Nat, n \in S PROVE n + 1 \in S
  <2> SUFFICES ASSUME n + 1 <= Len(u)
               PROVE  \E at : CutAt(at, upTo[n + 1], u, n + 1)
    OBVIOUS
  <2>1. n \in 0..(Len(u) - 1) /\ n + 1 \in 0..Len(u) /\ n + 1 # 0 /\ (n + 1) - 1 = n
    OBVIOUS
  <2>2. upTo[n + 1] = Continued(upTo[n], u[n + 1])
    BY <1>1, <2>1 DEF TermsUpTo
  <2>3. PICK at : CutAt(at, upTo[n], u, n)
    BY <1>4, <2>1
  <2> QED BY <2>1, <2>2, <2>3, ContinuedCut
<1> HIDE DEF S
<1>5. Len(u) \in S
  BY <1>3, <1>4, SetInduction
<1> QED BY <1>2, <1>5 DEF S

\* The factory's test on the terms picks out the paths of models.
LEMMA ProxyServesModels ==
  ASSUME NEW u \in Seq(STRING), u # <<>>, IsTarget(u)
  PROVE  HandlerFor(u) = "proxy" <=> IsModelPath(u)
<1> DEFINE terms == Terms(u)
           L == Len(terms)
           N == Len(u)
<1>1. PICK at : CutAt(at, terms, u, N)
  BY SplitCutsAtSlashes
<1>2. HandlerFor(u) = "proxy" <=>
        u # <<Slash>> /\ L = 3 /\ terms[2] # <<>> /\ terms[3] # <<>>
  BY DEF HandlerFor, Split
<1> HIDE DEF terms
<1>3. L \in Nat \ {0} /\ \A i \in 1..L : terms[i] \in Seq(STRING)
  <2>1. terms \in Seq(Seq(STRING)) /\ L > 0
    BY <1>1 DEF CutAt
  <2> QED BY <2>1, LenProperties, ElementOfSeq
<1>4. N \in Nat \ {0}
  BY EmptySeq, LenProperties
<1>5. /\ at \in [1..L -> 0..N] /\ at[1] = 0
      /\ \A i \in 1..(L - 1) : at[i] < at[i + 1]
      /\ \A k \in 1..N : u[k] = Slash <=> \E i \in 2..L : at[i] = k
      /\ \A i \in 1..(L - 1) : Len(terms[i]) = at[i + 1] - at[i] - 1
      /\ Len(terms[L]) = N - at[L]
  BY <1>1 DEF CutAt
<1>6. \A k \in 2..N :
        u[k] = Slash /\ (\A j \in 1..(k - 1) : u[j] # Slash) =>
          k + 1 \in 1..N /\ u[k + 1] = Slash
  BY DEF IsTarget
<1>7. IsModelPath(u) <=>
        \E name, version \in 1..N :
          /\ N = name + version + 2
          /\ \A k \in 1..N : u[k] = Slash <=> k \in {1, name + 2}
  BY DEF IsModelPath
<1>8. u = <<Slash>> => N = 1
  OBVIOUS
<1> HIDE DEF L, N
\* Three terms: the slashes are at at[2] and at[3], and one has to be the first.
<1>9. ASSUME HandlerFor(u) = "proxy" PROVE IsModelPath(u)
  <2>1. /\ L = 3 /\ Len(terms[2]) > 0 /\ Len(terms[3]) > 0
        /\ Len(terms[2]) \in Nat /\ Len(terms[3]) \in Nat
    <3>1. L = 3 /\ terms[2] # <<>> /\ terms[3] # <<>>
      BY <1>2, <1>9
    <3>2. terms[2] \in Seq(STRING) /\ terms[3] \in Seq(STRING)
      BY <1>3, <3>1
    <3>3. Len(terms[2]) \in Nat \ {0} /\ Len(terms[3]) \in Nat \ {0}
      BY <3>1, <3>2, EmptySeq
    <3> QED BY <3>1, <3>3
  <2>2. /\ at[1] = 0 /\ at[1] < at[2] /\ at[2] < at[3]
        /\ Len(terms[2]) = at[3] - at[2] - 1
        /\ Len(terms[3]) = N - at[3]
        /\ at[2] \in 0..N /\ at[3] \in 0..N
    BY <1>5, <2>1
  <2>3. \A k \in 1..N : u[k] = Slash <=> k \in {at[2], at[3]}
    <3>1. 2..3 = {2, 3}
      OBVIOUS
    <3> QED BY <1>5, <2>1, <3>1
  <2>4. at[2] = 1
    <3> SUFFICES ASSUME at[2] # 1 PROVE FALSE
      OBVIOUS
    <3>1. at[2] \in 2..N /\ at[2] \in 1..N
      BY <1>4, <2>2
    <3>2. u[at[2]] = Slash
      BY <2>3, <3>1
    <3>3. \A j \in 1..(at[2] - 1) : u[j] # Slash
      <4> SUFFICES ASSUME NEW j \in 1..(at[2] - 1) PROVE u[j] # Slash
        OBVIOUS
      <4>1. j \in 1..N /\ j # at[2] /\ j # at[3]
        BY <1>4, <2>2, <3>1
      <4> QED BY <2>3, <4>1
    <3>4. at[2] + 1 \in 1..N /\ u[at[2] + 1] = Slash
      BY <1>6, <3>1, <3>2, <3>3
    <3>5. at[2] + 1 \in {at[2], at[3]}
      BY <2>3, <3>4
    <3>6. at[3] - at[2] - 1 > 0
      BY <2>1, <2>2
    <3> QED BY <2>2, <3>5, <3>6
  <2> DEFINE name == at[3] - 2
             version == N - at[3]
  <2>5. /\ name \in 1..N /\ version \in 1..N
        /\ N = name + version + 2 /\ name + 2 = at[3]
    <3>1. at[3] - 2 > 0 /\ N - at[3] > 0 /\ at[3] \in 0..N
      <4>1. at[2] = 1 /\ at[3] - at[2] - 1 > 0 /\ at[3] \in 0..N
        BY <2>1, <2>2, <2>4
      <4> QED BY <1>4, <2>1, <2>2, <4>1
    <3>2. \A x \in 0..N : x - 2 > 0 /\ N - x > 0 =>
            /\ x - 2 \in 1..N /\ N - x \in 1..N
            /\ N = (x - 2) + (N - x) + 2 /\ (x - 2) + 2 = x
      BY <1>4
    <3> QED BY <3>1, <3>2
  <2> HIDE DEF name, version
  <2> QED BY <1>7, <2>3, <2>4, <2>5
\* Two slashes, of which the first character is one: three terms.
<1>10. ASSUME IsModelPath(u) PROVE HandlerFor(u) = "proxy"
  <2>1. PICK name \in 1..N, version \in 1..N :
          /\ N = name + version + 2
          /\ \A k \in 1..N : u[k] = Slash <=> k \in {1, name + 2}
    BY <1>7, <1>10
  <2>2. \A i \in 2..L : at[i] \in {1, name + 2}
    <3> SUFFICES ASSUME NEW i \in 2..L PROVE at[i] \in {1, name + 2}
      OBVIOUS
    <3>1. i - 1 \in 1..(L - 1) /\ i - 1 \in 1..L /\ i \in 1..L /\ (i - 1) + 1 = i
      BY <1>3
    <3>2. at[i - 1] < at[i] /\ at[i - 1] \in 0..N /\ at[i] \in 0..N
      BY <1>5, <3>1
    <3>3. at[i] \in 1..N
      BY <1>4, <3>2
    <3>4. u[at[i]] = Slash
      BY <1>5, <3>3
    <3> QED BY <2>1, <3>3, <3>4
  <2>3. /\ \E i \in 2..L : at[i] = 1
        /\ \E i \in 2..L : at[i] = name + 2
    <3>1. 1 \in 1..N /\ name + 2 \in 1..N
      BY <1>4, <2>1
    <3>2. u[1] = Slash /\ u[name + 2] = Slash
      BY <2>1, <3>1
    <3> QED BY <1>5, <3>1, <3>2
  <2>4. L >= 3
    BY <1>3, <2>1, <2>3
  <2>5. at[2] < at[3] /\ (L > 3 => at[3] < at[4])
    <3>1. 2 \in 1..(L - 1) /\ (L > 3 => 3 \in 1..(L - 1))
      BY <1>3, <2>4
    <3> QED BY <1>5, <3>1
  <2>6. at[2] = 1 /\ at[3] = name + 2
    <3>1. at[2] \in {1, name + 2} /\ at[3] \in {1, name + 2}
      BY <1>3, <2>2, <2>4
    <3> QED BY <1>4, <2>5, <3>1
  <2>7. L = 3
    <3>1. L > 3 => at[4] \in {1, name + 2}
      BY <1>3, <2>2
    <3> QED BY <1>3, <1>4, <2>4, <2>5, <2>6, <3>1
  <2>8. Len(terms[2]) = name /\ Len(terms[3]) = version
    <3>1. Len(terms[2]) = at[3] - at[2] - 1 /\ Len(terms[3]) = N - at[3]
      BY <1>5, <2>7
    <3> QED BY <1>4, <2>1, <2>6, <3>1
  <2>9. terms[2] # <<>> /\ terms[3] # <<>>
    <3>1. Len(<<>>) = 0
      BY EmptySeq
    <3> QED BY <1>4, <2>8, <3>1
  <2>10. u # <<Slash>>
    BY <1>4, <1>8, <2>1
  <2> QED BY <1>2, <2>7, <2>9, <2>10
<1> QED BY <1>9, <1>10

\* A transaction keeps the handler its path was given.
Routed ==
  \A c \in Transactions :
    handler[c] # "none" => url[c] \in Urls /\ handler[c] = HandlerFor(url[c])

LEMMA RoutedAlways == Spec => []Routed
<1>1. Init => Routed
  BY DEF Init, Routed
<1>2. HInv /\ Routed /\ [Next]_vars => Routed'
  <2> SUFFICES ASSUME TypeOK, Routed, [Next]_vars PROVE Routed'
    BY DEF HInv
  <2>1. ASSUME NEW c \in Transactions, NEW w \in Workers, NEW u \in Urls, OnRequest(c, w, u)
        PROVE  Routed'
    BY <2>1 DEF OnRequest, Routed, TypeOK
  <2>2. ASSUME UNCHANGED <<url, handler>> PROVE Routed'
    BY <2>2 DEF Routed
  <2>3. ASSUME NEW c \in Transactions, RequestComplete(c) \/ OnError(c) PROVE Routed'
    BY <2>3 DEF RequestComplete, OnError, AfterError, Deleted, Routed, TypeOK
  <2> QED
    BY <2>1, <2>2, <2>3
    DEF Next, OnBody, OnEOM, RecordRequest, ExpressReturns, Served, vars, transVars
<1> QED BY <1>1, <1>2, HInvAlways, PTL DEF Spec

\* The factory gives the proxy exactly the requests for /name/version, whatever
\* paths clients send (onRequest of TGProxyHandlerFactory).
THEOREM ProxyServesOnlyModels == Spec => []OnlyModelPaths
<1>1. Routed => OnlyModelPaths
  BY HandlerAssumption, PathsAssumption, ProxyServesModels DEF Routed, OnlyModelPaths
<1> QED BY <1>1, RoutedAlways, PTL

-----------------------------------------------------------------------------
(* The front end keeps what Exchange promises.                             *)

\* A transaction under way has a handler, and onEOM of the proxy gave the body
\* away.
Handled ==
  \A c \in Transactions :
    /\ Live(c) => handler[c] # "none"
    /\ handler[c] = "proxy" /\ phase[c] = "eom" => given[c] # NotGiven

LEMMA HandledAlways == Spec => []Handled
<1>1. Init => Handled
  BY DEF Init, Handled, Live
<1>2. HInv /\ Handled /\ [Next]_vars => Handled'
  <2> SUFFICES ASSUME HInv, Handled, [Next]_vars PROVE Handled'
    OBVIOUS
  <2> USE DEF HInv
  <2>1. ASSUME NEW c \in Transactions, NEW w \in Workers, NEW u \in Urls, OnRequest(c, w, u)
        PROVE  Handled'
    BY <2>1, HandlerKinds DEF OnRequest, Handled, Live, bodyVars, TypeOK
  <2>2. ASSUME NEW w \in Workers, RecordRequest(w) PROVE Handled'
    <3>1. busy[w] \in Transactions /\ phase[busy[w]] = "headers"
      BY <2>2 DEF RecordRequest, TypeOK
    <3> QED BY <2>2, <3>1 DEF RecordRequest, Handled, Live, bodyVars, TypeOK
  <2>3. ASSUME UNCHANGED <<phase, handler, given>> PROVE Handled'
    BY <2>3 DEF Handled, Live
  <2>4. ASSUME NEW c \in Transactions, OnEOM(c) PROVE Handled'
    <3>1. body_[c] # NotGiven
      BY HandlerAssumption DEF TypeOK
    <3> QED BY <2>4, <3>1 DEF OnEOM, Handled, Live, TypeOK
  <2>5. ASSUME NEW c \in Transactions, RequestComplete(c) \/ OnError(c) PROVE Handled'
    <3>1. phase' = [phase EXCEPT ![c] = "complete"] \/ phase' = [phase EXCEPT ![c] = "failed"]
      BY <2>5 DEF RequestComplete, OnError
    <3>2. handler' = [handler EXCEPT ![c] = "none"] /\ given' = given
      BY <2>5 DEF RequestComplete, OnError, AfterError, Deleted
    <3>3. ~Live(c)' /\ handler'[c] = "none"
      BY <3>1, <3>2 DEF Live, TypeOK
    <3>4. \A d \in Transactions \ {c} : /\ Live(d)' = Live(d) /\ handler'[d] = handler[d]
                                      /\ phase'[d] = phase[d]
      BY <3>1, <3>2 DEF Live, TypeOK
    <3> QED BY <3>2, <3>3, <3>4 DEF Handled
  <2> QED
    BY <2>1, <2>2, <2>3, <2>4, <2>5
    DEF Next, OnBody, ExpressReturns, Served, vars, transVars, bodyVars
<1> QED BY <1>1, <1>2, HInvAlways, PTL DEF Spec

\* A transaction that moves on moves on for the client, too.
LEMMA StageMoves ==
  ASSUME TypeOK, NEW c \in Transactions, NEW to,
         phase' = [phase EXCEPT ![c] = to]
  PROVE  Stage' = [Stage EXCEPT ![c] =
                     CASE to \in {"headers", "body"} -> "asking"
                       [] to = "eom"                 -> "read"
                       [] OTHER                      -> to]
BY DEF Stage, TypeOK

\* The proxy answers requests for models, and the wrong handler all others.
LEMMA ReplyFits ==
  ASSUME Routed, NEW c \in Transactions, handler[c] # "none"
  PROVE  handler[c] = "proxy" <=> url[c] \in {u \in Urls : IsModelPath(u)}
BY HandlerAssumption, PathsAssumption, ProxyServesModels DEF Routed

LEMMA ExchangeStep ==
  HInv /\ Routed /\ Handled /\ [Next]_vars => [Client!Next]_(Client!exchangeVars)
<1> SUFFICES ASSUME HInv, Routed, Handled, [Next]_vars
             PROVE  Client!Next \/ UNCHANGED Client!exchangeVars
  OBVIOUS
<1> DEFINE Having == {c \in Transactions : handler[c] # "none"}
<1> USE DEF HInv
<1>1. ASSUME NEW c \in Transactions, NEW w \in Workers, NEW u \in Urls, OnRequest(c, w, u)
      PROVE  Client!Ask(c)
  <2>1. phase[c] = "none" /\ phase' = [phase EXCEPT ![c] = "headers"]
    BY <1>1 DEF OnRequest
  <2>2. Client!Move(c, {"none"}, "asking")
    BY <2>1, StageMoves DEF Client!Move, Stage
  <2>3. Having' = Having \cup {c}
    BY <1>1, HandlerKinds DEF OnRequest, TypeOK
  <2> QED BY <1>1, <2>2, <2>3 DEF Client!Ask, OnRequest, bodyVars
<1>2. ASSUME NEW w \in Workers, RecordRequest(w) PROVE UNCHANGED Client!exchangeVars
  <2>1. /\ busy[w] \in Transactions /\ phase[busy[w]] = "headers"
        /\ phase' = [phase EXCEPT ![busy[w]] = "body"]
    BY <1>2 DEF RecordRequest, TypeOK
  <2>2. Stage' = Stage
    BY <2>1 DEF Stage, TypeOK
  <2> QED BY <1>2, <2>2 DEF RecordRequest, bodyVars, Client!exchangeVars
<1>3. ASSUME NEW c \in Transactions, NEW piece \in Pieces, OnBody(c, piece)
      PROVE  Client!Send(c)
  BY <1>3 DEF OnBody, Live, transVars, Client!Send, Stage
<1>4. ASSUME NEW c \in Transactions, OnEOM(c) PROVE Client!Read(c)
  <2>1. /\ phase[c] \in {"headers", "body"} /\ handler[c] # "none" /\ replies[c] = <<>>
        /\ phase' = [phase EXCEPT ![c] = "eom"]
        /\ UNCHANGED <<url, sent, handler>>
    BY <1>4 DEF OnEOM, Live, Handled, Phases, TypeOK
  <2>2. Client!Move(c, {"asking"}, "read")
    BY <2>1, StageMoves DEF Client!Move, Stage
  <2>3. Client!Answer(c) \/ UNCHANGED replies
    <3>1. CASE handler[c] = "proxy"
      BY <1>4, <3>1 DEF OnEOM
    <3>2. CASE handler[c] # "proxy"
      <4>1. replies' = [replies EXCEPT ![c] = <<"empty">>]
        BY <1>4, <2>1, <3>2 DEF OnEOM
      <4>2. "empty" \in Client!Fitting(c)
        BY <2>1, <3>2, ReplyFits DEF Client!Fitting
      <4> QED BY <2>1, <4>1, <4>2 DEF Client!Answer
    <3> QED BY <3>1, <3>2
  <2> QED BY <2>1, <2>2, <2>3 DEF Client!Read
<1>5. ASSUME NEW w \in Workers, ExpressReturns(w) PROVE Client!Reply(busy[w])
  <2> DEFINE c == busy[w]
  <2>1. /\ c \in Transactions /\ phase[c] = "eom" /\ handler[c] = "proxy"
        /\ replies[c] = <<>> /\ given[c] = sent[c]
        /\ UNCHANGED <<url, phase, sent, handler>>
    BY <1>5 DEF ExpressReturns, AliveInside, NotYetReplied, Handled, WholeBody, TypeOK,
                transVars, bodyVars
  <2>2. PICK ret \in IF given[c] = <<>> THEN {FALSE} ELSE BOOLEAN :
          replies' = [replies EXCEPT ![c] = @ \o Replied(ret)]
    BY <1>5 DEF ExpressReturns
  <2> HIDE DEF c
  <2> DEFINE reply == IF ret THEN "weights" ELSE "reason"
  <2>3. replies' = [replies EXCEPT ![c] = <<reply>>]
    <3>1. Replied(ret) = <<reply>>
      BY DEF Replied
    <3>2. <<>> \o <<reply>> = <<reply>>
      OBVIOUS
    <3> QED BY <2>1, <2>2, <3>1, <3>2
  <2>4. reply \in Client!Fitting(c)
    BY <2>1, <2>2, ReplyFits DEF Client!Fitting
  <2>5. Client!Answer(c)
    BY <2>1, <2>3, <2>4 DEF Client!Answer
  <2>6. Stage[c] = "read" /\ Stage' = Stage
    BY <2>1 DEF Stage
  <2> QED BY <2>1, <2>5, <2>6 DEF Client!Reply, c
<1>6. ASSUME NEW c \in Transactions, RequestComplete(c) \/ OnError(c) PROVE Client!End(c)
  <2>1. \/ /\ phase[c] = "eom" /\ replies[c] # <<>>
           /\ phase' = [phase EXCEPT ![c] = "complete"]
        \/ /\ phase[c] \in {"headers", "body", "eom"}
           /\ phase' = [phase EXCEPT ![c] = "failed"]
    BY <1>6 DEF RequestComplete, OnError, Live
  <2>2. /\ handler' = [handler EXCEPT ![c] = "none"]
        /\ UNCHANGED <<url, sent, replies>>
    BY <1>6 DEF RequestComplete, OnError, AfterError, Deleted
  <2>3. Having' = Having \ {c}
    BY <2>2 DEF TypeOK
  <2>4. \/ replies[c] # <<>> /\ Client!Move(c, {"read"}, "complete")
        \/ Client!Move(c, {"asking", "read"}, "failed")
    BY <2>1, StageMoves DEF Client!Move, Stage
  <2> QED BY <2>2, <2>3, <2>4 DEF Client!End
<1>7. CASE UNCHANGED vars
  BY <1>7 DEF vars, transVars, bodyVars, Client!exchangeVars, Stage
<1>8. CASE Next
  <2>1. ASSUME NEW w \in Workers, busy[w] # None PROVE busy[w] \in Transactions
    BY <2>1 DEF TypeOK
  <2> QED BY <1>1, <1>2, <1>3, <1>4, <1>5, <1>6, <1>7, <1>8, <2>1
          DEF Next, Served, Client!Next, ExpressReturns
<1> QED BY <1>7, <1>8

\* The front end implements Exchange: whatever the transactions of a worker do,
\* each client gets one reply, the right kind of it, at the right time.
THEOREM ExchangeImplemented == Spec => ImplementsExchange
<1>1. Init => Client!Init
  BY DEF Init, Client!Init, Stage
<1> QED
  BY <1>1, ExchangeStep, HInvAlways, RoutedAlways, HandledAlways, PTL
  DEF Spec, ImplementsExchange, Client!Spec

=============================================================================
