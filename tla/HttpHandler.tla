---------------------------- MODULE HttpHandler -----------------------------
(***************************************************************************)
(* The HTTP front end: TGProxyHandlerFactory routes a request by its path, *)
(* and the handler it makes gets the callbacks of one transaction.         *)
(* Transactions of a worker share its thread: one callback at a time, in   *)
(* any order.  The workers run concurrently.                               *)
(*                                                                         *)
(* What tgpExpress makes of a body is the subject of Postman; here it      *)
(* returns true or false.  A path is a sequence of terms and slashes.      *)
(***************************************************************************)
EXTENDS Integers, FiniteSets, SequencesExt

CONSTANTS
  Workers,
  Transactions,
  Urls,       \* the paths clients may send
  Pieces,     \* parts of a body as they come from the connection
  MaxPieces,  \* bound on the parts of one body
  NotGiven    \* no body was given to tgpExpress

Slash == "/"

None == "none"

ASSUME HandlerAssumption ==
  /\ IsFiniteSet(Transactions)
  /\ None \notin Transactions \cup Workers
  /\ Urls \subseteq Seq(STRING) \ {<<>>}
  /\ MaxPieces \in Nat
  /\ NotGiven \notin Seq(Pieces)

\* What the parser of proxygen lets through: the first slash begins a path, or is
\* the first one of the two after the scheme of an absolute URL; "*" and the
\* addresses of CONNECT have none.
IsTarget(u) ==
  \A k \in 2..Len(u) :
    u[k] = Slash /\ (\A j \in 1..(k - 1) : u[j] # Slash) =>
      k + 1 \in 1..Len(u) /\ u[k + 1] = Slash

ASSUME PathsAssumption == \A u \in Urls : IsTarget(u)

VARIABLES
  url, worker,  \* of a transaction
  phase,        \* how far proxygen is with it
  handler,      \* its handler, until that deletes itself
  body_,        \* of the handler
  sent,         \* the body as the client sent it so far
  given,        \* the body as tgpExpress got it
  replies,      \* what was sent to the client
  busy,         \* per worker: the transaction whose callback is under way
  counter,      \* per worker: reqCount_ as it was read by ++
  reqCount_     \* per worker: the statistics

transVars == <<url, worker, phase>>
bodyVars  == <<body_, sent, given>>
statVars  == <<counter, reqCount_>>
vars == <<transVars, bodyVars, statVars, handler, replies, busy>>

Init ==
  /\ url = [c \in Transactions |-> <<>>]
  /\ worker = [c \in Transactions |-> None]
  /\ phase = [c \in Transactions |-> "none"]
  /\ handler = [c \in Transactions |-> "none"]
  /\ body_ = [c \in Transactions |-> <<>>]
  /\ sent = [c \in Transactions |-> <<>>]
  /\ given = [c \in Transactions |-> NotGiven]
  /\ replies = [c \in Transactions |-> <<>>]
  /\ busy = [w \in Workers |-> None]
  /\ counter = [w \in Workers |-> 0]
  /\ reqCount_ = [w \in Workers |-> 0]

-----------------------------------------------------------------------------
(* Routing.                                                                *)

\* A slash ends a term, anything else belongs to the last one.
Continued(terms, x) ==
  IF x = Slash THEN Append(terms, <<>>)
  ELSE [terms EXCEPT ![Len(terms)] = Append(@, x)]

\* The terms between slashes; after a last slash there is an empty one.
Terms(u) ==
  LET upTo[n \in 0..Len(u)] ==
        IF n = 0 THEN <<<<>>>> ELSE Continued(upTo[n - 1], u[n])
  IN upTo[Len(u)]

\* Mutant of Split: the last term only if there is something in it.
SplitTrimmed(u) == IF Last(Terms(u)) = <<>> THEN Front(Terms(u)) ELSE Terms(u)

\* The last term is pushed even if it is empty: npos - last is never 0.
Split(u) == Terms(u)

HandlerFor(u) ==
  LET terms == Split(u)
  IN IF u # <<Slash>> /\ Len(terms) = 3 /\ terms[2] # <<>> /\ terms[3] # <<>>
     THEN "proxy" ELSE "wrong"

-----------------------------------------------------------------------------
(* Callbacks.                                                              *)

Live(c) == phase[c] \in {"headers", "body", "eom"}

\* Mutant of Idle: tgpExpress loops on the event base of its worker.
IdleAlways(c) == TRUE

\* The event base calls back when the callback before has returned; tgpExpress
\* has an event base of its own.
Idle(c) == busy[worker[c]] = None

\* Mutant of StatsOf: one counter for all threads.
StatsOfAll(w) == CHOOSE x \in Workers : TRUE

\* folly::ThreadLocalPtr: the worker's own.
StatsOf(w) == w

\* The factory's onRequest and the handler's, in one callback.  ++reqCount_ is
\* a load and a store.
OnRequest(c, w, u) ==
  /\ phase[c] = "none"
  /\ busy[w] = None
  /\ url' = [url EXCEPT ![c] = u]
  /\ worker' = [worker EXCEPT ![c] = w]
  /\ phase' = [phase EXCEPT ![c] = "headers"]
  /\ handler' = [handler EXCEPT ![c] = HandlerFor(u)]
  /\ IF HandlerFor(u) = "proxy"
     THEN /\ busy' = [busy EXCEPT ![w] = c]
          /\ counter' = [counter EXCEPT ![w] = reqCount_[StatsOf(w)]]
     ELSE UNCHANGED <<busy, counter>>
  /\ UNCHANGED <<bodyVars, replies, reqCount_>>

RecordRequest(w) ==
  /\ busy[w] # None
  /\ phase[busy[w]] = "headers"
  /\ reqCount_' = [reqCount_ EXCEPT ![StatsOf(w)] = counter[w] + 1]
  /\ counter' = [counter EXCEPT ![w] = 0]
  /\ phase' = [phase EXCEPT ![busy[w]] = "body"]
  /\ busy' = [busy EXCEPT ![w] = None]
  /\ UNCHANGED <<url, worker, bodyVars, handler, replies>>

\* Mutant of Chained: the chain is put behind the new part.
ChainedBefore(chain, piece) == <<piece>> \o chain

\* prependChain on the head of a circular chain puts the part at its end.
Chained(chain, piece) == Append(chain, piece)

OnBody(c, piece) ==
  /\ Live(c) /\ phase[c] # "eom" /\ Idle(c)
  /\ Len(sent[c]) < MaxPieces
  /\ sent' = [sent EXCEPT ![c] = Append(@, piece)]
  /\ body_' = IF handler[c] = "proxy"
              THEN [body_ EXCEPT ![c] = Chained(@, piece)]
              ELSE body_
  /\ UNCHANGED <<transVars, statVars, handler, given, replies, busy>>

\* TGProxyHandler starts tgpExpress; TGPWrongHandler answers without a body.
OnEOM(c) ==
  /\ Live(c) /\ phase[c] # "eom" /\ Idle(c)
  /\ phase' = [phase EXCEPT ![c] = "eom"]
  /\ IF handler[c] = "proxy"
     THEN /\ given' = [given EXCEPT ![c] = body_[c]]
          /\ body_' = [body_ EXCEPT ![c] = <<>>]
          /\ busy' = [busy EXCEPT ![worker[c]] = c]
          /\ UNCHANGED replies
     ELSE /\ replies' = [replies EXCEPT ![c] = Append(@, "empty")]
          /\ UNCHANGED <<given, body_, busy>>
  /\ UNCHANGED <<url, worker, sent, statVars, handler>>

\* Mutant of Replied: the reason is sent, and then the reply as well.
RepliedTwice(ret) == IF ret THEN <<"weights">> ELSE <<"reason", "weights">>

Replied(ret) == IF ret THEN <<"weights">> ELSE <<"reason">>

\* In onEOM, whatever has become of the transaction.  tgpExpress never succeeds
\* without a body.
ExpressReturns(w) ==
  /\ busy[w] # None
  /\ phase[busy[w]] # "headers"
  /\ \E ret \in IF given[busy[w]] = <<>> THEN {FALSE} ELSE BOOLEAN :
       replies' = [replies EXCEPT ![busy[w]] = @ \o Replied(ret)]
  /\ busy' = [busy EXCEPT ![w] = None]
  /\ UNCHANGED <<transVars, bodyVars, statVars, handler>>

\* `delete this`.
Deleted(c) ==
  /\ handler' = [handler EXCEPT ![c] = "none"]
  /\ body_' = [body_ EXCEPT ![c] = <<>>]

\* The reply was sent.
RequestComplete(c) ==
  /\ phase[c] = "eom" /\ Idle(c)
  /\ replies[c] # <<>>
  /\ phase' = [phase EXCEPT ![c] = "complete"]
  /\ Deleted(c)
  /\ UNCHANGED <<url, worker, sent, given, statVars, replies, busy>>

\* Mutant of AfterError: the handler stays.
AfterErrorKeeps(c) == UNCHANGED <<handler, body_>>

AfterError(c) == Deleted(c)

\* The client is gone, or was silent for a minute.
OnError(c) ==
  /\ Live(c) /\ Idle(c)
  /\ phase' = [phase EXCEPT ![c] = "failed"]
  /\ AfterError(c)
  /\ UNCHANGED <<url, worker, sent, given, statVars, replies, busy>>

\* All transactions are over.
Served ==
  /\ \A c \in Transactions : phase[c] \in {"complete", "failed"}
  /\ UNCHANGED vars

Next ==
  \/ \E c \in Transactions :
       \/ \E w \in Workers, u \in Urls : OnRequest(c, w, u)
       \/ \E piece \in Pieces : OnBody(c, piece)
       \/ OnEOM(c) \/ RequestComplete(c) \/ OnError(c)
  \/ \E w \in Workers : RecordRequest(w) \/ ExpressReturns(w)
  \/ Served

Spec == Init /\ [][Next]_vars

\* The workers run, tgpExpress returns, and proxygen ends a transaction when nothing
\* has come for a minute, if not before.  (Postman's RepliesUnlessScalar: a body or
\* answer that is no JSON object ends the whole server, and no worker runs on.)
Fairness ==
  /\ \A w \in Workers : WF_vars(RecordRequest(w)) /\ WF_vars(ExpressReturns(w))
  /\ \A c \in Transactions : SF_vars(RequestComplete(c) \/ OnError(c))

FairSpec == Spec /\ Fairness

-----------------------------------------------------------------------------
(* Properties.                                                             *)

\* Type invariant; a callback under way is onRequest or onEOM.
TypeOK ==
  /\ url \in [Transactions -> Urls \cup {<<>>}]
  /\ worker \in [Transactions -> Workers \cup {None}]
  /\ phase \in [Transactions -> {"none", "headers", "body", "eom", "complete", "failed"}]
  /\ handler \in [Transactions -> {"none", "proxy", "wrong"}]
  /\ body_ \in [Transactions -> Seq(Pieces)]
  /\ sent \in [Transactions -> Seq(Pieces)]
  /\ given \in [Transactions -> Seq(Pieces) \cup {NotGiven}]
  /\ replies \in [Transactions -> Seq({"weights", "reason", "empty"})]
  /\ busy \in [Workers -> Transactions \cup {None}]
  /\ \A w \in Workers : busy[w] # None => phase[busy[w]] \in {"headers", "eom"}
  /\ counter \in [Workers -> 0..Cardinality(Transactions)]
  /\ reqCount_ \in [Workers -> 0..Cardinality(Transactions)]

\* A request for a model: /name/version and nothing more.
IsModelPath(u) ==
  \E name, version \in 1..Len(u) :
    /\ Len(u) = name + version + 2
    /\ \A k \in 1..Len(u) : u[k] = Slash <=> k \in {1, name + 2}

\* The proxy serves exactly the paths "/model_name/model_ver"
\* (tgp_proxy_handler_factory.h:45), whatever else a client asks for; all others
\* get the empty answer.
OnlyModelPaths ==
  \A c \in Transactions :
    handler[c] # "none" => (handler[c] = "proxy" <=> IsModelPath(url[c]))

\* tgpExpress gets the body as it was sent, however many parts it came in and
\* whichever callbacks of other transactions came in between.
WholeBody ==
  \A c \in Transactions :
    /\ given[c] # NotGiven => given[c] = sent[c]
    /\ handler[c] = "proxy" /\ given[c] = NotGiven => body_[c] = sent[c]

\* From the client's side: one reply, of the kind its request deserves, after the
\* request was read and before the transaction is over, whatever the other
\* transactions of the worker do; and a handler from the beginning to the end.
Stage ==
  [c \in Transactions |->
     CASE phase[c] \in {"headers", "body"} -> "asking"
       [] phase[c] = "eom"                 -> "read"
       [] OTHER                            -> phase[c]]
Client == INSTANCE Exchange WITH
            ModelUrls <- {u \in Urls : IsModelPath(u)},
            stage <- Stage,
            handlers <- {c \in Transactions : handler[c] # "none"}
ImplementsExchange == Client!Spec

Proxied(w) ==
  {c \in Transactions : phase[c] # "none" /\ worker[c] = w /\ HandlerFor(url[c]) = "proxy"}

Counting(w) == busy[w] # None /\ phase[busy[w]] = "headers"

\* The statistics lose no request, although workers count concurrently without
\* a lock: each has its own.
EachIsCounted ==
  \A w \in Workers :
    Cardinality(Proxied(w)) = IF Counting(w) THEN reqCount_[w] + 1 ELSE reqCount_[w]

\* No handler is deleted while a callback of it is under way: onEOM uses the
\* names of the model until tgpExpress has returned, whatever the client does.
AliveInside ==
  \A w \in Workers : busy[w] # None => handler[busy[w]] = "proxy" /\ worker[busy[w]] = w

\* No handler outlives its transaction, and every transaction ends.
HandlersEnd == \A c \in Transactions : phase[c] # "none" ~> handler[c] = "none"

=============================================================================
