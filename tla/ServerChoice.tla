---------------------------- MODULE ServerChoice ----------------------------
(***************************************************************************)
(* TGProxyPostman::get_ms_url and TGPClusterAdmin::getOneMsAddr: which     *)
(* model server a slice is posted to.  The worker threads of the HTTP      *)
(* server call them at the same time, while the threads of ClusterAdmin    *)
(* install new lists; of those this module only uses what MsDirectory      *)
(* promises (ClusterAdminProofs shows that ClusterAdmin keeps it).         *)
(***************************************************************************)
EXTENDS MsDirectory, Integers, FiniteSets

CONSTANTS
  Workers,      \* worker threads of the HTTP server
  Partitions,   \* partitions of the model
  ConfLists,    \* get_ms_list: the configured addresses of each partition
  Rank,         \* the strcmp order of the addresses
  NoHost,       \* nothing chosen yet
  MaxVersions,  \* bound: number of views the znode ever has
  IntMax,       \* the largest int
  SizeRange,    \* how many values size_t has
  MaxPicks      \* bound: value of count_

ASSUME ChoiceAssumption ==
  /\ Views \subseteq SUBSET Addresses
  /\ NoNode \notin Views
  /\ \A v \in Views : IsFiniteSet(v)
  /\ ConfLists \in [Partitions -> Seq(Addresses) \ {<<>>}]
  /\ Rank \in [Addresses -> Int]
  /\ MaxVersions \in Nat
  /\ IntMax \in Nat
  /\ SizeRange \in Nat \ {0}
  /\ MaxPicks \in Nat

VARIABLES
  ms_cluster_,  \* the addresses, sorted
  count_,       \* shared counter of getOneMsAddr, guarded by mtx_
  spare,        \* `static int count` of get_ms_url, guarded by nothing
  wpc,          \* where each worker is in get_ms_url
  wpartition,   \* its argument
  loaded,       \* the value of spare a worker is about to increment
  host,         \* the address get_ms_url chose last, per worker
  used          \* per position of the list: picks since it was installed

choiceVars == <<ms_cluster_, count_, spare, wpc, wpartition, loaded, host, used>>
vars == <<dirVars, choiceVars>>

Size      == Len(ms_cluster_)
Positions == 0..(Size - 1)

\* zk_wget_chdnodes sorts the children: a set of addresses has one order.
Orders(S) ==
  {s \in [1..Cardinality(S) -> S] :
     /\ \A x \in S : \E i \in DOMAIN s : s[i] = x
     /\ \A i, j \in DOMAIN s : i < j => Rank[s[i]] < Rank[s[j]]}

Init ==
  /\ DirInit
  /\ ms_cluster_ = <<>>
  /\ count_ = 0
  /\ spare = 0
  /\ wpc = [w \in Workers |-> "idle"]
  /\ wpartition \in {[w \in Workers |-> p] : p \in Partitions}
  /\ loaded = [w \in Workers |-> 0]
  /\ host = [w \in Workers |-> NoHost]
  /\ used = <<>>

\* Mutant of NextPosition: the counter is clamped instead of wrapped.
NextPositionClamped == IF count_ < Size THEN count_ ELSE Size - 1

\* ++count_ % ms_cluster_.size()
NextPosition == (count_ + 1) % Size

\* getOneMsAddr finds a list.
PickFromCluster(w) ==
  /\ wpc[w] = "idle"
  /\ ms_cluster_ # <<>>
  /\ count_ < MaxPicks
  /\ count_' = count_ + 1
  /\ host' = [host EXCEPT ![w] = ms_cluster_[NextPosition + 1]]
  /\ used' = [used EXCEPT ![NextPosition] = @ + 1]
  /\ UNCHANGED <<dirVars, ms_cluster_, spare, wpc, wpartition, loaded>>

\* getOneMsAddr returns "": nothing was ever read from the znode.
FindNoCluster(w, p) ==
  /\ wpc[w] = "idle"
  /\ ms_cluster_ = <<>>
  /\ wpc' = [wpc EXCEPT ![w] = "load"]
  /\ wpartition' = [wpartition EXCEPT ![w] = p]
  /\ UNCHANGED <<dirVars, ms_cluster_, count_, spare, loaded, host, used>>

\* ++count on the static int: a load and a store, and nothing excludes others.
LoadSpare(w) ==
  /\ wpc[w] = "load"
  /\ loaded' = [loaded EXCEPT ![w] = spare]
  /\ wpc' = [wpc EXCEPT ![w] = "store"]
  /\ UNCHANGED <<dirVars, ms_cluster_, count_, spare, wpartition, host, used>>

\* An int that overflows goes on from its least value.
Incremented(n) == IF n = IntMax THEN -IntMax - 1 ELSE n + 1

StoreSpare(w) ==
  /\ wpc[w] = "store"
  /\ spare' = Incremented(loaded[w])
  /\ loaded' = [loaded EXCEPT ![w] = 0]
  /\ wpc' = [wpc EXCEPT ![w] = "pick"]
  /\ UNCHANGED <<dirVars, ms_cluster_, count_, wpartition, host, used>>

\* Mutant of SparePosition: both are taken as int, of which C's % keeps the sign.
SparePositionSigned(n) == IF spare < 0 THEN -((-spare) % n) ELSE spare % n

\* count % msHost.size(), with the value spare has by now: the other operand
\* makes it a size_t.
SparePosition(n) == (spare % SizeRange) % n

PickSpare(w) ==
  /\ wpc[w] = "pick"
  /\ LET msHost == ConfLists[wpartition[w]]
     IN host' = [host EXCEPT ![w] = msHost[SparePosition(Len(msHost)) + 1]]
  /\ wpc' = [wpc EXCEPT ![w] = "idle"]
  /\ UNCHANGED <<dirVars, ms_cluster_, count_, spare, wpartition, loaded, used>>

\* Mutant of Assign: the new addresses are added to the old ones.
AssignAppends(order) == ms_cluster_' = ms_cluster_ \o order

\* ms_cluster_.assign under mtx_
Assign(order) == ms_cluster_' = order

Install ==
  /\ DirInstall
  /\ \E order \in Orders(Servers(list')) : Assign(order)
  /\ used' = [k \in 0..(Len(ms_cluster_') - 1) |-> 0]
  /\ UNCHANGED <<count_, spare, wpc, wpartition, loaded, host>>

Publish ==
  /\ Len(history) < MaxVersions
  /\ DirPublish
  /\ UNCHANGED choiceVars

Next ==
  \/ \E w \in Workers :
       \/ PickFromCluster(w)
       \/ \E p \in Partitions : FindNoCluster(w, p)
       \/ LoadSpare(w) \/ StoreSpare(w) \/ PickSpare(w)
  \/ Install
  \/ Publish

Spec == Init /\ [][Next]_vars

-----------------------------------------------------------------------------
(* Properties.                                                             *)

\* Type invariant.
TypeOK ==
  /\ ms_cluster_ \in UNION {Orders(S) : S \in SUBSET Addresses}
  /\ count_ \in Nat /\ spare \in Int
  /\ wpc \in [Workers -> {"idle", "load", "store", "pick"}]
  /\ wpartition \in [Workers -> Partitions]
  /\ loaded \in [Workers -> Int]
  /\ host \in [Workers -> Addresses \cup {NoHost}]
  /\ used \in [Positions -> Nat]

\* Whatever other workers have made of the unguarded counter since this one's
\* increment, and even after it has overflowed, it selects one of the servers
\* that the file names for this worker's partition.
SpareInList ==
  \A w \in Workers :
    wpc[w] = "pick" =>
      LET n == Len(ConfLists[wpartition[w]]) IN SparePosition(n) \in 0..(n - 1)

\* Requests pick from the addresses of one view of the znode, each of them once
\* and in the order of their names, and never from a mixture of two views.
ClusterIsOneView ==
  IF list = 0 THEN ms_cluster_ = <<>> ELSE ms_cluster_ \in Orders(Servers(list))

\* Between two installations of a list the load is even, whatever the workers'
\* interleaving, the value count_ had before and the size of the old list: no
\* server is ever more than one pick ahead of another.
Balanced == \A i, j \in Positions : used[i] <= used[j] + 1

\* Once the list was filled no worker turns to the configuration file any more.
FallbackOnlyBeforeFill ==
  [][(\E w \in Workers : wpc[w] = "idle" /\ wpc'[w] # "idle") => list = 0]_vars

=============================================================================
