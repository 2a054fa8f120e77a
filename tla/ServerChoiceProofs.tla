-------------------------- MODULE ServerChoiceProofs --------------------------
(***************************************************************************)
(* Proofs about ServerChoice, for every number of workers, servers, views  *)
(* and picks.                                                              *)
(*                                                                         *)
(* Balanced alone is not inductive: it must also be known who is ahead.    *)
(* Turn(i) is how many picks are made before position i is picked again;   *)
(* Rotation says that only positions with a later turn can be ahead.       *)
(***************************************************************************)
EXTENDS ServerChoice, SequenceTheorems, FiniteSetTheorems, TLAPS

Turn(i) == IF i >= NextPosition THEN i - NextPosition ELSE i - NextPosition + Size

Rotation ==
  \A i, j \in Positions : used[i] > used[j] => Turn(i) > Turn(j)

HistoryOK ==
  /\ history \in Seq(Views \cup {NoNode}) /\ Len(history) > 0
  /\ list \in 0..Len(history)

ListOK == list # 0 => Servers(list) # {}

CInv == HistoryOK /\ TypeOK /\ ClusterIsOneView /\ ListOK /\ Balanced /\ Rotation

-----------------------------------------------------------------------------
\* What % does when its left argument is incremented.
LEMMA NextModulo ==
  ASSUME NEW c \in Nat, NEW n \in Nat, n > 0
  PROVE  /\ c % n \in 0..(n - 1)
         /\ (c + 1) % n = IF c % n = n - 1 THEN 0 ELSE (c % n) + 1
<1> DEFINE q == c \div n
           r == c % n
<1>1. q \in Int /\ r \in 0..(n - 1) /\ c = n * q + r
  OBVIOUS
<1>2. CASE r = n - 1
  <2>1. c + 1 = n * (q + 1)
    BY <1>1, <1>2
  <2>2. (n * (q + 1)) % n = 0
    BY <1>1
  <2> QED
    BY <2>1, <2>2, <1>2, <1>1
<1>3. CASE r # n - 1
  <2>1. c + 1 = n * q + (r + 1) /\ r + 1 \in 0..(n - 1)
    BY <1>1, <1>3
  <2> DEFINE m == c + 1
             d == m \div n
             e == m % n
  <2>2. d \in Int /\ e \in 0..(n - 1) /\ m = n * d + e
    OBVIOUS
  <2>3. ASSUME d >= q + 1 PROVE FALSE
    <3>1. n * d >= n * (q + 1)
      BY <2>2, <2>3, <1>1
    <3>2. n * (q + 1) = n * q + n
      BY <1>1
    <3> HIDE DEF d, e, q, r
    <3> QED
      BY <3>1, <3>2, <2>1, <2>2, <1>1
  <2>4. ASSUME d <= q - 1 PROVE FALSE
    <3>1. n * d <= n * (q - 1)
      BY <2>2, <2>4, <1>1
    <3>2. n * (q - 1) = n * q - n
      BY <1>1
    <3> HIDE DEF d, e, q, r
    <3> QED
      BY <3>1, <3>2, <2>1, <2>2, <1>1
  <2>5. d = q
    BY <2>2, <2>3, <2>4, <1>1
  <2>6. e = r + 1
    <3> HIDE DEF d, e, q, r
    <3> QED
      BY <2>5, <2>2, <2>1, <1>1
  <2> QED
    BY <2>6, <1>3, <1>1
<1> QED
  BY <1>2, <1>3

\* The addresses of a view are a finite set.
LEMMA ServersFinite ==
  ASSUME HistoryOK, NEW i \in 1..Len(history)
  PROVE  Servers(i) \subseteq Addresses /\ IsFiniteSet(Servers(i))
<1>1. history[i] \in Views \cup {NoNode}
  BY DEF HistoryOK
<1>2. CASE history[i] = NoNode
  BY <1>2, FS_EmptySet DEF Servers
<1>3. CASE history[i] # NoNode
  <2>1. IsFiniteSet(history[i]) /\ history[i] \in SUBSET Addresses
    BY <1>1, <1>3, ChoiceAssumption
  <2>2. IsFiniteSet(history[i] \cap Addresses)
    BY <2>1, FS_Subset
  <2> QED
    BY <2>2, <1>3 DEF Servers
<1> QED
  BY <1>2, <1>3

\* An ordering of a finite set is a sequence; it is empty for the empty set only.
LEMMA OrderIsSequence ==
  ASSUME NEW S, IsFiniteSet(S), NEW s \in Orders(S)
  PROVE  /\ s \in Seq(S) /\ Len(s) = Cardinality(S) /\ Len(s) \in Nat
         /\ S # {} => s # <<>> /\ Len(s) > 0
<1>1. Cardinality(S) \in Nat
  BY FS_CardinalityType
<1>2. s \in [1..Cardinality(S) -> S]
  BY DEF Orders
<1>3. s \in Seq(S) /\ Len(s) = Cardinality(S)
  BY <1>1, <1>2
<1>4. S # {} => Cardinality(S) # 0
  BY FS_EmptySet
<1> QED
  BY <1>1, <1>3, <1>4

\* Every int, taken as a size_t, gives a position in the list of a partition.
LEMMA ConfiguredPosition ==
  ASSUME spare \in Int, NEW p \in Partitions
  PROVE  /\ ConfLists[p] \in Seq(Addresses) /\ Len(ConfLists[p]) \in Nat
         /\ SparePosition(Len(ConfLists[p])) \in 0..(Len(ConfLists[p]) - 1)
<1> DEFINE n == Len(ConfLists[p])
<1>1. ConfLists[p] \in Seq(Addresses) /\ n \in Nat /\ n > 0
  BY ChoiceAssumption
<1>2. spare % SizeRange \in Nat
  BY ChoiceAssumption
<1>3. (spare % SizeRange) % n \in 0..(n - 1)
  <2> HIDE DEF n
  <2> QED
    BY <1>1, <1>2, NextModulo
<1> QED
  BY <1>1, <1>3 DEF SparePosition

-----------------------------------------------------------------------------
LEMMA CInvInit == Init => CInv
<1> SUFFICES ASSUME Init PROVE CInv
  OBVIOUS
<1>1. HistoryOK /\ ListOK
  <2>1. PICK v \in Views \cup {NoNode} : history = <<v>>
    BY DEF Init, DirInit
  <2>2. history \in Seq(Views \cup {NoNode}) /\ Len(history) = 1
    BY <2>1
  <2> QED
    BY <2>2 DEF Init, DirInit, HistoryOK, ListOK
<1>2. Size = 0 /\ Positions = {} /\ list = 0
  BY DEF Init, DirInit, Size, Positions
<1>3. ms_cluster_ \in Orders({})
  <2>1. Cardinality({}) = 0
    BY FS_EmptySet
  <2>2. <<>> \in [1..0 -> {}]
    OBVIOUS
  <2> QED
    BY <2>1, <2>2 DEF Init, Orders
<1>4. TypeOK
  <2>1. used \in [Positions -> Nat]
    BY <1>2 DEF Init
  <2> QED
    BY <1>3, <2>1 DEF Init, TypeOK
<1> QED
  BY <1>1, <1>2, <1>4 DEF CInv, ClusterIsOneView, Balanced, Rotation, Init

\* The number of servers is finite, whatever list is installed.
LEMMA SizeType ==
  ASSUME CInv
  PROVE  /\ ms_cluster_ \in Seq(Addresses) /\ Size \in Nat
         /\ (ms_cluster_ # <<>> <=> Size > 0)
         /\ (list # 0 => ms_cluster_ # <<>>)
<1>1. CASE list = 0
  BY <1>1 DEF CInv, ClusterIsOneView, Size
<1>2. CASE list # 0
  <2>1. list \in 1..Len(history)
    BY <1>2 DEF CInv, HistoryOK
  <2>2. Servers(list) \subseteq Addresses /\ IsFiniteSet(Servers(list)) /\ Servers(list) # {}
    BY <2>1, <1>2, ServersFinite DEF CInv, ListOK
  <2>3. ms_cluster_ \in Orders(Servers(list))
    BY <1>2 DEF CInv, ClusterIsOneView
  <2>4. ms_cluster_ \in Seq(Servers(list)) /\ Size \in Nat /\ Size > 0 /\ ms_cluster_ # <<>>
    BY <2>2, <2>3, OrderIsSequence DEF Size
  <2> QED
    BY <2>2, <2>4 DEF Size
<1> QED
  BY <1>1, <1>2

LEMMA PickInv ==
  ASSUME CInv, NEW w \in Workers, PickFromCluster(w)
  PROVE  CInv'
<1> DEFINE n == Size
           x == NextPosition
<1>t. /\ TypeOK /\ n \in Nat /\ n > 0 /\ count_ \in Nat
      /\ used \in [0..(n - 1) -> Nat] /\ ms_cluster_ \in Seq(Addresses)
  BY SizeType DEF CInv, TypeOK, Positions, PickFromCluster
<1>1. /\ ms_cluster_' = ms_cluster_ /\ Size' = n /\ Positions' = Positions
      /\ history' = history /\ list' = list /\ count_' = count_ + 1
      /\ used' = [used EXCEPT ![x] = @ + 1]
  BY DEF PickFromCluster, dirVars, Size, Positions
<1>2. /\ x \in 0..(n - 1)
      /\ NextPosition' = IF x = n - 1 THEN 0 ELSE x + 1
  <2>1. /\ x = (count_ + 1) % n
        /\ NextPosition' = ((count_ + 1) + 1) % n
    BY <1>1 DEF NextPosition
  <2>2. count_ + 1 \in Nat
    BY <1>t
  <2> HIDE DEF n, x
  <2> QED
    BY <2>1, <2>2, <1>t, NextModulo
<1>3. HistoryOK' /\ ClusterIsOneView' /\ ListOK'
  BY <1>1 DEF CInv, HistoryOK, ClusterIsOneView, ListOK, Servers
<1>4. TypeOK'
  <2>1. ms_cluster_[NextPosition + 1] \in Addresses
    BY <1>t, <1>2 DEF Size
  <2>2. host' \in [Workers -> Addresses \cup {NoHost}]
    BY <2>1 DEF PickFromCluster, CInv, TypeOK
  <2>3. used' \in [Positions -> Nat]
    BY <1>t, <1>1, <1>2 DEF Positions
  <2> QED
    BY <1>1, <1>t, <2>2, <2>3 DEF PickFromCluster, CInv, TypeOK
<1>5. \A j \in 0..(n - 1) : used[x] <= used[j]
  <2> SUFFICES ASSUME NEW j \in 0..(n - 1), used[x] > used[j]
               PROVE  FALSE
    BY <1>t, <1>2
  <2>1. Turn(x) > Turn(j)
    BY <1>2 DEF CInv, Rotation, Positions
  <2> QED
    BY <2>1, <1>2, <1>t DEF Turn
<1>6. \A j \in 0..(n - 1) : used[j] <= used[x] + 1
  BY <1>2 DEF CInv, Balanced, Positions
<1>7. \A j \in 0..(n - 1) : used'[j] = IF j = x THEN used[j] + 1 ELSE used[j]
  BY <1>1, <1>t
<1>8. \A j \in 0..(n - 1) : Turn(j)' = IF j = x THEN n - 1 ELSE Turn(j) - 1
  BY <1>1, <1>2, <1>t DEF Turn
<1>9. \A j \in 0..(n - 1) : used[j] \in Nat /\ Turn(j) \in 0..(n - 1) /\ (j # x => Turn(j) > 0)
  BY <1>2, <1>t DEF Turn
<1>10. Balanced'
  <2> SUFFICES ASSUME NEW i \in 0..(n - 1), NEW j \in 0..(n - 1)
               PROVE  used'[i] <= used'[j] + 1
    BY <1>1 DEF Balanced, Positions
  <2>1. used[i] <= used[j] + 1
    BY DEF CInv, Balanced, Positions
  <2> QED
    BY <2>1, <1>5, <1>6, <1>7, <1>9, <1>2
<1>11. Rotation'
  <2> SUFFICES ASSUME NEW i \in 0..(n - 1), NEW j \in 0..(n - 1), used'[i] > used'[j]
               PROVE  Turn(i)' > Turn(j)'
    BY <1>1 DEF Rotation, Positions
  <2>1. used[i] > used[j] => Turn(i) > Turn(j)
    BY DEF CInv, Rotation, Positions
  <2>2. i # j
    BY <1>7, <1>9
  <2>3. CASE i = x
    BY <2>2, <2>3, <1>8, <1>9, <1>t
  <2>4. CASE j = x
    BY <2>2, <2>4, <1>6, <1>7, <1>9, <1>2
  <2>5. CASE i # x /\ j # x
    BY <2>1, <2>5, <1>7, <1>8, <1>9
  <2> QED
    BY <2>3, <2>4, <2>5
<1> QED
  BY <1>3, <1>4, <1>10, <1>11 DEF CInv

LEMMA InstallInv ==
  ASSUME CInv, Install
  PROVE  CInv'
<1>1. PICK i \in 1..Len(history) :
        Servers(i) # {} /\ list' = i /\ history' = history
  BY DEF Install, DirInstall
<1>2. HistoryOK /\ Servers(i) \subseteq Addresses /\ IsFiniteSet(Servers(i))
      /\ i # 0 /\ Servers(list') = Servers(i)
  BY <1>1, ServersFinite DEF CInv, HistoryOK
<1>3. ms_cluster_' \in Orders(Servers(i))
  BY <1>1, <1>2 DEF Install, Assign
<1>4. Len(ms_cluster_') \in Nat
  BY <1>2, <1>3, OrderIsSequence
<1>5. HistoryOK' /\ ListOK' /\ ClusterIsOneView'
  BY <1>1, <1>2, <1>3 DEF CInv, HistoryOK, ListOK, ClusterIsOneView, Servers
<1>6. Positions' = 0..(Len(ms_cluster_') - 1)
  BY DEF Positions, Size
<1>7. used' = [k \in Positions' |-> 0]
  BY <1>6 DEF Install
<1>8. TypeOK'
  BY <1>2, <1>3, <1>7 DEF Install, CInv, TypeOK
<1>9. Balanced' /\ Rotation'
  BY <1>7 DEF Balanced, Rotation
<1> QED
  BY <1>5, <1>8, <1>9 DEF CInv

\* Steps that leave the list and its counters alone.
LEMMA OtherInv ==
  ASSUME CInv, UNCHANGED <<dirVars, ms_cluster_, count_, used>>, TypeOK'
  PROVE  CInv'
  BY DEF CInv, dirVars, HistoryOK, ClusterIsOneView, ListOK, Servers, Balanced,
         Rotation, Turn, NextPosition, Positions, Size

LEMMA PublishInv ==
  ASSUME CInv, Publish
  PROVE  CInv'
<1>1. PICK v \in Views \cup {NoNode} : history' = Append(history, v)
  BY DEF Publish, DirPublish
<1>2. /\ HistoryOK /\ list' = list /\ UNCHANGED choiceVars
      /\ HistoryOK'
      /\ \A i \in 1..Len(history) : history'[i] = history[i]
  BY <1>1 DEF CInv, HistoryOK, Publish, DirPublish
<1>3. list # 0 => Servers(list)' = Servers(list)
  <2> SUFFICES ASSUME list # 0 PROVE Servers(list)' = Servers(list)
    OBVIOUS
  <2>1. list \in 1..Len(history)
    BY <1>2 DEF HistoryOK
  <2>2. history'[list'] = history[list]
    BY <2>1, <1>2
  <2> QED
    BY <2>2 DEF Servers
<1>4. TypeOK'
  BY <1>2 DEF CInv, TypeOK, choiceVars, Positions, Size
<1> QED
  BY <1>2, <1>3, <1>4
  DEF CInv, choiceVars, ClusterIsOneView, ListOK, Balanced, Rotation, Turn,
      NextPosition, Positions, Size

LEMMA CInvStep == CInv /\ [Next]_vars => CInv'
<1> SUFFICES ASSUME CInv, [Next]_vars PROVE CInv'
  OBVIOUS
<1>1. ASSUME NEW w \in Workers, NEW p \in Partitions, FindNoCluster(w, p)
      PROVE  CInv'
  <2>1. TypeOK'
    BY <1>1 DEF CInv, TypeOK, FindNoCluster, Positions, Size
  <2> QED
    BY <1>1, <2>1, OtherInv DEF FindNoCluster
<1>2. ASSUME NEW w \in Workers, LoadSpare(w)
      PROVE  CInv'
  <2>1. TypeOK'
    BY <1>2 DEF CInv, TypeOK, LoadSpare, Positions, Size
  <2> QED
    BY <1>2, <2>1, OtherInv DEF LoadSpare
<1>3. ASSUME NEW w \in Workers, StoreSpare(w)
      PROVE  CInv'
  <2>1. TypeOK'
    <3>1. spare' \in Int
      BY <1>3, ChoiceAssumption DEF CInv, TypeOK, StoreSpare, Incremented
    <3> QED
      BY <1>3, <3>1 DEF CInv, TypeOK, StoreSpare, Positions, Size
  <2> QED
    BY <1>3, <2>1, OtherInv DEF StoreSpare
<1>4. ASSUME NEW w \in Workers, PickSpare(w)
      PROVE  CInv'
  <2> DEFINE msHost == ConfLists[wpartition[w]]
  <2>1. wpartition[w] \in Partitions
    BY DEF CInv, TypeOK
  <2>2. /\ msHost \in Seq(Addresses) /\ Len(msHost) \in Nat
        /\ SparePosition(Len(msHost)) \in 0..(Len(msHost) - 1)
    BY <2>1, ConfiguredPosition DEF CInv, TypeOK
  <2>3. msHost[SparePosition(Len(msHost)) + 1] \in Addresses
    BY <2>2
  <2>4. TypeOK'
    BY <1>4, <2>3 DEF CInv, TypeOK, PickSpare, Positions, Size
  <2> QED
    BY <1>4, <2>4, OtherInv DEF PickSpare
<1>5. CASE UNCHANGED vars
  <2>1. TypeOK'
    BY <1>5 DEF CInv, TypeOK, vars, choiceVars, Positions, Size
  <2> QED
    BY <1>5, <2>1, OtherInv DEF vars, choiceVars
<1> QED
  BY <1>1, <1>2, <1>3, <1>4, <1>5, PickInv, InstallInv, PublishInv DEF Next

THEOREM ChoiceInvariant == Spec => []CInv
  BY CInvInit, CInvStep, PTL DEF Spec

-----------------------------------------------------------------------------
\* Type correctness.
THEOREM ChoiceTypeCorrect == Spec => []TypeOK
<1>1. CInv => TypeOK
  BY DEF CInv
<1> QED
  BY <1>1, ChoiceInvariant, PTL

\* For any number of workers, servers and increments the unguarded counter selects
\* a server of the partition asked for.
THEOREM SpareStaysInList == Spec => []SpareInList
<1>1. CInv => SpareInList
  <2> SUFFICES ASSUME CInv, NEW w \in Workers
               PROVE  LET n == Len(ConfLists[wpartition[w]]) IN SparePosition(n) \in 0..(n - 1)
    BY DEF SpareInList
  <2>1. spare \in Int /\ wpartition[w] \in Partitions
    BY DEF CInv, TypeOK
  <2> QED
    BY <2>1, ConfiguredPosition
<1> QED
  BY <1>1, ChoiceInvariant, PTL

\* getOneMsAddr spreads the picks evenly over the servers of every list.
THEOREM LoadIsBalanced == Spec => []Balanced
<1>1. CInv => Balanced
  BY DEF CInv
<1> QED
  BY <1>1, ChoiceInvariant, PTL

\* Requests never see a mixture of two lists.
THEOREM OneViewAtATime == Spec => []ClusterIsOneView
<1>1. CInv => ClusterIsOneView
  BY DEF CInv
<1> QED
  BY <1>1, ChoiceInvariant, PTL

\* The configuration file is only a substitute until the first list arrives.
THEOREM FallbackEndsWithFill == Spec => FallbackOnlyBeforeFill
<1>1. CInv /\ [Next]_vars =>
        ((\E w \in Workers : wpc[w] = "idle" /\ wpc'[w] # "idle") => list = 0)
  <2> SUFFICES ASSUME CInv, Next, NEW w \in Workers, wpc[w] = "idle", wpc'[w] # "idle"
               PROVE  list = 0
    BY DEF vars, choiceVars
  <2>1. wpc \in [Workers -> {"idle", "load", "store", "pick"}]
    BY DEF CInv, TypeOK
  <2>2. ms_cluster_ = <<>>
    BY <2>1 DEF Next, PickFromCluster, FindNoCluster, LoadSpare, StoreSpare,
                PickSpare, Install, Publish, choiceVars
  <2> QED
    BY <2>2, SizeType
<1> QED
  BY <1>1, ChoiceInvariant, PTL DEF Spec, FallbackOnlyBeforeFill

=============================================================================
