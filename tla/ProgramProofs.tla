---------------------------- MODULE ProgramProofs ----------------------------
(* Proofs about Program and the MsConf it is built on, for any files,      *)
(* addresses and number of workers.                                        *)
EXTENDS Program, SequenceTheorems, WellFoundedInduction, TLAPS

-----------------------------------------------------------------------------
(* MsConf: the inductive invariant.                                        *)

\* A partition is opened with its first address, so that none is ever empty.
Filled(lists) == \A p \in 1..Len(lists) : lists[p] # <<>>

AllFilled ==
  /\ Filled(ms_lists_)
  /\ \A k \in DOMAIN ms_conf_ : Filled(ms_conf_[k])

\* The loop is inside the file; the default is a model of the map as soon as there is one, and workers do
\* not look before the whole file was read.
DefaultThere ==
  /\ key_ = NoKey \/ key_ \in DOMAIN ms_conf_
  /\ member > 0 => key_ \in DOMAIN ms_conf_
  /\ pc = "parse" => member < Len(file.members)
  /\ pc = "loaded" => member = Len(file.members)
  /\ pc # "loaded" /\ pc # "undefined" => \A w \in Workers : wpc[w] = "idle"

MInv == ConfTypeOK /\ AllFilled /\ DefaultThere /\ LookupsOnlyRead

-----------------------------------------------------------------------------
\* Appending to the partition at hand, opened if need be, fills it.
LEMMA FilledByAddress ==
  ASSUME NEW lists \in Lists, NEW n \in Nat, NEW x \in Addresses, Filled(lists),
         NEW grown, grown = IF Len(lists) = n THEN Append(lists, <<>>) ELSE lists,
         n < Len(grown)
  PROVE  /\ [grown EXCEPT ![n + 1] = Append(@, x)] \in Lists
         /\ Filled([grown EXCEPT ![n + 1] = Append(@, x)])
<1> DEFINE new == [grown EXCEPT ![n + 1] = Append(@, x)]
<1>0. <<>> \in Seq(Addresses)
  BY EmptySeq
<1>1. /\ grown \in Lists
      /\ \A p \in 1..Len(grown) : p # n + 1 => grown[p] # <<>>
  <2>1. CASE Len(lists) = n
    <3>1. /\ grown \in Lists /\ Len(grown) = n + 1
          /\ \A p \in 1..n : grown[p] = lists[p]
      BY <1>0, <2>1, AppendProperties DEF Lists
    <3> QED BY <2>1, <3>1 DEF Filled
  <2>2. CASE Len(lists) # n
    BY <2>2 DEF Filled
  <2> QED BY <2>1, <2>2
<1>2. grown[n + 1] \in Seq(Addresses)
  BY <1>1 DEF Lists
<1>3. /\ Append(grown[n + 1], x) \in Seq(Addresses)
      /\ Append(grown[n + 1], x) # <<>>
  BY <1>2, AppendProperties
<1>4. new \in Lists /\ Len(new) = Len(grown)
  BY <1>1, <1>3 DEF Lists
<1>5. \A p \in 1..Len(new) : new[p] = IF p = n + 1 THEN Append(grown[n + 1], x) ELSE grown[p]
  <2>1. DOMAIN grown = 1..Len(new)
    BY <1>1, <1>4 DEF Lists
  <2> QED BY <2>1
<1>6. new \in Lists /\ Filled(new)
  <2> HIDE DEF new
  <2> QED BY <1>1, <1>3, <1>4, <1>5 DEF Filled
<1> QED
  BY <1>6

\* An insertion adds its key and takes nothing away.
LEMMA InsertedKeeps ==
  ASSUME NEW k, NEW lists
  PROVE  /\ DOMAIN Inserted(k, lists) = DOMAIN ms_conf_ \cup {k}
         /\ \A x \in DOMAIN Inserted(k, lists) :
              Inserted(k, lists)[x] \in {lists} \cup {ms_conf_[y] : y \in DOMAIN ms_conf_}
BY DEF Inserted

\* What the file holds at the place that is read.
LEMMA FileTypes ==
  ASSUME ConfTypeOK
  PROVE  /\ Len(file.members) \in Nat
         /\ member < Len(file.members) =>
              /\ This.key \in Keys \cup {NoKey}
              /\ Parts \in Seq(Part)
              /\ i < Len(Parts) =>
                   /\ Items \in Seq(Addresses \cup BadItems)
                   /\ j < Len(Items) => Items[j + 1] \in Addresses \cup BadItems
<1>1. file \in File /\ member \in Nat /\ i \in Nat /\ j \in Nat
  BY ConfAssumption DEF ConfTypeOK
<1>2. file.members \in Seq([key : Keys \cup {NoKey}, value : Value])
  BY <1>1 DEF File
<1>3. ASSUME member < Len(file.members)
      PROVE  This \in [key : Keys \cup {NoKey}, value : Value]
  <2>1. member + 1 \in 1..Len(file.members)
    BY <1>1, <1>2, <1>3
  <2>2. file.members[member + 1] \in [key : Keys \cup {NoKey}, value : Value]
    BY <1>2, <2>1, ElementOfSeq
  <2> QED BY <2>2 DEF This
<1>4. ASSUME member < Len(file.members)
      PROVE  This.key \in Keys \cup {NoKey} /\ Parts \in Seq(Part)
  BY <1>3, <1>4 DEF Parts, Value
<1>5. ASSUME member < Len(file.members), i < Len(Parts)
      PROVE  Items \in Seq(Addresses \cup BadItems)
  <2>1. Parts[i + 1] \in Part
    BY <1>1, <1>4, <1>5
  <2> QED BY <2>1 DEF Items, Part
<1>6. ASSUME member < Len(file.members), i < Len(Parts), j < Len(Items)
      PROVE  Items[j + 1] \in Addresses \cup BadItems
  BY <1>1, <1>5, <1>6
<1>7. Len(file.members) \in Nat
  BY <1>2
<1> QED BY <1>4, <1>5, <1>6, <1>7

\* The members of the file.
LEMMA MembersType ==
  ASSUME ConfTypeOK
  PROVE  /\ Len(file.members) = 0 <=> file.members = <<>>
         /\ \A m \in 1..Len(file.members) : Len(file.members[m].value.parts) \in Nat
<1>1. file \in File
  BY ConfAssumption DEF ConfTypeOK
<1>2. file.members \in Seq([key : Keys \cup {NoKey}, value : Value])
  BY <1>1 DEF File
<1>3. ASSUME NEW m \in 1..Len(file.members)
      PROVE  Len(file.members[m].value.parts) \in Nat
  <2>1. file.members[m] \in [key : Keys \cup {NoKey}, value : Value]
    BY <1>2, ElementOfSeq
  <2>2. file.members[m].value.parts \in Seq(Part)
    BY <2>1 DEF Value
  <2> QED BY ONLY <2>2, LenProperties
<1>4. Len(file.members) = 0 <=> file.members = <<>>
  BY <1>2, EmptySeq
<1> QED BY <1>3, <1>4

-----------------------------------------------------------------------------
LEMMA MInvInit == ConfInit => MInv
<1> SUFFICES ASSUME ConfInit PROVE MInv
  OBVIOUS
<1>1. file \in File /\ <<>> \in Lists
  BY ConfAssumption, EmptySeq DEF ConfInit, Lists
<1>2. Len(file.members) \in Nat
  BY <1>1 DEF File
<1>3. ConfTypeOK
  BY <1>1, <1>2 DEF ConfInit, ConfTypeOK
<1>4. AllFilled
  BY DEF ConfInit, AllFilled, Filled
<1>5. DefaultThere /\ LookupsOnlyRead
  BY DEF ConfInit, DefaultThere, LookupsOnlyRead
<1> QED BY <1>3, <1>4, <1>5 DEF MInv

\* One step per action; ParseAddress and the two insertions change the lists.
LEMMA MInvNext == MInv /\ [ConfNext]_confVars => MInv'
<1> SUFFICES ASSUME MInv, [ConfNext]_confVars PROVE MInv'
  OBVIOUS
<1> USE DEF MInv
<1>t. /\ Len(file.members) \in Nat
      /\ member < Len(file.members) =>
           /\ This.key \in Keys \cup {NoKey}
           /\ Parts \in Seq(Part)
           /\ i < Len(Parts) =>
                /\ Items \in Seq(Addresses \cup BadItems)
                /\ j < Len(Items) => Items[j + 1] \in Addresses \cup BadItems
  BY FileTypes
<1>e. <<>> \in Lists /\ Filled(<<>>)
  BY EmptySeq DEF Lists, Filled
<1>1. CASE Open
  BY <1>1, <1>t DEF Open, ConfTypeOK, AllFilled, Filled, DefaultThere, LookupsOnlyRead, mapVars
<1>2. CASE StartModel
  <2>1. pc' \in {"refused", "aborted", "parse"} /\ member < Len(file.members)
    BY <1>2, <1>t DEF StartModel
  <2>2. ConfTypeOK'
    BY <1>2, <1>t, <1>e, <2>1 DEF StartModel, ConfTypeOK, mapVars
  <2>3. AllFilled'
    BY <1>2, <1>e DEF StartModel, AllFilled, Filled, mapVars
  <2>4. DefaultThere' /\ LookupsOnlyRead'
    BY <1>2, <2>1 DEF StartModel, DefaultThere, LookupsOnlyRead, mapVars
  <2> QED BY <2>2, <2>3, <2>4
<1>3. CASE ParseAddress
  <2>1. pc' \in {"refused", "parse", "undefined"} /\ member < Len(file.members)
    BY <1>3 DEF ParseAddress, DefaultThere
  <2>2. ms_lists_' \in Lists /\ Filled(ms_lists_') /\ j' \in Nat
    <3>1. CASE Refused(Items[j + 1]) \/ ~(i < Len(Grown))
      BY <1>3, <3>1 DEF ParseAddress, ConfTypeOK, AllFilled
    <3>2. CASE ~Refused(Items[j + 1]) /\ i < Len(Grown)
      <4>1. Items[j + 1] \in Addresses
        BY <1>3, <1>t, <2>1, <3>2 DEF ParseAddress, Refused
      <4>2. /\ ms_lists_' = [Grown EXCEPT ![i + 1] = Append(@, Items[j + 1])]
            /\ j' = j + 1
        BY <1>3, <3>2 DEF ParseAddress
      <4>3. ms_lists_ \in Lists /\ i \in Nat /\ j \in Nat /\ Filled(ms_lists_)
        BY DEF ConfTypeOK, AllFilled
      <4>4. Grown = IF Len(ms_lists_) = i THEN Append(ms_lists_, <<>>) ELSE ms_lists_
        BY DEF Grown
      <4>5. /\ [Grown EXCEPT ![i + 1] = Append(@, Items[j + 1])] \in Lists
            /\ Filled([Grown EXCEPT ![i + 1] = Append(@, Items[j + 1])])
        <5> DEFINE grown == Grown
        <5>1. grown = IF Len(ms_lists_) = i THEN Append(ms_lists_, <<>>) ELSE ms_lists_
          BY <4>4
        <5>2. i < Len(grown)
          BY <3>2
        <5> HIDE DEF grown
        <5>3. /\ [grown EXCEPT ![i + 1] = Append(@, Items[j + 1])] \in Lists
              /\ Filled([grown EXCEPT ![i + 1] = Append(@, Items[j + 1])])
          BY <4>1, <4>3, <5>1, <5>2, FilledByAddress
        <5> QED BY <5>3 DEF grown
      <4> QED BY <4>2, <4>3, <4>5
    <3> QED BY <3>1, <3>2
  <2>3. ConfTypeOK'
    BY <1>3, <2>1, <2>2 DEF ParseAddress, ConfTypeOK, mapVars
  <2>4. AllFilled'
    BY <1>3, <2>2 DEF ParseAddress, AllFilled, mapVars
  <2>5. DefaultThere' /\ LookupsOnlyRead'
    BY <1>3, <2>1 DEF ParseAddress, DefaultThere, LookupsOnlyRead, mapVars
  <2> QED BY <2>3, <2>4, <2>5
<1>4. CASE NextPart
  <2>1. pc' \in {"refused", "parse"} /\ member < Len(file.members)
    BY <1>4 DEF NextPart, DefaultThere
  <2>2. ConfTypeOK'
    BY <1>4, <2>1 DEF NextPart, ConfTypeOK, mapVars
  <2>3. AllFilled' /\ DefaultThere' /\ LookupsOnlyRead'
    BY <1>4, <2>1 DEF NextPart, AllFilled, Filled, DefaultThere, LookupsOnlyRead, mapVars
  <2> QED BY <2>2, <2>3
<1>5. CASE InsertModel
  <2>1. member < Len(file.members) /\ This.key \in Keys \cup {NoKey}
    BY <1>5, <1>t DEF InsertModel, DefaultThere
  <2>2. /\ DOMAIN ms_conf_' = DOMAIN ms_conf_ \cup {This.key}
        /\ \A x \in DOMAIN ms_conf_' :
             ms_conf_'[x] \in {ms_lists_} \cup {ms_conf_[y] : y \in DOMAIN ms_conf_}
    BY <1>5, InsertedKeeps DEF InsertModel
  <2>3. ConfTypeOK'
    BY <1>5, <1>t, <2>1, <2>2 DEF InsertModel, ConfTypeOK
  <2>4. AllFilled'
    <3>1. \A x \in DOMAIN ms_conf_' : Filled(ms_conf_'[x])
      BY <2>2 DEF AllFilled
    <3> QED BY <1>5, <3>1 DEF InsertModel, AllFilled
  <2>5. key_' \in DOMAIN ms_conf_'
    BY <1>5, <2>2 DEF InsertModel, DefaultThere, ConfTypeOK
  <2>6. DefaultThere' /\ LookupsOnlyRead'
    BY <1>5, <2>5 DEF InsertModel, DefaultThere, LookupsOnlyRead
  <2> QED BY <2>3, <2>4, <2>6
<1>6. CASE Loaded
  BY <1>6, <1>t DEF Loaded, ConfTypeOK, AllFilled, Filled, DefaultThere, LookupsOnlyRead, mapVars
<1>7. ASSUME NEW w \in Workers, NEW k \in LookedUp, StartInsert(w, k)
      PROVE  MInv'
  <2>1. file.members = <<>>
    BY <1>t, <1>7 DEF StartInsert, LookedUp, DefaultThere, ConfTypeOK
  <2>2. k \in Keys \cup {NoKey}
    BY <1>7 DEF LookedUp, ConfTypeOK
  <2>3. ConfTypeOK'
    BY <1>7, <2>2 DEF StartInsert, ConfTypeOK, mapVars
  <2>4. AllFilled' /\ DefaultThere' /\ LookupsOnlyRead'
    BY <1>7, <2>1 DEF StartInsert, AllFilled, Filled, DefaultThere, LookupsOnlyRead, mapVars
  <2> QED BY <2>3, <2>4
<1>8. ASSUME NEW w \in Workers, EndInsert(w)
      PROVE  MInv'
  <2>1. file.members = <<>>
    BY <1>8 DEF EndInsert, LookupsOnlyRead
  <2>2. member = 0 /\ Len(file.members) = 0
    BY <1>8, <1>t, <2>1 DEF EndInsert, DefaultThere
  <2>3. /\ DOMAIN ms_conf_' \subseteq DOMAIN ms_conf_ \cup {wpc[w]}
        /\ DOMAIN ms_conf_ \subseteq DOMAIN ms_conf_'
        /\ \A x \in DOMAIN ms_conf_' :
             ms_conf_'[x] \in {<<>>} \cup {ms_conf_[y] : y \in DOMAIN ms_conf_}
    <3>1. ms_conf_' = Inserted(wpc[w], <<>>) \/ ms_conf_' = ms_conf_
      BY <1>8 DEF EndInsert
    <3>2. CASE ms_conf_' = Inserted(wpc[w], <<>>)
      <4>1. DOMAIN ms_conf_' = DOMAIN ms_conf_ \cup {wpc[w]}
        BY <3>2, InsertedKeeps
      <4>2. \A x \in DOMAIN ms_conf_' :
              ms_conf_'[x] \in {<<>>} \cup {ms_conf_[y] : y \in DOMAIN ms_conf_}
        BY <3>2, InsertedKeeps
      <4> QED BY <4>1, <4>2
    <3>3. CASE ms_conf_' = ms_conf_
      BY <3>3
    <3> QED BY <3>1, <3>2, <3>3
  <2>4. wpc[w] \in Keys \cup {NoKey}
    BY <1>8 DEF EndInsert, ConfTypeOK
  <2>5. ConfTypeOK'
    BY <1>8, <1>e, <2>3, <2>4 DEF EndInsert, ConfTypeOK
  <2>6. AllFilled'
    <3>1. \A x \in DOMAIN ms_conf_' : Filled(ms_conf_'[x])
      BY <1>e, <2>3 DEF AllFilled
    <3> QED BY <1>8, <3>1 DEF EndInsert, AllFilled
  <2>7. /\ pc' \in {"loaded", "undefined"} /\ pc = "loaded"
        /\ file' = file /\ member' = member /\ key_' = key_
    BY <1>8 DEF EndInsert
  <2>8. key_' = NoKey \/ key_' \in DOMAIN ms_conf_'
    BY <2>3, <2>7 DEF DefaultThere
  <2>9. DefaultThere' /\ LookupsOnlyRead'
    BY <2>1, <2>2, <2>7, <2>8 DEF DefaultThere, LookupsOnlyRead
  <2> QED BY <2>5, <2>6, <2>9
<1>9. CASE UNCHANGED confVars
  BY <1>9 DEF confVars, mapVars, ConfTypeOK, AllFilled, Filled, DefaultThere, LookupsOnlyRead
<1> QED
  BY <1>1, <1>2, <1>3, <1>4, <1>5, <1>6, <1>7, <1>8, <1>9 DEF ConfNext, LoadStep, LookupStep

-----------------------------------------------------------------------------
(* MsConf: what is loaded is what the file says.                           *)

\* The first n partitions are loaded, as far as the last that has an address.
Matches(lists, parts, n) ==
  /\ Len(lists) <= n
  /\ \A p \in 1..n : IF p <= Len(lists) THEN lists[p] = parts[p].items
                                        ELSE parts[p].items = <<>>

\* The model being parsed: up to partition i, and of that one the first j items.
Parsed ==
  pc = "parse" =>
    /\ This.key # NoKey
    /\ i <= Len(Parts)
    /\ j = 0 => Matches(ms_lists_, Parts, i)
    /\ j > 0 => /\ i < Len(Parts) /\ j <= Len(Items)
                /\ Len(ms_lists_) = i + 1 /\ Len(ms_lists_[i + 1]) = j
                /\ \A p \in 1..i : ms_lists_[p] = Parts[p].items
                /\ \A x \in 1..j : ms_lists_[i + 1][x] = Items[x]

FirstOf(k, m) ==
  /\ file.members[m].key = k
  /\ \A n \in 1..(m - 1) : file.members[n].key # k

PartsOf(m) == file.members[m].value.parts

\* The models inserted so far.
Mapped ==
  file.members # <<>> =>
    /\ IF member = 0 THEN key_ = NoKey ELSE key_ = file.members[1].key /\ key_ # NoKey
    /\ DOMAIN ms_conf_ = {file.members[m].key : m \in 1..member}
    /\ \A k \in DOMAIN ms_conf_ : \E m \in 1..member :
         FirstOf(k, m) /\ Matches(ms_conf_[k], PartsOf(m), Len(PartsOf(m)))

LInv == MInv /\ Parsed /\ Mapped /\ DefinedWithoutGap

\* The first address opens its partition.
LEMMA OpenedByFirst ==
  ASSUME NEW lists \in Lists, NEW x \in Addresses,
         NEW new, new = [Append(lists, <<>>) EXCEPT ![Len(lists) + 1] = Append(@, x)]
  PROVE  /\ Len(new) = Len(lists) + 1
         /\ \A p \in 1..Len(lists) : new[p] = lists[p]
         /\ Len(new[Len(lists) + 1]) = 1 /\ new[Len(lists) + 1][1] = x
<1> DEFINE opened == Append(lists, <<>>)
<1>1. lists \in Seq(Seq(Addresses)) /\ <<>> \in Seq(Addresses) /\ Len(lists) \in Nat
  BY EmptySeq DEF Lists
<1>2. /\ opened \in Seq(Seq(Addresses)) /\ Len(opened) = Len(lists) + 1
      /\ \A p \in 1..Len(lists) : opened[p] = lists[p]
      /\ opened[Len(lists) + 1] = <<>>
  BY <1>1, AppendProperties
<1>3. /\ Append(<<>>, x) \in Seq(Addresses) /\ Len(Append(<<>>, x)) = 1
      /\ Append(<<>>, x)[1] = x
  BY <1>1, AppendProperties
<1> HIDE DEF opened
<1>4. new = [opened EXCEPT ![Len(lists) + 1] = Append(<<>>, x)]
  BY <1>2 DEF opened
<1> DEFINE last == Len(lists) + 1
<1>5. last \in 1..Len(opened)
  BY <1>1, <1>2
<1>6. /\ new = [opened EXCEPT ![last] = Append(<<>>, x)]
      /\ Len(opened) = last /\ Len(lists) \in Nat
      /\ \A p \in 1..Len(lists) : opened[p] = lists[p] /\ p \in 1..last /\ p # last
  <2>1. new = [opened EXCEPT ![last] = Append(<<>>, x)]
    BY ONLY <1>4
  <2>2. /\ Len(opened) = last /\ Len(lists) \in Nat
        /\ \A p \in 1..Len(lists) : opened[p] = lists[p] /\ p \in 1..last /\ p # last
    BY ONLY <1>1, <1>2
  <2> QED BY ONLY <2>1, <2>2
<1>7. /\ Len(new) = last
      /\ \A p \in 1..last : new[p] = IF p = last THEN Append(<<>>, x) ELSE opened[p]
  <2> HIDE DEF last
  <2>1. /\ Len([opened EXCEPT ![last] = Append(<<>>, x)]) = Len(opened)
        /\ \A p \in 1..Len(opened) :
             [opened EXCEPT ![last] = Append(<<>>, x)][p] = IF p = last THEN Append(<<>>, x) ELSE opened[p]
    BY <1>2, <1>3, <1>5, ExceptSeq
  <2> QED BY <1>6, <2>1
<1>8. new[last] = Append(<<>>, x)
  <2>1. last \in 1..last
    BY <1>1
  <2> HIDE DEF last
  <2> QED BY ONLY <1>7, <2>1
<1> QED BY <1>3, <1>6, <1>7, <1>8

\* The next address goes to the end of its partition.
LEMMA GrownByNext ==
  ASSUME NEW lists \in Lists, NEW n \in Nat, Len(lists) = n + 1, NEW x \in Addresses,
         NEW new, new = [lists EXCEPT ![n + 1] = Append(@, x)]
  PROVE  /\ Len(new) = n + 1
         /\ \A p \in 1..n : new[p] = lists[p]
         /\ Len(new[n + 1]) = Len(lists[n + 1]) + 1
         /\ \A y \in 1..Len(lists[n + 1]) : new[n + 1][y] = lists[n + 1][y]
         /\ new[n + 1][Len(lists[n + 1]) + 1] = x
<1>1. lists \in Seq(Seq(Addresses)) /\ n + 1 \in 1..Len(lists)
  BY DEF Lists
<1>2. lists[n + 1] \in Seq(Addresses)
  BY <1>1, ElementOfSeq
<1>3. /\ Append(lists[n + 1], x) \in Seq(Addresses)
      /\ Len(Append(lists[n + 1], x)) = Len(lists[n + 1]) + 1
      /\ \A y \in 1..Len(lists[n + 1]) : Append(lists[n + 1], x)[y] = lists[n + 1][y]
      /\ Append(lists[n + 1], x)[Len(lists[n + 1]) + 1] = x
  BY <1>2, AppendProperties
<1>4. /\ Len(new) = Len(lists)
      /\ \A p \in 1..Len(lists) : new[p] = IF p = n + 1 THEN Append(lists[n + 1], x) ELSE lists[p]
  BY <1>1, <1>3, ExceptSeq
<1> QED BY <1>1, <1>3, <1>4

\* The first item of Parts[i + 1], or a further one.
LEMMA AddressParsed ==
  ASSUME LInv, ParseAddress, pc' = "parse"
  PROVE  Parsed'
<1> USE DEF LInv, MInv
<1>1. /\ pc = "parse" /\ i < Len(Parts) /\ j < Len(Items)
      /\ ~Refused(Items[j + 1]) /\ i < Len(Grown)
      /\ ms_lists_' = [Grown EXCEPT ![i + 1] = Append(@, Items[j + 1])]
      /\ j' = j + 1 /\ i' = i /\ member' = member /\ file' = file
  BY DEF ParseAddress
<1>2. This' = This /\ Parts' = Parts /\ Items' = Items
  BY <1>1 DEF This, Parts, Items
<1>3. /\ i \in Nat /\ j \in Nat /\ ms_lists_ \in Lists /\ Len(ms_lists_) \in Nat
      /\ member < Len(file.members)
  BY <1>1 DEF ConfTypeOK, DefaultThere, Lists
<1>4. Items[j + 1] \in Addresses
  BY <1>1, <1>3, FileTypes DEF Refused
<1>5. This.key # NoKey
  BY <1>1 DEF Parsed
<1>6. CASE j = 0
  <2>1. Matches(ms_lists_, Parts, i)
    BY <1>1, <1>6 DEF Parsed
  <2>2. Len(ms_lists_) = i
    BY <1>1, <1>3, <2>1 DEF Matches, Grown
  <2>3. ms_lists_' = [Append(ms_lists_, <<>>) EXCEPT ![Len(ms_lists_) + 1] = Append(@, Items[1])]
    BY <1>1, <1>6, <2>2 DEF Grown
  <2>4. /\ Len(ms_lists_') = i + 1
        /\ \A p \in 1..i : ms_lists_'[p] = ms_lists_[p]
        /\ Len(ms_lists_'[i + 1]) = 1 /\ ms_lists_'[i + 1][1] = Items[1]
    BY <1>3, <1>4, <1>6, <2>2, <2>3, OpenedByFirst
  <2>5. \A p \in 1..i : ms_lists_[p] = Parts[p].items
    BY <1>3, <2>1, <2>2 DEF Matches
  <2> QED BY <1>1, <1>2, <1>3, <1>5, <1>6, <2>4, <2>5 DEF Parsed
<1>7. CASE j > 0
  <2>1. /\ Len(ms_lists_) = i + 1 /\ Len(ms_lists_[i + 1]) = j
        /\ \A p \in 1..i : ms_lists_[p] = Parts[p].items
        /\ \A x \in 1..j : ms_lists_[i + 1][x] = Items[x]
    BY <1>1, <1>7 DEF Parsed
  <2>2. ms_lists_' = [ms_lists_ EXCEPT ![i + 1] = Append(@, Items[j + 1])]
    <3>1. Grown = ms_lists_
      BY <1>3, <2>1 DEF Grown
    <3> QED BY <1>1, <3>1
  <2>3. /\ Len(ms_lists_') = i + 1
        /\ \A p \in 1..i : ms_lists_'[p] = ms_lists_[p]
        /\ Len(ms_lists_'[i + 1]) = j + 1
        /\ \A x \in 1..j : ms_lists_'[i + 1][x] = ms_lists_[i + 1][x]
        /\ ms_lists_'[i + 1][j + 1] = Items[j + 1]
    BY <1>3, <1>4, <2>1, <2>2, GrownByNext
  <2>4. \A x \in 1..(j + 1) : ms_lists_'[i + 1][x] = Items[x]
    BY <1>3, <2>1, <2>3
  <2> QED BY <1>1, <1>2, <1>3, <1>5, <2>1, <2>3, <2>4 DEF Parsed
<1> QED BY <1>3, <1>6, <1>7

\* An address behind an empty partition is a gap.
LEMMA UndefinedAtGap ==
  ASSUME LInv, ParseAddress, pc' = "undefined"
  PROVE  DefinedWithoutGap'
<1> USE DEF LInv, MInv
<1>1. /\ pc = "parse" /\ i < Len(Parts) /\ j < Len(Items)
      /\ ~(i < Len(Grown)) /\ file' = file
  BY DEF ParseAddress
<1>2. /\ i \in Nat /\ j \in Nat /\ ms_lists_ \in Lists /\ Len(ms_lists_) \in Nat
      /\ member \in Nat /\ member < Len(file.members) /\ Len(file.members) \in Nat
  BY <1>1, FileTypes DEF ConfTypeOK, DefaultThere, Lists
<1>3. Len(ms_lists_) < i
  <2>1. CASE Len(ms_lists_) = i
    <3>1. Len(Append(ms_lists_, <<>>)) = Len(ms_lists_) + 1
      BY <1>2, AppendProperties, EmptySeq DEF Lists
    <3> QED BY <1>1, <1>2, <2>1, <3>1 DEF Grown
  <2> QED BY <1>1, <1>2, <2>1 DEF Grown
<1>4. j = 0 /\ Matches(ms_lists_, Parts, i)
  BY <1>1, <1>2, <1>3 DEF Parsed
<1>5. Parts[Len(ms_lists_) + 1].items = <<>>
  BY <1>2, <1>3, <1>4 DEF Matches
<1>6. Items # <<>>
  BY <1>1, <1>2, EmptySeq
<1>7. Gap(This.value)
  <2>1. /\ Len(ms_lists_) + 1 \in 1..Len(Parts) /\ i + 1 \in 1..Len(Parts)
        /\ Len(ms_lists_) + 1 < i + 1
    BY <1>1, <1>2, <1>3, FileTypes
  <2> QED BY <1>5, <1>6, <2>1 DEF Gap, Parts, Items
<1>8. member + 1 \in 1..Len(file.members)
  BY <1>2
<1> QED BY <1>1, <1>7, <1>8 DEF DefinedWithoutGap, This

\* A partition is done.
LEMMA PartParsed ==
  ASSUME LInv, NextPart
  PROVE  Parsed'
<1> USE DEF LInv, MInv
<1> SUFFICES ASSUME pc' = "parse" PROVE Parsed'
  BY DEF Parsed
<1>1. /\ pc = "parse" /\ i < Len(Parts) /\ j = Len(Items)
      /\ i' = i + 1 /\ j' = 0
      /\ ms_lists_' = ms_lists_ /\ member' = member /\ file' = file
  BY DEF NextPart
<1>2. This' = This /\ Parts' = Parts
  BY <1>1 DEF This, Parts
<1>3. /\ i \in Nat /\ j \in Nat /\ ms_lists_ \in Lists /\ Len(ms_lists_) \in Nat
      /\ member < Len(file.members)
  BY <1>1 DEF ConfTypeOK, DefaultThere, Lists
<1>4. /\ Items \in Seq(Addresses \cup BadItems) /\ Items = Parts[i + 1].items
      /\ Len(Parts) \in Nat
  BY <1>1, <1>3, FileTypes DEF Items
<1>5. Matches(ms_lists_, Parts, i + 1)
  <2>1. CASE j = 0
    <3>1. Matches(ms_lists_, Parts, i)
      BY <1>1, <2>1 DEF Parsed
    <3>2. Parts[i + 1].items = <<>>
      BY <1>1, <1>4, <2>1
    <3> QED BY <1>3, <3>1, <3>2 DEF Matches
  <2>2. CASE j > 0
    <3>1. /\ Len(ms_lists_) = i + 1 /\ Len(ms_lists_[i + 1]) = Len(Items)
          /\ \A p \in 1..i : ms_lists_[p] = Parts[p].items
          /\ \A x \in 1..Len(Items) : ms_lists_[i + 1][x] = Items[x]
      BY <1>1, <2>2 DEF Parsed
    <3>2. ms_lists_[i + 1] = Items
      <4>1. ms_lists_[i + 1] \in Seq(Addresses)
        BY <1>3, <3>1, ElementOfSeq DEF Lists
      <4>2. ms_lists_[i + 1] \in Seq(Addresses \cup BadItems)
        BY <4>1
      <4> QED BY <1>4, <3>1, <4>2, SeqEqual
    <3> QED BY <1>3, <1>4, <3>1, <3>2 DEF Matches
  <2> QED BY <1>3, <2>1, <2>2
<1> QED BY <1>1, <1>2, <1>3, <1>4, <1>5 DEF Parsed

\* A model is inserted, unless there is one of its name.
LEMMA ModelMapped ==
  ASSUME LInv, InsertModel
  PROVE  Mapped'
<1> USE DEF LInv, MInv
<1>1. /\ pc = "parse" /\ i = Len(Parts)
      /\ ms_conf_' = Inserted(This.key, ms_lists_)
      /\ key_' = IF key_ = NoKey THEN This.key ELSE key_
      /\ member' = member + 1 /\ file' = file
  BY DEF InsertModel
<1>2. member \in Nat /\ member < Len(file.members) /\ i \in Nat /\ j \in Nat
  BY <1>1 DEF ConfTypeOK, DefaultThere
<1>3. file.members # <<>>
  BY <1>2, EmptySeq
<1>4. This.key # NoKey /\ Matches(ms_lists_, Parts, Len(Parts))
  BY <1>1, <1>2 DEF Parsed
<1>5. /\ This.key = file.members[member + 1].key /\ Parts = PartsOf(member + 1)
  BY DEF This, Parts, PartsOf
<1>6. /\ IF member = 0 THEN key_ = NoKey ELSE key_ = file.members[1].key /\ key_ # NoKey
      /\ DOMAIN ms_conf_ = {file.members[m].key : m \in 1..member}
      /\ \A k \in DOMAIN ms_conf_ : \E m \in 1..member :
           FirstOf(k, m) /\ Matches(ms_conf_[k], PartsOf(m), Len(PartsOf(m)))
  BY <1>3 DEF Mapped
<1>7. key_' = file.members[1].key /\ key_' # NoKey /\ member' # 0
  BY <1>1, <1>2, <1>4, <1>5, <1>6
<1>8. DOMAIN ms_conf_' = {file.members[m].key : m \in 1..(member + 1)}
  <2>1. DOMAIN ms_conf_' = DOMAIN ms_conf_ \cup {This.key}
    BY <1>1, InsertedKeeps
  <2> QED BY <1>2, <1>5, <1>6, <2>1
<1>9. ASSUME NEW k \in DOMAIN ms_conf_'
      PROVE  \E m \in 1..(member + 1) :
               FirstOf(k, m) /\ Matches(ms_conf_'[k], PartsOf(m), Len(PartsOf(m)))
  <2>1. CASE k \in DOMAIN ms_conf_
    <3>1. ms_conf_'[k] = ms_conf_[k]
      BY <1>1, <2>1 DEF Inserted
    <3>2. PICK m \in 1..member :
            FirstOf(k, m) /\ Matches(ms_conf_[k], PartsOf(m), Len(PartsOf(m)))
      BY <1>6, <2>1
    <3> QED BY <1>2, <3>1, <3>2
  <2>2. CASE k \notin DOMAIN ms_conf_
    <3>1. k = This.key /\ ms_conf_'[k] = ms_lists_
      BY <1>1, <1>9, <2>2, InsertedKeeps DEF Inserted
    <3>2. FirstOf(k, member + 1)
      BY <1>2, <1>5, <1>6, <2>2, <3>1 DEF FirstOf
    <3> QED BY <1>2, <1>4, <1>5, <3>1, <3>2
  <2> QED BY <2>1, <2>2
<1>10. ASSUME NEW k, NEW m, NEW lists
       PROVE  /\ FirstOf(k, m)' <=> FirstOf(k, m)
              /\ PartsOf(m)' = PartsOf(m)
  BY <1>1 DEF FirstOf, PartsOf
<1> QED BY <1>1, <1>7, <1>8, <1>9, <1>10 DEF Mapped

LEMMA LInvInit == ConfInit => LInv
<1> SUFFICES ASSUME ConfInit PROVE LInv
  OBVIOUS
<1>1. MInv
  BY MInvInit
<1>2. Parsed /\ Mapped /\ DefinedWithoutGap
  BY DEF ConfInit, Parsed, Mapped, DefinedWithoutGap
<1> QED BY <1>1, <1>2 DEF LInv

LEMMA LInvNext == LInv /\ [ConfNext]_confVars => LInv'
<1> SUFFICES ASSUME LInv, [ConfNext]_confVars PROVE LInv'
  OBVIOUS
<1> USE DEF LInv
<1>m. MInv'
  BY MInvNext
<1>k. file' = file /\ member' = member /\ key_' = key_ /\ ms_conf_' = ms_conf_ => Mapped'
  BY DEF Mapped, FirstOf, PartsOf
<1>g. file' = file /\ (pc' = "undefined" => pc = "undefined") => DefinedWithoutGap'
  BY DEF DefinedWithoutGap
<1>p. pc' # "parse" => Parsed'
  BY DEF Parsed
<1>1. CASE Open \/ Loaded
  BY <1>1, <1>k, <1>g, <1>p, <1>m DEF Open, Loaded, mapVars
<1>2. CASE StartModel
  <2>1. Mapped' /\ DefinedWithoutGap'
    BY <1>2, <1>k, <1>g DEF StartModel, mapVars
  <2>2. Parsed'
    <3> SUFFICES ASSUME pc' = "parse" PROVE Parsed'
      BY <1>p
    <3>1. /\ This.key # NoKey /\ i' = 0 /\ j' = 0 /\ ms_lists_' = <<>>
          /\ file' = file /\ member' = member /\ member < Len(file.members)
      BY <1>2 DEF StartModel
    <3>2. This' = This /\ Parts' = Parts
      BY <3>1 DEF This, Parts
    <3>3. Len(Parts) \in Nat
      BY <3>1, FileTypes DEF MInv
    <3> QED BY <3>1, <3>2, <3>3, EmptySeq DEF Parsed, Matches
  <2> QED BY <1>m, <2>1, <2>2
<1>3. CASE ParseAddress
  <2>1. Mapped' /\ pc' \in {"refused", "parse", "undefined"}
    BY <1>3, <1>k DEF ParseAddress, mapVars
  <2>2. Parsed'
    BY <1>3, <1>p, <2>1, AddressParsed
  <2>3. DefinedWithoutGap'
    BY <1>3, <1>g, <2>1, UndefinedAtGap DEF ParseAddress
  <2> QED BY <1>m, <2>1, <2>2, <2>3
<1>4. CASE NextPart
  <2>1. Mapped' /\ DefinedWithoutGap'
    BY <1>4, <1>k, <1>g DEF NextPart, mapVars
  <2> QED BY <1>4, <1>m, <2>1, PartParsed
<1>5. CASE InsertModel
  <2>1. Parsed' /\ DefinedWithoutGap'
    BY <1>5, <1>g, <1>p DEF InsertModel
  <2> QED BY <1>5, <1>m, <2>1, ModelMapped
<1>6. ASSUME NEW w \in Workers, (\E k \in LookedUp : StartInsert(w, k)) \/ EndInsert(w)
      PROVE  LInv'
  <2>1. file' = file /\ pc' # "parse"
    BY <1>6 DEF StartInsert, EndInsert
  <2>2. file.members = <<>>
    <3>1. CASE EndInsert(w)
      BY <3>1 DEF EndInsert, MInv, LookupsOnlyRead
    <3>2. ASSUME NEW k \in LookedUp, StartInsert(w, k) PROVE file.members = <<>>
      <4>1. pc = "loaded" /\ k = key_ /\ k \notin DOMAIN ms_conf_
        BY <3>2 DEF StartInsert, LookedUp
      <4>2. member = 0 /\ Len(file.members) = 0
        BY <4>1, FileTypes DEF MInv, DefaultThere, ConfTypeOK
      <4> QED BY <4>2, FileTypes, MembersType DEF MInv
    <3> QED BY <1>6, <3>1, <3>2
  <2> QED BY <1>m, <1>p, <2>1, <2>2 DEF Mapped, DefinedWithoutGap
<1>7. CASE UNCHANGED confVars
  <2>1. UNCHANGED <<file, member, key_, ms_conf_, pc>>
    BY <1>7 DEF confVars, mapVars
  <2>2. Mapped' /\ DefinedWithoutGap'
    BY ONLY <2>1, <1>k, <1>g, Zenon
  <2>3. Parsed'
    BY <1>7 DEF confVars, Parsed, Matches, This, Parts, Items
  <2> QED BY <1>m, <2>2, <2>3
<1> QED
  BY <1>1, <1>2, <1>3, <1>4, <1>5, <1>6, <1>7 DEF ConfNext, LoadStep, LookupStep

-----------------------------------------------------------------------------
\* Main loads the file and the workers look up as MsConf says, whatever else
\* happens in the program.
LEMMA ProgramConf == Spec => ConfSpec
<1>1. Init => ConfInit
  BY DEF Init
<1>2. [Next]_vars => [ConfNext]_confVars
  BY DEF Next, MainStep, ThreadStep, Over, vars, ReadSettings, StartClient, EndWait, Load, EndLoad,
         Crash, Bind, Lookup, Shutdown, StopClient, Join, Destroy, EndClose, CrashOfRace, Exit,
         WatcherStep, Event, WatcherLocks, WatcherCloses, WatcherOpens, WatcherWaits,
         UpdateReads, UpdateCalls, UpdateAssigns, LoopWakes, LoopRestarts, ConfNext
<1> QED
  BY <1>1, <1>2, PTL DEF Spec, ConfSpec

LEMMA MInvAlways == Spec => []MInv
BY MInvInit, MInvNext, ProgramConf, PTL DEF ConfSpec

\* No accepted file gives a partition without a server.
THEOREM PartitionsHaveServers == Spec => []NoEmptyPartition
<1>1. MInv => NoEmptyPartition
  BY DEF MInv, AllFilled, Filled, NoEmptyPartition
<1> QED BY <1>1, MInvAlways, PTL

\* The shared map is only read once it was loaded, for any number of workers,
\* unless the file has no model.
THEOREM LookupsDoNotInsert == Spec => []LookupsOnlyRead
<1>1. MInv => LookupsOnlyRead
  BY DEF MInv
<1> QED BY <1>1, MInvAlways, PTL

-----------------------------------------------------------------------------
(* The map as ServerChoice has it: a constant, with a server everywhere.   *)

\* A worker may ask: the server runs, and the file has a model.
Serving == main = "serve" /\ file.members # <<>>

\* Only an accepted file comes as far as this.
ServesLoaded == main \in {"bind", "serve"} /\ file.members # <<>> => pc = "loaded"

\* No step of a worker changes the map or ends the loading of a file with a model.
LEMMA LookupsChangeNothing ==
  ASSUME MInv, LookupStep, file.members # <<>>
  PROVE  UNCHANGED <<mapVars, pc, file>>
<1>1. PICK w \in Workers : (\E k \in LookedUp : StartInsert(w, k)) \/ EndInsert(w)
  BY DEF LookupStep
<1>2. wpc[w] = "idle"
  BY DEF MInv, LookupsOnlyRead
<1> QED BY <1>1, <1>2 DEF StartInsert, EndInsert, mapVars

LEMMA ServesLoadedAlways == Spec => []ServesLoaded
<1>1. Init => ServesLoaded
  BY DEF Init, ServesLoaded
<1>2. MInv /\ ServesLoaded /\ [Next]_vars => ServesLoaded'
  <2> SUFFICES ASSUME MInv, ServesLoaded, [Next]_vars PROVE ServesLoaded'
    OBVIOUS
  <2>1. ASSUME Load PROVE ServesLoaded'
    BY <2>1 DEF Load, ownVars, ServesLoaded
  <2>2. ASSUME Lookup PROVE ServesLoaded'
    <3>1. file' = file /\ main' = main
      BY <2>2 DEF Lookup, ownVars, LookupStep, StartInsert, EndInsert
    <3> QED BY <2>2, <3>1, LookupsChangeNothing DEF Lookup, ServesLoaded
  <2>3. ASSUME EndLoad PROVE ServesLoaded'
    BY <2>3 DEF EndLoad, confVars, ServesLoaded
  <2>4. ASSUME UNCHANGED confVars, main' = main \/ main' \notin {"bind", "serve"} \/ main = "bind"
        PROVE  ServesLoaded'
    BY <2>4 DEF confVars, ServesLoaded
  <2> QED
    BY <2>1, <2>2, <2>3, <2>4
    DEF Next, MainStep, ThreadStep, Over, vars, ownVars, ReadSettings, StartClient, EndWait, Crash,
        Bind, Shutdown, StopClient, Join, Destroy, EndClose, CrashOfRace, Exit, WatcherStep, Event,
        WatcherLocks, WatcherCloses, WatcherOpens, WatcherWaits, UpdateReads, UpdateCalls,
        UpdateAssigns, LoopWakes, LoopRestarts
<1> QED BY <1>1, <1>2, MInvAlways, PTL DEF Spec

\* While the server runs, get_ms_list finds for every partition of the default
\* model a list that is not empty: what ServerChoice assumes of ConfLists.
THEOREM ServedListsAreChoosable ==
  Spec => [](Serving => /\ key_ \in DOMAIN ms_conf_
                        /\ ms_conf_[key_] \in [1..Len(ms_conf_[key_]) -> Seq(Addresses) \ {<<>>}])
<1>1. MInv /\ ServesLoaded /\ Serving =>
        /\ key_ \in DOMAIN ms_conf_
        /\ ms_conf_[key_] \in [1..Len(ms_conf_[key_]) -> Seq(Addresses) \ {<<>>}]
  <2> SUFFICES ASSUME MInv, ServesLoaded, Serving
               PROVE  /\ key_ \in DOMAIN ms_conf_
                      /\ ms_conf_[key_] \in [1..Len(ms_conf_[key_]) -> Seq(Addresses) \ {<<>>}]
    OBVIOUS
  <2>1. file.members \in Seq([key : Keys \cup {NoKey}, value : Value])
    BY ConfAssumption DEF MInv, ConfTypeOK, File
  <2>2. member = Len(file.members) /\ member > 0
    BY <2>1 DEF Serving, ServesLoaded, MInv, DefaultThere
  <2>3. key_ \in DOMAIN ms_conf_
    BY <2>2 DEF MInv, DefaultThere
  <2>4. ms_conf_[key_] \in Seq(Seq(Addresses)) /\ Filled(ms_conf_[key_])
    BY <2>3 DEF MInv, ConfTypeOK, AllFilled, Lists
  <2> QED BY <2>3, <2>4 DEF Filled
<1> QED BY <1>1, MInvAlways, ServesLoadedAlways, PTL

\* And they stay the same for as long as it runs, so that they are a constant for
\* the workers, which share them without a lock.
THEOREM ServedListsStay == Spec => [][Serving => UNCHANGED mapVars]_vars
<1>1. MInv /\ [Next]_vars => (Serving => UNCHANGED mapVars)
  <2> SUFFICES ASSUME MInv, [Next]_vars, Serving PROVE UNCHANGED mapVars
    OBVIOUS
  <2>1. ASSUME Lookup PROVE UNCHANGED mapVars
    BY <2>1, LookupsChangeNothing DEF Lookup, Serving
  <2>2. ASSUME UNCHANGED confVars PROVE UNCHANGED mapVars
    BY <2>2 DEF confVars, mapVars
  <2>3. ~Load
    BY DEF Load, Serving
  <2> QED
    BY <2>1, <2>2, <2>3
    DEF Next, MainStep, ThreadStep, Over, vars, ReadSettings, StartClient, EndWait, EndLoad, Crash,
        Bind, Shutdown, StopClient, Join, Destroy, EndClose, CrashOfRace, Exit, WatcherStep, Event,
        WatcherLocks, WatcherCloses, WatcherOpens, WatcherWaits, UpdateReads, UpdateCalls,
        UpdateAssigns, LoopWakes, LoopRestarts
<1> QED BY <1>1, MInvAlways, PTL DEF Spec

-----------------------------------------------------------------------------
LEMMA LInvAlways == Spec => []LInv
BY LInvInit, LInvNext, ProgramConf, PTL DEF ConfSpec

\* Only a partition without an address before one with addresses leads past the
\* end of a vector, whatever the file.
THEOREM UndefinedOnlyAtGaps == Spec => []DefinedWithoutGap
<1>1. LInv => DefinedWithoutGap
  BY DEF LInv
<1> QED BY <1>1, LInvAlways, PTL

\* A map's entry that matches all partitions of a model, without the case split.
LEMMA MatchesAll ==
  ASSUME NEW lists, NEW parts, Len(lists) \in Nat, Len(parts) \in Nat,
         Matches(lists, parts, Len(parts))
  PROVE  /\ Len(lists) <= Len(parts)
         /\ \A p \in 1..Len(lists) : lists[p] = parts[p].items
         /\ \A p \in (Len(lists) + 1)..Len(parts) : parts[p].items = <<>>
<1>1. Len(lists) <= Len(parts)
  BY DEF Matches
<1>2. ASSUME NEW p \in 1..Len(lists) PROVE lists[p] = parts[p].items
  <2>1. p \in 1..Len(parts) /\ p <= Len(lists)
    BY <1>1
  <2> QED BY <2>1 DEF Matches
<1>3. ASSUME NEW p \in (Len(lists) + 1)..Len(parts) PROVE parts[p].items = <<>>
  <2>1. p \in 1..Len(parts) /\ ~(p <= Len(lists))
    OBVIOUS
  <2> QED BY <2>1 DEF Matches
<1> QED BY <1>1, <1>2, <1>3

\* The model that ListsOfFile compares an entry of the map with.
FirstModel(k) == CHOOSE m \in 1..Len(file.members) :
                   /\ file.members[m].key = k
                   /\ \A n \in 1..(m - 1) : file.members[n].key # k

AsFirstModel(k) ==
  /\ Len(ms_conf_[k]) <= Len(file.members[FirstModel(k)].value.parts)
  /\ \A p \in 1..Len(ms_conf_[k]) :
       ms_conf_[k][p] = file.members[FirstModel(k)].value.parts[p].items
  /\ \A p \in (Len(ms_conf_[k]) + 1)..Len(file.members[FirstModel(k)].value.parts) :
       file.members[FirstModel(k)].value.parts[p].items = <<>>

KeysOfFile ==
  /\ key_ = file.members[1].key
  /\ DOMAIN ms_conf_ = {file.members[m].key : m \in 1..Len(file.members)}

LEMMA ListsByModel ==
  ASSUME KeysOfFile,
         \A k \in DOMAIN ms_conf_ : AsFirstModel(k)
  PROVE  ListsOfFile
BY Zenon DEF ListsOfFile, KeysOfFile, AsFirstModel, FirstModel

\* What was loaded is what the file says, for any file and any number of workers.
THEOREM LoadsTheFile == Spec => []ListsOfFile
<1>1. LInv => ListsOfFile
  <2> SUFFICES ASSUME LInv, pc = "loaded", file.members # <<>>
               PROVE  ListsOfFile
    BY Zenon DEF ListsOfFile
  <2>1. member = Len(file.members) /\ Len(file.members) \in Nat \ {0}
    BY FileTypes, MembersType DEF LInv, MInv, DefaultThere
  <2>2. KeysOfFile
    BY <2>1 DEF LInv, Mapped, KeysOfFile
  <2>3. ASSUME NEW k \in DOMAIN ms_conf_
        PROVE  AsFirstModel(k)
    <3>1. PICK m \in 1..Len(file.members) :
            FirstOf(k, m) /\ Matches(ms_conf_[k], PartsOf(m), Len(PartsOf(m)))
      BY <2>1, <2>3 DEF LInv, Mapped
    <3>2. FirstModel(k) \in 1..Len(file.members) /\ FirstOf(k, FirstModel(k))
      BY <3>1 DEF FirstOf, FirstModel
    <3>3. \A n \in 1..Len(file.members) : FirstOf(k, n) => n = m
      <4> SUFFICES ASSUME NEW n \in 1..Len(file.members), FirstOf(k, n) PROVE n = m
        OBVIOUS
      <4>1. ~(n < m)
        BY <2>1, <3>1 DEF FirstOf
      <4>2. ~(m < n)
        BY <2>1, <3>1 DEF FirstOf
      <4> QED BY <2>1, <4>1, <4>2
    <3>4. FirstModel(k) = m
      BY <3>2, <3>3
    <3>5. Len(ms_conf_[k]) \in Nat
      BY DEF LInv, MInv, ConfTypeOK, Lists
    <3>6. Len(PartsOf(m)) \in Nat
      BY MembersType DEF LInv, MInv, PartsOf
    <3>7. file.members[m].value.parts = PartsOf(m)
      BY DEF PartsOf
    <3> QED BY ONLY <3>1, <3>4, <3>5, <3>6, <3>7, MatchesAll DEF AsFirstModel
  <2> QED BY <2>2, <2>3, ListsByModel
<1> QED BY <1>1, LInvAlways, PTL

-----------------------------------------------------------------------------
(* Program: the inductive invariant.                                       *)

\* What is alive, by where Main is.
Living ==
  /\ main = "settings" => alive = {}
  /\ main = "client" => alive = {"settings"}
  /\ main \in {"wait", "load", "bind", "serve", "stop", "join"} => alive = Objects
  /\ main = "close" => alive = {"client", "settings"}
  /\ main = "ended" => alive = {}
  /\ alive \in {{}, {"settings"}, {"client", "settings"}, Objects}

\* Whoever starts or closes a session, but for ~ZK, has the mutex.
Locked ==
  /\ main \in {"wait", "join"} => holder = Main
  /\ \A h \in Handles : Replacing(h) => holder = h
  /\ \A h \in Handles : at[h] = "init" => zzh = Nobody

\* A thread runs from the opening of its handle on, and no other close than its own
\* comes before its end.
Lives ==
  /\ \A h \in Handles : hstate[h] \in {"unused", "closed"} => at[h] = "rest"
  /\ zzh # Nobody => hstate[zzh] = "open"
  /\ main = "close" => closing \in Handles
  /\ main \in {"settings", "client"} => \A h \in Handles : hstate[h] = "unused"

\* What the history variables tell of Main.
Past ==
  /\ at[Loop] # "rest" => late \/ main \in {"serve", "terminated"}
  /\ late => main \in {"stop", "join", "exit", "close", "ended", "terminated"}
  /\ ip # NoIp => main \in {"serve", "stop", "join", "exit", "close", "ended", "terminated"}
  /\ stopped => main \in {"join", "exit", "close", "ended", "terminated"}
  /\ raced => main \in {"exit", "close", "ended", "terminated"}

\* After the client was stopped nobody opens a session any more.
Stopped ==
  stopped /\ ~late => /\ ~raced
                      /\ \A h \in Handles : ~Replacing(h)
                      /\ main = "join" \/ zzh = Nobody

\* Without the race of ~ZK no open handle is ever forgotten, and ~ZK closes what
\* there is.
Kept ==
  ~late /\ ~raced =>
    /\ \A h \in Handles : hstate[h] = "open" => h = zzh
    /\ "client" \notin alive => zzh = Nobody
    /\ main = "close" => closing = zzh
    /\ main = "close" \/ "client" \notin alive => \A h \in Handles : ~Replacing(h)

\* When something dangles.
Dangles ==
  /\ UsedWhileAlive
  /\ dangling # {} => main \in {"exit", "close", "ended", "terminated"}

OwnTypes ==
  /\ main \in {"settings", "client", "wait", "load", "bind", "serve", "stop", "join",
               "exit", "close", "ended", "terminated"}
  /\ holder \in Threads \cup {Main, Nobody}
  /\ {zzh, closing} \subseteq Handles \cup {Nobody}
  /\ hstate \in [Handles -> {"unused", "open", "closed", "orphan"}]
  /\ at \in [Threads -> {"rest", "lock", "settings", "call", "assign", "restart",
                         "finalize", "init", "wait"}]
  /\ alive \subseteq Objects
  /\ {stopped, late, raced} \subseteq BOOLEAN
  /\ dangling \subseteq Threads \X Objects

PInv == OwnTypes /\ Living /\ Locked /\ Lives /\ Past /\ Stopped /\ Kept /\ Dangles

\* The actors are different.
LEMMA Actors ==
  /\ Loop \in Threads /\ Loop \notin Handles /\ Handles \subseteq Threads
  /\ Main \notin Threads /\ Main # Nobody /\ Nobody \notin Threads
  /\ \A t \in Threads : t = Loop \/ t \in Handles
BY ProgramAssumption DEF Threads

\* The singletons end in the reverse order of their construction.
LEMMA FirstDestroyed ==
  /\ alive = Objects => First = "list"
  /\ alive = {"client", "settings"} => First = "client"
  /\ alive = {"settings"} => First = "settings"
<1>1. Len(Order) = 3 /\ Order[1] = "list" /\ Order[2] = "client" /\ Order[3] = "settings"
  BY DEF Order
<1>2. \A m \in 1..Len(Order) : m = 1 \/ m = 2 \/ m = 3
  BY <1>1
<1>3. ASSUME NEW o \in alive, NEW p \in alive
      PROVE  (\E m, n \in 1..Len(Order) : Order[m] = o /\ Order[n] = p /\ m <= n)
             <=> \/ o = "list" /\ p \in Objects
                 \/ o = "client" /\ p \in {"client", "settings"}
                 \/ o = "settings" /\ p = "settings"
  BY <1>1, <1>2 DEF Objects
<1> DEFINE Before(o) == \A p \in alive :
             \E m, n \in 1..Len(Order) : Order[m] = o /\ Order[n] = p /\ m <= n
<1>4. (\E o \in alive : Before(o)) => First \in alive /\ Before(First)
  BY DEF First
<1>5. CASE alive = Objects
  <2>1. "list" \in alive /\ Before("list")
    BY <1>3, <1>5 DEF Objects
  <2>2. \A o \in alive : Before(o) => o = "list"
    BY <1>3, <1>5 DEF Objects
  <2> QED
    BY <1>4, <1>5, <2>1, <2>2 DEF Objects
<1>6. CASE alive = {"client", "settings"}
  <2>1. "client" \in alive /\ Before("client")
    BY <1>3, <1>6 DEF Objects
  <2>2. \A o \in alive : Before(o) => o = "client"
    BY <1>3, <1>6 DEF Objects
  <2> QED
    BY <1>4, <1>6, <2>1, <2>2 DEF Objects
<1>7. CASE alive = {"settings"}
  <2>1. "settings" \in alive /\ Before("settings")
    BY <1>3, <1>7 DEF Objects
  <2> QED
    BY <1>4, <1>7, <2>1 DEF Objects
<1> QED
  BY <1>5, <1>6, <1>7 DEF Objects

LEMMA PInvInit == Init => PInv
  BY Actors
  DEF Init, PInv, OwnTypes, Living, Locked, Replacing, Lives, Past, Stopped, Kept, Dangles,
      UsedWhileAlive, Objects

\* Main before it starts the client and while it serves: no handle changes.
LEMMA MainInv ==
  ASSUME PInv,
         \/ ReadSettings \/ EndWait \/ Load \/ EndLoad \/ Crash \/ Bind \/ Lookup \/ Shutdown
  PROVE  PInv'
<1> USE Actors DEF PInv
<1>1. /\ UNCHANGED <<zzh, hstate, closing, raced, at, dangling, stopped>>
      /\ main \in {"settings", "wait", "load", "bind", "serve"}
      /\ holder' = IF main = "wait" THEN Nobody ELSE holder
      /\ late' = late \/ main' = "stop"
  BY DEF ReadSettings, EndWait, Load, EndLoad, Crash, Bind, Lookup, Shutdown,
         ownVars, threadVars, clientVars, historyVars, OwnTypes
<1>2. ~late /\ ~raced /\ ~stopped /\ dangling = {}
  BY <1>1 DEF Past, Dangles, OwnTypes
<1>3. OwnTypes' /\ Living'
  <2>1. CASE ReadSettings
    BY <2>1 DEF ReadSettings, OwnTypes, Living, Objects, threadVars, clientVars, historyVars
  <2>2. CASE EndWait
    BY <2>2 DEF EndWait, OwnTypes, Living, historyVars
  <2>3. CASE Load \/ Lookup
    BY <2>3 DEF Load, Lookup, OwnTypes, Living, ownVars, threadVars, clientVars, historyVars
  <2>4. CASE EndLoad \/ Crash \/ Bind
    BY <2>4 DEF EndLoad, Crash, Bind, OwnTypes, Living, threadVars, clientVars, historyVars
  <2>5. CASE Shutdown
    BY <2>5 DEF Shutdown, OwnTypes, Living, threadVars, clientVars
  <2> QED BY <2>1, <2>2, <2>3, <2>4, <2>5
<1>4. /\ main' \notin {"settings", "wait", "join", "close"}
      /\ main' = "client" => main = "settings"
      /\ main = "settings" \/ alive' = alive
  BY DEF ReadSettings, EndWait, Load, EndLoad, Crash, Bind, Lookup, Shutdown, ownVars
<1>5. Lives'
  BY <1>1, <1>4 DEF Lives
<1>9. Locked'
  <2>1. main = "wait" => \A h \in Handles : ~Replacing(h)
    BY DEF Locked
  <2> QED BY <1>1, <1>4, <2>1 DEF Locked, Replacing
<1>6. Past'
  <2>1. late' => main' = "stop"
    BY <1>1, <1>2
  <2>2. at[Loop] # "rest" => late' \/ main' \in {"serve", "terminated"}
    <3>1. at[Loop] # "rest" => main = "serve"
      BY <1>1, <1>2 DEF Past
    <3>2. main = "serve" => main' \in {"serve", "terminated"} \/ late' = (at[Loop] # "rest")
      BY DEF ReadSettings, EndWait, Load, EndLoad, Crash, Bind, Lookup, Shutdown, ownVars
    <3> QED BY <3>1, <3>2
  <2>3. ip' # NoIp => main' \in {"serve", "stop", "terminated"}
    <3>1. ip # NoIp => main = "serve"
      BY <1>1 DEF Past
    <3>2. \/ ip' = ip /\ (main = "serve" => main' \in {"serve", "stop", "terminated"})
          \/ main' \in {"serve", "terminated"}
      BY DEF ReadSettings, EndWait, Load, EndLoad, Crash, Bind, Lookup, Shutdown, ownVars, serverVars
    <3> QED BY <3>1, <3>2
  <2> QED BY <1>1, <1>2, <2>1, <2>2, <2>3 DEF Past
<1>7. Stopped' /\ Dangles'
  BY <1>1, <1>2 DEF Stopped, Dangles, UsedWhileAlive
<1>8. Kept'
  <2>1. CASE main = "settings"
    <3>1. zzh = Nobody /\ \A h \in Handles : hstate[h] = "unused" /\ at[h] = "rest"
      BY <2>1 DEF Lives, OwnTypes
    <3> QED BY <1>1, <1>4, <3>1 DEF Kept, Replacing
  <2>2. CASE main # "settings"
    BY <1>1, <1>2, <1>4, <2>2 DEF Kept, Replacing
  <2> QED BY <2>1, <2>2
<1> QED
  BY <1>3, <1>5, <1>6, <1>7, <1>8, <1>9

\* Main starts the client: the first handle.
LEMMA StartInv ==
  ASSUME PInv, StartClient
  PROVE  PInv'
<1> USE Actors DEF PInv
<1>1. /\ main = "client" /\ main' \in {"exit", "wait"} /\ alive' = Objects
      /\ UNCHANGED <<closing, raced, at, dangling, ip, stopped, late>>
  BY DEF StartClient, serverVars, historyVars
<1>2. ~late /\ ~raced /\ ~stopped /\ dangling = {} /\ zzh = Nobody
  BY <1>1 DEF Past, Dangles, Lives, OwnTypes
<1>3. /\ \A h \in Handles : hstate[h] = "unused" /\ at[h] = "rest"
      /\ hstate \in [Handles -> {"unused", "open", "closed", "orphan"}]
  BY <1>1 DEF Lives, OwnTypes
<1>4. \/ main' = "exit" /\ UNCHANGED <<holder, zzh, hstate>>
      \/ /\ main' = "wait" /\ holder' = Main
         /\ \E h \in Handles : zzh' = h /\ hstate' = [hstate EXCEPT ![h] = "open"]
  BY DEF StartClient, Opened
<1>5. /\ zzh' \in Handles \cup {Nobody}
      /\ hstate' \in [Handles -> {"unused", "open", "closed", "orphan"}]
      /\ \A h \in Handles : hstate'[h] \in {"unused", "open"} /\ (hstate'[h] = "open" <=> h = zzh')
      /\ zzh' # Nobody => hstate'[zzh'] = "open"
  BY <1>2, <1>3, <1>4
<1>6. OwnTypes' /\ Living'
  BY <1>1, <1>4, <1>5 DEF OwnTypes, Living, Objects
<1>7. Locked' /\ Lives' /\ Stopped'
  BY <1>1, <1>2, <1>3, <1>4, <1>5 DEF Locked, Lives, Stopped, Replacing
<1>8. Past' /\ Dangles'
  BY <1>1, <1>2 DEF Past, Dangles, UsedWhileAlive
<1>9. Kept'
  BY <1>1, <1>3, <1>5 DEF Kept, Replacing, Objects
<1> QED
  BY <1>6, <1>7, <1>8, <1>9

\* Main stops the client.
LEMMA StopInv ==
  ASSUME PInv, StopClient \/ Join
  PROVE  PInv'
<1> USE Actors DEF PInv
<1>1. CASE StopClient
  <2>1. /\ main = "stop" /\ main' \in {"exit", "join"} /\ holder = Nobody /\ stopped' = TRUE
        /\ UNCHANGED <<zzh, hstate, closing, raced, at, dangling, alive, ip, late>>
        /\ IF zzh = Nobody THEN main' = "exit" /\ UNCHANGED holder
                           ELSE main' = "join" /\ holder' = Main
    BY <1>1 DEF StopClient, serverVars
  <2>2. ~raced /\ dangling = {} /\ \A h \in Handles : ~Replacing(h)
    BY <2>1 DEF Past, Dangles, Locked
  <2>3. OwnTypes' /\ Living' /\ Past' /\ Dangles'
    BY <2>1, <2>2 DEF OwnTypes, Living, Past, Dangles, UsedWhileAlive
  <2>4. Locked' /\ Lives' /\ Stopped' /\ Kept'
    BY <2>1, <2>2 DEF Locked, Lives, Stopped, Kept, Replacing, Living, Objects
  <2> QED BY <2>3, <2>4
<1>2. CASE Join
  <2>1. /\ main = "join" /\ main' = "exit" /\ holder' = Nobody /\ zzh' = Nobody
        /\ hstate' = [hstate EXCEPT ![zzh] = IF @ = "open" THEN "closed" ELSE @]
        /\ at[zzh] = "rest" \/ hstate[zzh] = "orphan"
        /\ UNCHANGED <<closing, raced, at, dangling, alive, ip, stopped, late>>
    BY <1>2 DEF Join, Joined, Closed, serverVars, historyVars
  <2>2. ~raced /\ dangling = {} /\ holder = Main /\ alive = Objects
    BY <2>1 DEF Past, Dangles, Locked, Living
  <2>3. \A h \in Handles : ~Replacing(h)
    BY <2>2 DEF Locked
  <2>4. \A h \in Handles : hstate'[h] = IF h = zzh /\ hstate[h] = "open" THEN "closed" ELSE hstate[h]
    BY <2>1 DEF OwnTypes
  <2>5. OwnTypes' /\ Living' /\ Past' /\ Dangles'
    BY <2>1, <2>2 DEF OwnTypes, Living, Past, Dangles, UsedWhileAlive
  <2>6. Locked' /\ Lives'
    BY <2>1, <2>3, <2>4 DEF Locked, Lives, Replacing, OwnTypes
  <2>7. Stopped' /\ Kept'
    BY <2>1, <2>2, <2>3, <2>4 DEF Stopped, Kept, Replacing, Objects
  <2> QED BY <2>5, <2>6, <2>7
<1> QED
  BY <1>1, <1>2

\* The destructors.
LEMMA DestroyInv ==
  ASSUME PInv, Destroy
  PROVE  PInv'
<1> USE Actors DEF PInv
<1>1. /\ main = "exit" /\ alive # {}
      /\ raced' = (raced \/ (First = "client" /\ \E h \in Handles : Replacing(h)))
      /\ IF First = "client" /\ zzh # Nobody
         THEN main' = "close" /\ closing' = zzh /\ UNCHANGED alive
         ELSE alive' = alive \ {First} /\ UNCHANGED <<main, closing>>
      /\ UNCHANGED <<holder, zzh, hstate, at, dangling, ip, stopped, late>>
  BY DEF Destroy, Closes, serverVars, historyVars
<1>2. \/ alive = Objects /\ First = "list"
      \/ alive = {"client", "settings"} /\ First = "client"
      \/ alive = {"settings"} /\ First = "settings"
  BY <1>1, FirstDestroyed DEF Living
<1>3. OwnTypes' /\ Living'
  BY <1>1, <1>2 DEF OwnTypes, Living, Objects
<1>4. Locked' /\ Lives' /\ Past'
  BY <1>1 DEF Locked, Lives, Past, Replacing, OwnTypes
<1>5. Stopped' /\ Dangles'
  BY <1>1 DEF Stopped, Dangles, UsedWhileAlive, Replacing
<1>6. Kept'
  <2>1. CASE First = "client"
    BY <1>1, <1>2, <2>1 DEF Kept, Replacing, OwnTypes
  <2>2. CASE First # "client"
    BY <1>1, <1>2, <2>2 DEF Kept, Replacing, Objects
  <2> QED BY <2>1, <2>2
<1> QED
  BY <1>3, <1>4, <1>5, <1>6

LEMMA ExitInv ==
  ASSUME PInv, EndClose \/ CrashOfRace \/ Exit
  PROVE  PInv'
<1> USE Actors DEF PInv
<1>1. CASE EndClose
  <2>1. /\ main = "close" /\ main' = "exit" /\ zzh' = Nobody /\ closing' = Nobody
        /\ at[closing] = "rest" \/ hstate[closing] = "orphan"
        /\ hstate' = [hstate EXCEPT ![closing] = IF @ = "open" THEN "closed" ELSE @]
        /\ alive' = alive \ {"client"}
        /\ UNCHANGED <<holder, raced, at, dangling, ip, stopped, late>>
    BY <1>1 DEF EndClose, Joined, Closed, serverVars, historyVars
  <2>2. \A h \in Handles : hstate'[h] = IF h = closing /\ hstate[h] = "open" THEN "closed"
                                                                       ELSE hstate[h]
    BY <2>1 DEF OwnTypes
  <2>3. OwnTypes' /\ Living'
    BY <2>1 DEF OwnTypes, Living, Objects
  <2>4. Locked' /\ Lives' /\ Past'
    BY <2>1, <2>2 DEF Locked, Lives, Past, Replacing, OwnTypes
  <2>5. Stopped' /\ Dangles'
    BY <2>1, <2>2 DEF Stopped, Dangles, UsedWhileAlive, Replacing
  <2>6. Kept'
    BY <2>1, <2>2 DEF Kept, Replacing
  <2> QED BY <2>3, <2>4, <2>5, <2>6
<1>2. CASE CrashOfRace \/ Exit
  <2>1. /\ \/ main = "exit" /\ alive = {} /\ main' = "ended"
           \/ main \in {"exit", "close"} /\ raced /\ main' = "terminated"
        /\ UNCHANGED <<holder, zzh, hstate, closing, raced, at, dangling, alive, ip, stopped, late>>
    BY <1>2 DEF CrashOfRace, Exit, threadVars, clientVars, serverVars, historyVars
  <2>2. OwnTypes' /\ Living' /\ Dangles'
    BY <2>1 DEF OwnTypes, Living, Dangles, UsedWhileAlive
  <2>3. Locked' /\ Lives' /\ Past' /\ Stopped' /\ Kept'
    BY <2>1 DEF Locked, Lives, Past, Stopped, Kept, Replacing
  <2> QED BY <2>2, <2>3
<1> QED
  BY <1>1, <1>2

\* What a thread uses is alive, with the exceptions.
LEMMA UseInv ==
  ASSUME PInv, Running, NEW t \in Threads, at[t] # "rest", NEW used \in SUBSET Objects,
         Use(t, used), UNCHANGED <<main, alive, late, stopped>>,
         raced => raced', \A h \in Handles : hstate[h] = "orphan" => hstate'[h] = "orphan"
  PROVE  Dangles' /\ dangling' \subseteq Threads \X Objects
<1> USE Actors DEF PInv
<1>1. CASE late \/ used \ alive = {}
  <2>1. dangling' = dangling
    BY <1>1 DEF Use
  <2> QED BY <2>1 DEF OwnTypes, Dangles, UsedWhileAlive
<1>2. CASE ~late /\ used \ alive # {}
  <2>1. main \in {"exit", "close"} /\ t \in Handles
    BY <1>2 DEF Running, Living, Past, OwnTypes, Lives
  <2>2. hstate[t] \in {"open", "orphan"}
    BY <2>1 DEF Lives, OwnTypes
  <2>3. ASSUME hstate[t] = "open", ~raced
        PROVE  ~stopped /\ used \ alive \subseteq {"list"}
    <3>1. zzh = t /\ "client" \in alive
      BY <1>2, <2>1, <2>3 DEF Kept
    <3>2. ~stopped
      BY <1>2, <2>1, <3>1 DEF Stopped
    <3> QED BY <3>1, <3>2 DEF Living, Objects
  <2>4. raced => ~stopped
    BY <1>2 DEF Stopped
  <2>5. dangling' = dangling \cup ({t} \X (used \ alive))
    BY <1>2 DEF Use
  <2>6. \A o \in used \ alive : hstate'[t] = "orphan" \/ (~stopped' /\ (o = "list" \/ raced'))
    BY <2>1, <2>2, <2>3, <2>4
  <2>7. UsedWhileAlive'
    BY <2>1, <2>5, <2>6 DEF Dangles, UsedWhileAlive
  <2> QED BY <2>1, <2>5, <2>7 DEF OwnTypes, Dangles
<1> QED
  BY <1>1, <1>2

\* A step of a thread moves that thread only.
LEMMA Moves ==
  ASSUME OwnTypes, NEW t \in Threads, NEW l, at' = [at EXCEPT ![t] = l]
  PROVE  /\ at'[t] = l
         /\ \A u \in Threads : u # t => at'[u] = at[u]
BY DEF OwnTypes

\* The steps of zk_watcher.
LEMMA WatcherInv ==
  ASSUME PInv, NEW h \in Handles, WatcherStep(h)
  PROVE  PInv'
<1> USE Actors DEF PInv
<1>1. CASE Event(h)
  <2>1. /\ hstate[h] = "open" /\ main \notin {"ended", "terminated"}
        /\ \E l \in {"lock", "settings"} : at' = [at EXCEPT ![h] = l]
        /\ UNCHANGED <<main, holder, zzh, hstate, closing, raced, dangling, alive, ip,
                       stopped, late>>
    BY <1>1 DEF Event, Goto, Running, clientVars, serverVars, historyVars
  <2>2. /\ at'[Loop] = at[Loop]
        /\ \A g \in Handles : at'[g] = at[g] \/ (g = h /\ at'[g] \in {"lock", "settings"})
    BY <2>1, Moves
  <2>3. OwnTypes' /\ Living' /\ Dangles' /\ Past'
    BY <2>1, <2>2 DEF OwnTypes, Living, Dangles, UsedWhileAlive, Past
  <2>4. Locked' /\ Lives' /\ Stopped' /\ Kept'
    BY <2>1, <2>2 DEF Locked, Lives, Stopped, Kept, Replacing
  <2> QED BY <2>3, <2>4
<1>2. CASE WatcherLocks(h)
  <2>1. /\ Running /\ at[h] = "lock" /\ holder = Nobody
        /\ holder' \in {h, Nobody}
        /\ \/ zzh = h /\ at' = [at EXCEPT ![h] = "settings"] /\ raced' = raced
           \/ /\ zzh = h /\ at' = [at EXCEPT ![h] = "finalize"] /\ holder' = h
              /\ raced' = (raced \/ main = "close")
           \/ at' = [at EXCEPT ![h] = "rest"] /\ raced' = raced
        /\ UNCHANGED <<main, zzh, hstate, closing, alive, ip, stopped, late>>
    BY <1>2 DEF WatcherLocks, Goto, Leave, serverVars, historyVars
  <2>2. Dangles' /\ dangling' \subseteq Threads \X Objects
    <3>1. Use(h, {"client"}) /\ {"client"} \in SUBSET Objects
      BY <1>2 DEF WatcherLocks, Objects
    <3>2. raced => raced'
      BY <2>1
    <3> QED BY <2>1, <3>1, <3>2, UseInv
  <2>3. /\ \A g \in Handles : g # h => at'[g] = at[g] /\ ~Replacing(g)
        /\ at'[Loop] = at[Loop] /\ at'[h] \in {"settings", "finalize", "rest"}
    <3>1. \E l \in {"settings", "finalize", "rest"} : at' = [at EXCEPT ![h] = l]
      BY <2>1
    <3>2. \A g \in Handles : ~Replacing(g)
      BY <2>1 DEF Locked
    <3> QED BY <3>1, <3>2, Moves
  <2>4. OwnTypes' /\ Living'
    BY <2>1, <2>2 DEF OwnTypes, Living
  <2>5. Locked' /\ Lives' /\ Past'
    BY <2>1, <2>3 DEF Locked, Lives, Past, Replacing, OwnTypes
  <2>6. main \notin {"wait", "join"}
    BY <2>1 DEF Locked
  <2>7. Stopped'
    BY <2>1, <2>3, <2>6 DEF Stopped, Replacing, Past, OwnTypes
  <2>8. Kept'
    <3>1. ASSUME ~raced', ~late
          PROVE  /\ ~raced
                 /\ main = "close" \/ "client" \notin alive => at'[h] # "finalize"
      <4>1. ~raced
        BY <2>1, <3>1
      <4>2. CASE at' = [at EXCEPT ![h] = "finalize"]
        <5>1. zzh = h /\ main # "close"
          <6>1. at'[h] = "finalize"
            BY <4>2, Moves
          <6>2. at' # [at EXCEPT ![h] = "settings"] /\ at' # [at EXCEPT ![h] = "rest"]
            BY <6>1, Moves
          <6>3. zzh = h /\ raced' = (raced \/ main = "close")
            BY <2>1, <6>2
          <6> QED BY <3>1, <6>3
        <5> QED BY <3>1, <4>1, <5>1 DEF Kept
      <4>3. CASE at' # [at EXCEPT ![h] = "finalize"]
        BY <2>1, <4>1, <4>3, Moves
      <4> QED BY <4>2, <4>3
    <3> QED BY <2>1, <2>3, <3>1 DEF Kept, Replacing
  <2> QED BY <2>2, <2>4, <2>5, <2>7, <2>8
<1>3. CASE WatcherCloses(h)
  <2>1. /\ Running /\ at[h] = "finalize" /\ at' = [at EXCEPT ![h] = "init"]
        /\ hstate' = IF zzh = Nobody THEN hstate ELSE [hstate EXCEPT ![zzh] = "orphan"]
        /\ zzh' = Nobody
        /\ UNCHANGED <<main, holder, closing, raced, alive, ip, stopped, late>>
    BY <1>3 DEF WatcherCloses, Goto, serverVars, historyVars
  <2>2. \A g \in Handles : hstate'[g] = hstate[g] \/ (g = zzh /\ hstate'[g] = "orphan")
    BY <2>1 DEF OwnTypes
  <2>3. Dangles' /\ dangling' \subseteq Threads \X Objects
    BY <1>3, <2>1, <2>2, UseInv DEF WatcherCloses, Objects
  <2>4. /\ \A g \in Handles : g # h => at'[g] = at[g]
        /\ at'[Loop] = at[Loop] /\ at'[h] = "init" /\ Replacing(h)
    BY <2>1, Moves DEF Replacing
  <2>5. OwnTypes' /\ Living'
    BY <2>1, <2>3 DEF OwnTypes, Living
  <2>6. Locked' /\ Lives' /\ Past'
    BY <2>1, <2>2, <2>4 DEF Locked, Lives, Past, Replacing
  <2>7. Stopped'
    BY <2>1, <2>4 DEF Stopped, Replacing
  <2>8. Kept'
    <3>1. \A g \in Handles : g = zzh /\ zzh # Nobody => hstate'[g] = "orphan"
      BY <2>1 DEF OwnTypes
    <3> QED BY <2>1, <2>2, <2>4, <3>1 DEF Kept, Replacing
  <2> QED BY <2>3, <2>5, <2>6, <2>7, <2>8
<1>4. CASE WatcherOpens(h)
  <2>1. /\ Running /\ at[h] = "init" /\ holder = h /\ zzh = Nobody
        /\ \/ /\ at' = [at EXCEPT ![h] = "wait"] /\ UNCHANGED holder
              /\ \E g \in Handles : /\ hstate[g] = "unused" /\ zzh' = g
                                    /\ hstate' = [hstate EXCEPT ![g] = "open"]
           \/ at' = [at EXCEPT ![h] = "rest"] /\ holder' = Nobody /\ UNCHANGED <<zzh, hstate>>
        /\ UNCHANGED <<main, closing, raced, alive, ip, stopped, late>>
    BY <1>4 DEF WatcherOpens, Goto, Leave, Opened, serverVars, historyVars, Locked, Replacing
  <2>2. /\ \A g \in Handles : \/ hstate'[g] = hstate[g]
                              \/ hstate[g] = "unused" /\ hstate'[g] = "open" /\ g = zzh'
        /\ zzh' = Nobody \/ (zzh' \in Handles /\ hstate'[zzh'] = "open")
        /\ hstate' \in [Handles -> {"unused", "open", "closed", "orphan"}]
    BY <2>1 DEF OwnTypes
  <2>3. Dangles' /\ dangling' \subseteq Threads \X Objects
    BY <1>4, <2>1, <2>2, UseInv DEF WatcherOpens, Objects
  <2>4. /\ \A g \in Handles : g # h => at'[g] = at[g] /\ ~Replacing(g)
        /\ at'[Loop] = at[Loop] /\ at'[h] \in {"wait", "rest"} /\ Replacing(h)
        /\ at'[h] = "wait" => holder' = h
    <3>1. \E l \in {"wait", "rest"} : at' = [at EXCEPT ![h] = l]
      BY <2>1
    <3>2. at'[h] = "wait" => holder' = h
      BY <2>1, Moves
    <3> QED BY <2>1, <3>1, <3>2, Moves DEF Replacing, Locked
  <2>5. OwnTypes' /\ Living'
    BY <2>1, <2>2, <2>3 DEF OwnTypes, Living
  <2>6. /\ main \notin {"wait", "join", "settings", "client"}
    BY <2>1, <2>4 DEF Locked, Lives, OwnTypes
  <2>7. Locked' /\ Lives' /\ Past'
    BY <2>1, <2>2, <2>4, <2>6 DEF Locked, Lives, Past, Replacing
  <2>8. Stopped'
    BY <2>1, <2>4 DEF Stopped, Replacing
  <2>9. Kept'
    BY <2>1, <2>2, <2>4 DEF Kept, Replacing
  <2> QED BY <2>3, <2>5, <2>7, <2>8, <2>9
<1>5. CASE WatcherWaits(h)
  <2>1. /\ Running /\ at[h] = "wait" /\ holder = h /\ holder' = Nobody
        /\ \E l \in {"rest", "settings"} : at' = [at EXCEPT ![h] = l]
        /\ UNCHANGED <<main, zzh, hstate, closing, raced, alive, ip, stopped, late>>
    BY <1>5 DEF WatcherWaits, Goto, serverVars, historyVars, Locked, Replacing
  <2>2. Dangles' /\ dangling' \subseteq Threads \X Objects
    BY <1>5, <2>1, UseInv DEF WatcherWaits, Objects
  <2>3. /\ \A g \in Handles : g # h => at'[g] = at[g] /\ ~Replacing(g)
        /\ at'[Loop] = at[Loop] /\ at'[h] \in {"rest", "settings"} /\ Replacing(h)
    BY <2>1, Moves DEF Replacing, Locked
  <2>4. main \notin {"wait", "join"}
    BY <2>1 DEF Locked
  <2>5. OwnTypes' /\ Living'
    BY <2>1, <2>2 DEF OwnTypes, Living
  <2>6. Locked' /\ Lives' /\ Past' /\ Stopped' /\ Kept'
    BY <2>1, <2>3, <2>4 DEF Locked, Lives, Past, Stopped, Kept, Replacing
  <2> QED BY <2>2, <2>5, <2>6
<1> QED
  BY <1>1, <1>2, <1>3, <1>4, <1>5 DEF WatcherStep

\* The steps of updateModelServerList, in whichever thread.
LEMMA UpdateInv ==
  ASSUME PInv, NEW t \in Threads, UpdateReads(t) \/ UpdateCalls(t) \/ UpdateAssigns(t)
  PROVE  PInv'
<1> USE Actors DEF PInv
<1>1. /\ Running /\ at[t] \in {"settings", "call", "assign"}
      /\ \E l \in {"call", "assign", "rest"} : at' = [at EXCEPT ![t] = l]
      /\ holder' = holder \/ (holder = t /\ holder' = Nobody)
      /\ UNCHANGED <<main, zzh, hstate, closing, raced, alive, ip, stopped, late>>
  <2>1. CASE UpdateReads(t)
    BY <2>1 DEF UpdateReads, Goto, clientVars, serverVars, historyVars
  <2>2. CASE UpdateCalls(t)
    BY <2>2 DEF UpdateCalls, Goto, Leave, serverVars, historyVars
  <2>3. CASE UpdateAssigns(t)
    BY <2>3 DEF UpdateAssigns, Goto, Leave, serverVars, historyVars
  <2> QED BY <2>1, <2>2, <2>3
<1>2. Dangles' /\ dangling' \subseteq Threads \X Objects
  BY <1>1, UseInv DEF UpdateReads, UpdateCalls, UpdateAssigns, Objects
<1>3. /\ \A g \in Threads : g # t => at'[g] = at[g]
      /\ at'[t] \in {"call", "assign", "rest"}
  BY <1>1, Moves
<1>4. \A g \in Handles : Replacing(g)' => Replacing(g) /\ g # t
  BY <1>1, <1>3 DEF Replacing
<1>5. OwnTypes' /\ Living'
  BY <1>1, <1>2 DEF OwnTypes, Living
<1>6. Locked' /\ Lives' /\ Past'
  BY <1>1, <1>3, <1>4 DEF Locked, Lives, Past
<1>7. Stopped' /\ Kept'
  BY <1>1, <1>4 DEF Stopped, Kept
<1> QED
  BY <1>2, <1>5, <1>6, <1>7

LEMMA LoopInv ==
  ASSUME PInv, LoopWakes \/ LoopRestarts
  PROVE  PInv'
<1> USE Actors DEF PInv
<1>1. CASE LoopWakes
  <2>1. /\ Running /\ ip # NoIp /\ late' = (late \/ main # "serve")
        /\ \E l \in {"settings", "restart"} : at' = [at EXCEPT ![Loop] = l]
        /\ UNCHANGED <<main, holder, zzh, hstate, closing, raced, dangling, alive, ip, stopped>>
    BY <1>1 DEF LoopWakes, Goto, clientVars, serverVars
  <2>2. \A h \in Handles : at'[h] = at[h]
    BY <2>1, Moves
  <2>5. OwnTypes'
    BY <2>1 DEF OwnTypes
  <2>3. Living' /\ Dangles' /\ Past'
    BY <2>1 DEF OwnTypes, Living, Dangles, UsedWhileAlive, Past, Running
  <2>4. Locked' /\ Lives' /\ Stopped' /\ Kept'
    BY <2>1, <2>2 DEF Locked, Lives, Stopped, Kept, Replacing
  <2> QED BY <2>3, <2>4, <2>5
<1>2. CASE LoopRestarts
  <2> DEFINE left == IF zzh = Nobody THEN hstate ELSE [hstate EXCEPT ![zzh] = "closed"]
  <2>1. /\ Running /\ at[Loop] = "restart" /\ holder = Nobody /\ Use(Loop, {"client", "settings"})
        /\ zzh # Nobody => at[zzh] = "rest" \/ hstate[zzh] = "orphan"
        /\ \/ zzh' = Nobody /\ hstate' = left
           \/ \E h \in Handles : /\ left[h] = "unused"
                                 /\ zzh' = h /\ hstate' = [left EXCEPT ![h] = "open"]
        /\ at' = [at EXCEPT ![Loop] = "rest"]
        /\ UNCHANGED <<main, holder, closing, raced, alive, ip, stopped, late>>
    BY <1>2 DEF LoopRestarts, Joined, Goto, serverVars, historyVars
  <2>2. /\ left \in [Handles -> {"unused", "open", "closed", "orphan"}]
        /\ \A h \in Handles : left[h] = IF h = zzh THEN "closed" ELSE hstate[h]
    BY DEF OwnTypes
  <2> HIDE DEF left
  <2>3. /\ \A h \in Handles : \/ hstate'[h] = left[h]
                              \/ left[h] = "unused" /\ hstate'[h] = "open" /\ h = zzh'
        /\ zzh' = Nobody \/ (zzh' \in Handles /\ hstate'[zzh'] = "open")
        /\ hstate' \in [Handles -> {"unused", "open", "closed", "orphan"}]
    <3>1. CASE zzh' = Nobody /\ hstate' = left
      BY <2>2, <3>1
    <3>2. ASSUME NEW h \in Handles, left[h] = "unused", zzh' = h, hstate' = [left EXCEPT ![h] = "open"]
          PROVE  /\ \A g \in Handles : \/ hstate'[g] = left[g]
                                       \/ left[g] = "unused" /\ hstate'[g] = "open" /\ g = zzh'
                 /\ zzh' = Nobody \/ (zzh' \in Handles /\ hstate'[zzh'] = "open")
                 /\ hstate' \in [Handles -> {"unused", "open", "closed", "orphan"}]
      BY <2>2, <3>2
    <3> QED BY <2>1, <3>1, <3>2
  <2>4. /\ \A h \in Handles : at'[h] = at[h] /\ ~Replacing(h)
        /\ at'[Loop] = "rest"
    BY <2>1, Moves DEF Locked
  <2>5. late \/ main = "serve"
    BY <2>1 DEF Past, Running
  <2>6. \A h \in Handles : hstate[h] = "orphan" => hstate'[h] = "orphan"
    BY <2>2, <2>3 DEF Lives
  <2>7. Dangles' /\ dangling' \subseteq Threads \X Objects
    BY <2>1, <2>6, UseInv DEF Objects
  <2>8. OwnTypes' /\ Living'
    BY <2>1, <2>3, <2>7 DEF OwnTypes, Living
  <2>9. Lives'
    <3>1. \A h \in Handles : hstate'[h] \in {"unused", "closed"} => at[h] = "rest"
      BY <2>1, <2>2, <2>3 DEF Lives
    <3> QED BY <2>1, <2>3, <2>4, <2>5, <3>1 DEF Lives, Past
  <2>10. Locked' /\ Past'
    BY <2>1, <2>4, <2>5 DEF Locked, Past, Replacing
  <2>11. Stopped' /\ Kept'
    BY <2>1, <2>2, <2>3, <2>4, <2>5 DEF Stopped, Kept, Replacing, Past, Living, Objects
  <2> QED BY <2>7, <2>8, <2>9, <2>10, <2>11
<1> QED
  BY <1>1, <1>2

LEMMA PInvNext == PInv /\ [Next]_vars => PInv'
<1> SUFFICES ASSUME PInv, [Next]_vars PROVE PInv'
  OBVIOUS
<1>1. CASE UNCHANGED vars
  BY <1>1
  DEF vars, ownVars, threadVars, clientVars, serverVars, historyVars, PInv, OwnTypes, Living,
      Locked, Lives, Past, Stopped, Kept, Replacing, Dangles, UsedWhileAlive
<1>2. CASE MainStep
  BY <1>2, MainInv, StartInv, StopInv, DestroyInv, ExitInv DEF MainStep
<1>3. CASE ThreadStep
  BY <1>3, WatcherInv, UpdateInv, LoopInv DEF ThreadStep
<1> QED
  BY <1>1, <1>2, <1>3 DEF Next, Over

LEMMA PInvAlways == Spec => []PInv
BY PInvInit, PInvNext, PTL DEF Spec

\* Every variable keeps its type, for any files, workers, handles and interfaces.
THEOREM ProgramTypeCorrect == Spec => []TypeOK
<1>1. MInv /\ PInv => TypeOK
  BY DEF MInv, PInv, OwnTypes, TypeOK
<1> QED BY <1>1, MInvAlways, PInvAlways, PTL

\* However many sessions expire, no thread uses what was destroyed, but that of a
\* handle it has closed itself, and, only when main returned early, one that still
\* assigns the list or runs after the race of ~ZK.
THEOREM ObjectsOutliveThreads == Spec => []UsedWhileAlive
<1>1. PInv => UsedWhileAlive
  BY DEF PInv, Dangles
<1> QED BY <1>1, PInvAlways, PTL

\* The program ends with an open session only after the race of ~ZK, and then it
\* had not stopped the client.
THEOREM SessionsAreClosed == Spec => []SessionClosedAtExit
<1>1. PInv => SessionClosedAtExit
  <2> SUFFICES ASSUME PInv, main = "ended", ~late
               PROVE  (\A h \in Handles : hstate[h] # "open") \/ (raced /\ ~stopped)
    BY DEF SessionClosedAtExit
  <2>1. CASE raced
    BY <2>1 DEF PInv, Stopped
  <2>2. CASE ~raced
    <3>1. alive = {}
      BY DEF PInv, Living
    <3>2. zzh = Nobody /\ \A h \in Handles : hstate[h] = "open" => h = zzh
      BY <2>2, <3>1 DEF PInv, Kept
    <3> QED BY <3>2, Actors
  <2> QED BY <2>1, <2>2
<1> QED BY <1>1, PInvAlways, PTL

-----------------------------------------------------------------------------
(* The address of the server.                                              *)

\* Induction over the naturals, for a set in place of a predicate.
LEMMA SetInduction ==
  ASSUME NEW S, 0 \in S, \A n \in Nat : n \in S => n + 1 \in S
  PROVE  Nat \subseteq S
<1> DEFINE Less == OpToRel(<, Nat)
<1>1. \A m, n \in Nat : m < n => <<m, n>> \in Less
  BY Zenon DEF OpToRel
<1>2. IsWellFoundedOn(Less, Nat)
  BY Zenon, NatLessThanWellFounded
<1> HIDE DEF Less
<1> SUFFICES ASSUME Nat \ S # {} PROVE FALSE
  OBVIOUS
<1>3. PICK m \in Nat \ S : \A n \in Nat \ S : ~(<<n, m>> \in Less)
  BY <1>2, WFMin
<1>4. m # 0 /\ m - 1 \in Nat /\ m - 1 \notin S
  OBVIOUS
<1>5. <<m - 1, m>> \in Less
  <2>1. m - 1 \in Nat /\ m - 1 < m
    OBVIOUS
  <2> QED BY <1>1, <1>4, <2>1
<1> QED BY <1>3, <1>4, <1>5

\* The loop of getLocalIp with at most m rounds left.
ScanUpTo(scan, ifs, m) ==
  scan = [k \in 0..m |->
            [shift \in Nat |->
               IF k = 0 THEN NoIp
               ELSE LET this == ifs[k + shift + 1]
                    IN IF this = Loopback THEN scan[k - 1][shift + 1]
                       ELSE IF this \in Lan THEN this ELSE scan[k - 1][shift]]]

\* What one round does, in terms of the rounds that follow.
Round(scan, ifs, k, shift) ==
  IF ifs[k + shift + 1] = Loopback THEN scan[k - 1][shift + 1]
  ELSE IF ifs[k + shift + 1] \in Lan THEN ifs[k + shift + 1] ELSE scan[k - 1][shift]

LEMMA ScanByRounds ==
  ASSUME NEW scan, NEW ifs, NEW m \in Nat, ScanUpTo(scan, ifs, m),
         NEW k \in 0..m, NEW shift \in Nat
  PROVE  scan[k][shift] = IF k = 0 THEN NoIp ELSE Round(scan, ifs, k, shift)
<1>1. scan[k] = [s \in Nat |->
               IF k = 0 THEN NoIp
               ELSE LET this == ifs[k + s + 1]
                    IN IF this = Loopback THEN scan[k - 1][s + 1]
                       ELSE IF this \in Lan THEN this ELSE scan[k - 1][s]]
  BY DEF ScanUpTo
<1> QED BY <1>1 DEF Round

\* The recursion of LocalIp has a solution: one more round extends it.
LEMMA ScanExists ==
  ASSUME NEW ifs, NEW m \in Nat
  PROVE  \E scan : ScanUpTo(scan, ifs, m)
<1> DEFINE S == {n \in Nat : \E scan : ScanUpTo(scan, ifs, n)}
<1>1. 0 \in S
  <2>1. ScanUpTo([k \in 0..0 |-> [shift \in Nat |-> NoIp]], ifs, 0)
    BY DEF ScanUpTo
  <2> QED BY <2>1
<1>2. ASSUME NEW n \in Nat, n \in S PROVE n + 1 \in S
  <2>1. PICK f : ScanUpTo(f, ifs, n)
    BY <1>2
  <2> DEFINE row(g, k) ==
               [shift \in Nat |->
                  IF k = 0 THEN NoIp
                  ELSE LET this == ifs[k + shift + 1]
                       IN IF this = Loopback THEN g[k - 1][shift + 1]
                          ELSE IF this \in Lan THEN this ELSE g[k - 1][shift]]
             new == [k \in 0..(n + 1) |-> IF k <= n THEN f[k] ELSE row(f, k)]
  <2>2. /\ \A k \in 0..n : new[k] = f[k] /\ f[k] = row(f, k)
        /\ new[n + 1] = row(f, n + 1)
    <3>1. f = [k \in 0..n |-> row(f, k)]
      BY <2>1 DEF ScanUpTo
    <3> HIDE DEF row
    <3>2. \A k \in 0..n : f[k] = row(f, k)
      BY <3>1
    <3>3. \A k \in 0..n : k \in 0..(n + 1) /\ k <= n
      OBVIOUS
    <3>4. n + 1 \in 0..(n + 1) /\ ~(n + 1 <= n)
      OBVIOUS
    <3> QED BY <3>2, <3>3, <3>4
  <2>3. new = [k \in 0..(n + 1) |-> new[k]]
    OBVIOUS
  <2> HIDE DEF new
  <2>4. ASSUME NEW k \in 0..(n + 1) PROVE row(f, k) = row(new, k)
    <3>1. k # 0 => k - 1 \in 0..n
      OBVIOUS
    <3>2. k # 0 => new[k - 1] = f[k - 1]
      BY <2>2, <3>1
    <3> QED BY <3>2
  <2> HIDE DEF row
  <2>5. \A k \in 0..(n + 1) : new[k] = row(new, k)
    BY <2>2, <2>4
  <2>6. new = [k \in 0..(n + 1) |-> row(new, k)]
    BY <2>3, <2>5
  <2>7. ScanUpTo(new, ifs, n + 1)
    BY <2>6 DEF ScanUpTo, row
  <2> QED BY <2>7
<1> HIDE DEF S
<1>3. m \in S
  BY <1>1, <1>2, SetInduction
<1> QED BY <1>3 DEF S

\* Once the loop meets a loopback address it stays there to its end.
LEMMA LoopbackEnds ==
  ASSUME NEW scan, NEW ifs, NEW m \in Nat, ScanUpTo(scan, ifs, m),
         NEW k \in 0..m, NEW shift \in Nat, ifs[k + shift + 1] = Loopback
  PROVE  scan[k][shift] = NoIp
<1> DEFINE S == {n \in Nat : n <= m =>
                   \A s \in Nat : ifs[n + s + 1] = Loopback => scan[n][s] = NoIp}
<1>1. 0 \in S
  BY ScanByRounds
<1>2. ASSUME NEW n \in Nat, n \in S PROVE n + 1 \in S
  <2> SUFFICES ASSUME n + 1 <= m, NEW s \in Nat, ifs[n + 1 + s + 1] = Loopback
               PROVE  scan[n + 1][s] = NoIp
    OBVIOUS
  <2>1. n + 1 \in 0..m /\ n + 1 # 0 /\ (n + 1) - 1 = n /\ n <= m
    OBVIOUS
  <2>2. scan[n + 1][s] = scan[n][s + 1]
    <3>1. scan[n + 1][s] = Round(scan, ifs, n + 1, s)
      BY <2>1, ScanByRounds
    <3> QED BY <2>1, <3>1 DEF Round
  <2>3. s + 1 \in Nat /\ ifs[n + (s + 1) + 1] = Loopback
    <3>1. n + (s + 1) + 1 = n + 1 + s + 1
      OBVIOUS
    <3> QED BY <3>1
  <2> QED BY <1>2, <2>1, <2>2, <2>3
<1> HIDE DEF S
<1>3. k \in S
  BY <1>1, <1>2, SetInduction
<1> QED BY <1>3 DEF S

\* What getLocalIp finds: of the private and the loopback addresses the last one,
\* the first interface left out; and nothing when that is a loopback address.
THEOREM LocalIpFinds ==
  ASSUME NEW ifs, Len(ifs) \in Nat \ {0}
  PROVE  \/ /\ \A k \in 2..Len(ifs) : ifs[k] \notin Lan \cup {Loopback}
            /\ LocalIp(ifs) = NoIp
         \/ \E k \in 2..Len(ifs) :
              /\ ifs[k] \in Lan \cup {Loopback}
              /\ \A l \in (k + 1)..Len(ifs) : ifs[l] \notin Lan \cup {Loopback}
              /\ LocalIp(ifs) = IF ifs[k] = Loopback THEN NoIp ELSE ifs[k]
<1> DEFINE n == Len(ifs) - 1
           scan == CHOOSE f : ScanUpTo(f, ifs, n)
<1>1. ScanUpTo(scan, ifs, n) /\ n \in Nat /\ Len(ifs) = n + 1
  BY ScanExists
<1>2. LocalIp(ifs) = scan[n][0]
  BY DEF LocalIp, ScanUpTo
<1> HIDE DEF scan, n
<1> DEFINE Found(m) ==
      \/ /\ \A k \in 2..(m + 1) : ifs[k] \notin Lan \cup {Loopback}
         /\ scan[m][0] = NoIp
      \/ \E k \in 2..(m + 1) :
           /\ ifs[k] \in Lan \cup {Loopback}
           /\ \A l \in (k + 1)..(m + 1) : ifs[l] \notin Lan \cup {Loopback}
           /\ scan[m][0] = IF ifs[k] = Loopback THEN NoIp ELSE ifs[k]
           S == {m \in Nat : m <= n => Found(m)}
<1>3. 0 \in S
  <2>1. scan[0][0] = NoIp
    BY <1>1, ScanByRounds
  <2> QED BY <2>1
<1>4. ASSUME NEW m \in Nat, m \in S PROVE m + 1 \in S
  <2> SUFFICES ASSUME m + 1 <= n PROVE Found(m + 1)
    OBVIOUS
  <2>1. /\ m + 1 \in 0..n /\ m + 1 # 0 /\ (m + 1) - 1 = m /\ m <= n
        /\ m + 1 + 0 + 1 = m + 2 /\ m + 1 + 1 = m + 2 /\ m + 2 \in 2..(m + 2)
    BY <1>1
  <2>2. scan[m + 1][0] = Round(scan, ifs, m + 1, 0)
    BY <1>1, <2>1, ScanByRounds
  <2>3. CASE ifs[m + 2] = Loopback
    <3>1. scan[m + 1][0] = NoIp
      BY <1>1, <2>1, <2>3, LoopbackEnds
    <3> QED BY <2>1, <2>3, <3>1
  <2>4. CASE ifs[m + 2] # Loopback /\ ifs[m + 2] \in Lan
    <3>1. scan[m + 1][0] = ifs[m + 2]
      BY <2>1, <2>2, <2>4 DEF Round
    <3> QED BY <2>1, <2>4, <3>1
  <2>5. CASE ifs[m + 2] # Loopback /\ ifs[m + 2] \notin Lan
    <3>1. scan[m + 1][0] = scan[m][0]
      BY <2>1, <2>2, <2>5 DEF Round
    <3>2. Found(m)
      BY <1>4, <2>1
    <3>3. \A k : k \in 2..(m + 2) <=> k \in 2..(m + 1) \/ k = m + 2
      OBVIOUS
    <3>4. \A k \in 2..(m + 1) : \A l \in (k + 1)..(m + 2) : l \in (k + 1)..(m + 1) \/ l = m + 2
      OBVIOUS
    <3> QED BY <2>1, <2>5, <3>1, <3>2, <3>3, <3>4
  <2> QED BY <2>3, <2>4, <2>5
<1> HIDE DEF S
<1>5. n \in S
  BY <1>1, <1>3, <1>4, SetInduction
<1> QED BY <1>1, <1>2, <1>5 DEF S

\* The address is what getLocalIp made of the interfaces.
Bound == machine # <<>> => machine \in Machines /\ ip = LocalIp(machine)

LEMMA BoundAlways == Spec => []Bound
<1>1. Init => Bound
  BY DEF Init, Bound
<1>2. Bound /\ [Next]_vars => Bound'
  <2> SUFFICES ASSUME Bound, [Next]_vars PROVE Bound'
    OBVIOUS
  <2>1. CASE Bind
    BY <2>1 DEF Bind, Bound
  <2>2. ASSUME UNCHANGED <<machine, ip>> PROVE Bound'
    BY <2>2 DEF Bound
  <2>3. CASE MainStep
    BY <2>1, <2>2, <2>3
    DEF MainStep, ReadSettings, StartClient, EndWait, Load, EndLoad, Crash, Lookup,
        Shutdown, StopClient, Join, Destroy, EndClose, CrashOfRace, Exit, ownVars, serverVars
  <2>4. CASE ThreadStep
    BY <2>2, <2>4
    DEF ThreadStep, WatcherStep, Event, WatcherLocks, WatcherCloses, WatcherOpens,
        WatcherWaits, UpdateReads, UpdateCalls, UpdateAssigns, LoopWakes, LoopRestarts,
        serverVars
  <2> QED BY <2>2, <2>3, <2>4 DEF Next, Over, vars, ownVars, serverVars
<1> QED BY <1>1, <1>2, PTL DEF Spec

\* Where the loopback interface comes first, and nothing is behind the interfaces,
\* the off-by-one of getLocalIp does no harm, for any number of interfaces.
THEOREM ServerOnLan == Spec => []LanAddressFound
<1>1. Bound => LanAddressFound
  <2> DEFINE n == Len(machine) - 1
             others == {machine[k] : k \in 2..n}
  <2> SUFFICES ASSUME Bound, machine # <<>>,
                      machine[n + 1] \notin Lan \cup {Loopback},
                      Loopback \notin others,
                      others \cap Lan # {}
               PROVE  ip \in others \cap Lan
    BY DEF LanAddressFound
  <2>1. Len(machine) \in Nat \ {0} /\ ip = LocalIp(machine)
    BY ProgramAssumption DEF Bound
  <2>2. \A k \in 2..Len(machine) : k \in 2..n \/ k = n + 1
    BY <2>1
  <2>3. \E k \in 2..Len(machine) : machine[k] \in Lan
    BY <2>1
  <2>4. PICK k \in 2..Len(machine) :
          /\ machine[k] \in Lan \cup {Loopback}
          /\ LocalIp(machine) = IF machine[k] = Loopback THEN NoIp ELSE machine[k]
    BY <2>1, <2>3, LocalIpFinds
  <2>5. k \in 2..n
    BY <2>2, <2>4
  <2> QED BY <2>1, <2>4, <2>5
<1> QED BY <1>1, BoundAlways, PTL

=============================================================================
