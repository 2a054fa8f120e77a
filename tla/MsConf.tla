------------------------------- MODULE MsConf -------------------------------
(***************************************************************************)
(* TGProxyMSConfFile: the file of model servers is loaded by Main before   *)
(* any worker runs; the workers look models up in the map without a lock.  *)
(* Program says when either happens.                                       *)
(*                                                                         *)
(* The text of the file is abstracted to what the code asks rapidjson:     *)
(* whether it could be read and parsed, its members in order, and of each  *)
(* value the members the code looks at.                                    *)
(***************************************************************************)
EXTENDS Integers, SequencesExt

CONSTANTS
  Keys,      \* keys of models
  NoKey,     \* the empty string
  Addresses,
  BadItems,  \* members of a partition that are no string, or an empty one
  Files,     \* the files there may be
  Workers    \* worker threads of the HTTP server

Part  == [array : BOOLEAN, items : Seq(Addresses \cup BadItems)]
Value == [object : BOOLEAN, name : BOOLEAN, version : BOOLEAN, list : BOOLEAN,
          parts : Seq(Part)]
File  == [form : {"unreadable", "broken", "scalar", "object"},
          members : Seq([key : Keys \cup {NoKey}, value : Value])]

ASSUME ConfAssumption ==
  /\ NoKey \notin Keys
  /\ Addresses \cap BadItems = {}
  /\ Files \subseteq File

VARIABLES
  pc,         \* where Main is
  file,       \* the file
  member,     \* members done
  i, j,       \* the loops of parse_ms_conf
  ms_lists_,  \* of the model being parsed
  ms_conf_,   \* the map
  key_,       \* the default model
  wpc         \* per worker: inside operator[] with an insertion or not

confVars == <<pc, file, member, i, j, ms_lists_, ms_conf_, key_, wpc>>

mapVars == <<ms_conf_, key_>>

-----------------------------------------------------------------------------
ConfInit ==
  /\ pc = "open"
  /\ file \in Files
  /\ member = 0 /\ i = 0 /\ j = 0
  /\ ms_lists_ = <<>>
  /\ ms_conf_ = [k \in {} |-> <<>>]
  /\ key_ = NoKey
  /\ wpc = [w \in Workers |-> "idle"]

\* A document that is no object fails rapidjson's assertion in GetObject.
Open ==
  /\ pc = "open"
  /\ pc' = CASE file.form = "object" -> "member"
             [] file.form = "scalar" -> "aborted"
             [] OTHER                -> "refused"
  /\ UNCHANGED <<file, member, i, j, ms_lists_, mapVars, wpc>>

This  == file.members[member + 1]
Parts == This.value.parts
Items == Parts[i + 1].items

\* The checks before the loops; HasMember asserts that the value is an object.
StartModel ==
  /\ pc = "member"
  /\ member < Len(file.members)
  /\ LET v == This.value
     IN pc' = CASE This.key = NoKey                 -> "refused"
                [] This.key # NoKey /\ ~v.object    -> "aborted"
                [] This.key # NoKey /\ v.object ->
                     IF v.name /\ v.version /\ v.list THEN "parse" ELSE "refused"
  /\ i' = 0 /\ j' = 0 /\ ms_lists_' = <<>>
  /\ UNCHANGED <<file, member, mapVars, wpc>>

\* No string, or an empty one.
Refused(item) == item \in BadItems

\* Mutant of Grown: the partition is compared with the number of the address.
GrownByItem == IF Len(ms_lists_) = j THEN Append(ms_lists_, <<>>) ELSE ms_lists_

\* The partition is opened with its first address.
Grown == IF Len(ms_lists_) = i THEN Append(ms_lists_, <<>>) ELSE ms_lists_

\* One address.  When an earlier partition had none, ms_lists_[i] is past the
\* end of the vector, and what happens then is undefined.
ParseAddress ==
  /\ pc = "parse"
  /\ i < Len(Parts) /\ Parts[i + 1].array
  /\ j < Len(Items)
  /\ IF Refused(Items[j + 1])
     THEN pc' = "refused" /\ UNCHANGED <<j, ms_lists_>>
     ELSE IF i < Len(Grown)
     THEN /\ ms_lists_' = [Grown EXCEPT ![i + 1] = Append(@, Items[j + 1])]
          /\ j' = j + 1
          /\ UNCHANGED pc
     ELSE pc' = "undefined" /\ UNCHANGED <<j, ms_lists_>>
  /\ UNCHANGED <<file, member, i, mapVars, wpc>>

\* Mutant of NextPart: a partition without an address is opened all the same.
NextPartOpens ==
  /\ pc = "parse"
  /\ i < Len(Parts)
  /\ Parts[i + 1].array => j = Len(Items)
  /\ IF Parts[i + 1].array
     THEN /\ i' = i + 1 /\ j' = 0 /\ UNCHANGED pc
          /\ ms_lists_' = Grown
     ELSE pc' = "refused" /\ UNCHANGED <<i, j, ms_lists_>>
  /\ UNCHANGED <<file, member, mapVars, wpc>>

NextPart ==
  /\ pc = "parse"
  /\ i < Len(Parts)
  /\ Parts[i + 1].array => j = Len(Items)
  /\ IF Parts[i + 1].array
     THEN i' = i + 1 /\ j' = 0 /\ UNCHANGED pc
     ELSE pc' = "refused" /\ UNCHANGED <<i, j>>
  /\ UNCHANGED <<file, member, ms_lists_, mapVars, wpc>>

\* Mutant of Inserted: operator[] instead of insert, a later member wins.
InsertedLast(k, lists) == [x \in DOMAIN ms_conf_ \cup {k} |-> IF x = k THEN lists ELSE ms_conf_[x]]

\* map::insert keeps the value that is there.
Inserted(k, lists) ==
  [x \in DOMAIN ms_conf_ \cup {k} |-> IF x \in DOMAIN ms_conf_ THEN ms_conf_[x] ELSE lists]

InsertModel ==
  /\ pc = "parse"
  /\ i = Len(Parts)
  /\ ms_conf_' = Inserted(This.key, ms_lists_)
  /\ key_' = IF key_ = NoKey THEN This.key ELSE key_
  /\ member' = member + 1
  /\ pc' = "member"
  /\ UNCHANGED <<file, i, j, ms_lists_, wpc>>

Loaded ==
  /\ pc = "member"
  /\ member = Len(file.members)
  /\ pc' = "loaded"
  /\ UNCHANGED <<file, member, i, j, ms_lists_, mapVars, wpc>>

-----------------------------------------------------------------------------
\* Mutant of LookedUp: the key of the request's model is looked up.
LookedUpAny == Keys

\* The key get_ms_parts and get_ms_list use: nobody passes one.
LookedUp == {key_}

\* operator[] does not find the key and starts to insert it.
StartInsert(w, k) ==
  /\ pc = "loaded"
  /\ wpc[w] = "idle"
  /\ k \notin DOMAIN ms_conf_
  /\ wpc' = [wpc EXCEPT ![w] = k]
  /\ UNCHANGED <<pc, file, member, i, j, ms_lists_, mapVars>>

\* While two workers insert, what happens is undefined.
EndInsert(w) ==
  /\ pc = "loaded"
  /\ wpc[w] # "idle"
  /\ IF \A u \in Workers \ {w} : wpc[u] = "idle"
     THEN ms_conf_' = Inserted(wpc[w], <<>>) /\ UNCHANGED pc
     ELSE pc' = "undefined" /\ UNCHANGED ms_conf_
  /\ wpc' = [wpc EXCEPT ![w] = "idle"]
  /\ UNCHANGED <<file, member, i, j, ms_lists_, key_>>

LoadStep == Open \/ StartModel \/ ParseAddress \/ NextPart \/ InsertModel \/ Loaded

LookupStep == \E w \in Workers : (\E k \in LookedUp : StartInsert(w, k)) \/ EndInsert(w)

ConfNext == LoadStep \/ LookupStep

ConfSpec == ConfInit /\ [][ConfNext]_confVars

-----------------------------------------------------------------------------
(* Properties.                                                             *)

Lists == Seq(Seq(Addresses))

\* Type invariant, a part of Program's.
ConfTypeOK ==
  /\ pc \in {"open", "member", "parse", "loaded", "refused", "aborted", "undefined"}
  /\ file \in Files
  /\ member \in 0..Len(file.members)
  /\ i \in Nat /\ j \in Nat
  /\ ms_lists_ \in Lists
  /\ DOMAIN ms_conf_ \subseteq Keys \cup {NoKey}
  /\ \A k \in DOMAIN ms_conf_ : ms_conf_[k] \in Lists
  /\ key_ \in Keys \cup {NoKey}
  /\ wpc \in [Workers -> Keys \cup {NoKey, "idle"}]

\* Whatever file was accepted, each partition the workers can ask for has a
\* server: `msHost[count % msHost.size()]` (tgp_postman.cc:238) never divides by
\* zero.  This is what ServerChoice assumes of ConfLists.
NoEmptyPartition ==
  pc = "loaded" =>
    \A k \in DOMAIN ms_conf_ : \A p \in 1..Len(ms_conf_[k]) : ms_conf_[k][p] # <<>>

\* An empty partition before one with addresses.
Gap(value) ==
  \E p, q \in 1..Len(value.parts) :
    p < q /\ value.parts[p].items = <<>> /\ value.parts[q].items # <<>>

\* A file whose models have no such gap is parsed without touching anything
\* past the end of a vector.
DefinedWithoutGap ==
  pc = "undefined" =>
    \/ \E m \in 1..Len(file.members) : Gap(file.members[m].value)
    \/ file.members = <<>>

\* What was loaded is what the file says: under each key the partitions of the
\* first model of that name, as far as the last one that has an address; the
\* default is the first model of the file.
ListsOfFile ==
  LET first(k) == CHOOSE m \in 1..Len(file.members) :
                    /\ file.members[m].key = k
                    /\ \A n \in 1..(m - 1) : file.members[n].key # k
  IN pc = "loaded" /\ file.members # <<>> =>
       /\ key_ = file.members[1].key
       /\ DOMAIN ms_conf_ = {file.members[m].key : m \in 1..Len(file.members)}
       /\ \A k \in DOMAIN ms_conf_ :
            LET parts == file.members[first(k)].value.parts
                n     == Len(ms_conf_[k])
            IN /\ n <= Len(parts)
               /\ \A p \in 1..n : ms_conf_[k][p] = parts[p].items
               /\ \A p \in (n + 1)..Len(parts) : parts[p].items = <<>>

\* The workers share the map without a lock.  That is safe because their lookups
\* only read it, when the file has any model at all.
LookupsOnlyRead ==
  file.members # <<>> => \A w \in Workers : wpc[w] = "idle"

=============================================================================
