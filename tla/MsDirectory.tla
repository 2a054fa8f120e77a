----------------------------- MODULE MsDirectory -----------------------------
(***************************************************************************)
(* What TGPClusterAdmin promises to the requests: a list of model servers  *)
(* that always is the list of addresses of one view the znode really had,  *)
(* and that never becomes empty again once it has been filled.             *)
(***************************************************************************)
EXTENDS Naturals, Sequences

CONSTANTS
  Addresses,   \* names of children that are addresses (contain ':')
  Views,       \* views the znode may have
  NoNode       \* the view of a znode that does not exist

VARIABLES
  history,     \* the views the znode has had
  list         \* index of the view the list was taken from, 0 = never filled

dirVars == <<history, list>>

Servers(i) == IF history[i] = NoNode THEN {} ELSE history[i] \cap Addresses

DirInit ==
  /\ history \in {<<v>> : v \in Views \cup {NoNode}}
  /\ list = 0

DirPublish ==
  /\ \E v \in Views \cup {NoNode} : history' = Append(history, v)
  /\ UNCHANGED list

\* Mutant of DirInstall: the list may be emptied.
DirInstallAny ==
  /\ list' \in 1..Len(history)
  /\ UNCHANGED history

DirInstall ==
  /\ \E i \in 1..Len(history) : Servers(i) # {} /\ list' = i
  /\ UNCHANGED history

DirNext == DirPublish \/ DirInstall

DirSpec == DirInit /\ [][DirNext]_dirVars

=============================================================================
