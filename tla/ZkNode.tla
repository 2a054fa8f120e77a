------------------------------- MODULE ZkNode -------------------------------
(***************************************************************************)
(* The operations of the ZK wrapper on one znode: check_path_exist,        *)
(* create_node, create_node_with_value, set_node_value, get_node_value and *)
(* the variants with a watcher, which differ in the watcher they hand to   *)
(* the library.  Other clients write the same znode, sessions end, and the *)
(* answer to a call may be lost although the ensemble has applied it.      *)
(*                                                                         *)
(* An operation holds mtx_ from its first line to its return; what happens *)
(* in between is the calls of the library, one action each.                *)
(***************************************************************************)
EXTENDS Naturals

CONSTANTS
  Threads,
  Nobody,     \* no thread, no session
  Values,     \* the data a znode may hold
  Empty,      \* no data
  Text,       \* what `*value = buffer` makes of the data: up to a zero byte
  Undefined   \* the text of 1024 bytes or more, which leave no zero in buffer

ASSUME NodeAssumption ==
  /\ Nobody \notin Threads \cup {"ours", "earlier", "absent"}
  /\ Empty \in Values
  /\ Text \in [Values -> Values \cup {Undefined}]
  /\ {"none", "true", "false"} \cap (Values \cup {Undefined}) = {}

VARIABLES
  handle,   \* zzh_: null, of a live session, or of one that ended
  node,     \* the znode: absent, or data and the session it lives with
  mtx_,     \* who holds it
  pc,       \* the library call a thread is at, or idle
  op,       \* the operation and its arguments
  result,   \* what the last operation returned
  had,      \* auxiliary: what the znode was during the operation
  clean     \* auxiliary: nobody else wrote it and no call failed

vars == <<handle, node, mtx_, pc, op, result, had, clean>>

Absent == [value |-> Empty, owner |-> "absent"]

\* "ours" is the session of the handle, "earlier" one that was closed but that
\* the ensemble has not noticed yet.
Node ==
  {Absent} \cup [value : Values, owner : {Nobody, "ours", "earlier"}]

NoOp == [kind |-> "none", value |-> Empty, is_temporary |-> FALSE]

Ops ==
  [kind : {"check_path_exist", "get_node_value"}, value : {Empty}, is_temporary : {FALSE}]
  \cup [kind : {"create_node"}, value : {Empty}, is_temporary : BOOLEAN]
  \cup [kind : {"create_node_with_value"}, value : Values, is_temporary : BOOLEAN]
  \cup [kind : {"set_node_value"}, value : Values, is_temporary : {FALSE}]

Init ==
  /\ handle \in {"null", "live"}
  /\ node = Absent
  /\ mtx_ = Nobody
  /\ pc = [t \in Threads |-> "idle"]
  /\ op = [t \in Threads |-> NoOp]
  /\ result = [t \in Threads |-> "none"]
  /\ had = [t \in Threads |-> {}]
  /\ clean = [t \in Threads |-> TRUE]

-----------------------------------------------------------------------------
FirstCall(kind) ==
  CASE kind = "check_path_exist" -> "exists"
    [] kind = "get_node_value"   -> "get"
    [] kind = "set_node_value"   -> "set"
    [] OTHER                     -> "create"

\* Auxiliary: what the znode is now belongs to every operation under way.
Remember ==
  had' = [t \in Threads |-> IF pc'[t] = "idle" THEN {} ELSE had[t] \cup {node'}]

\* Mutant of Free: the operation takes no lock.
FreeAlways == TRUE

Free == mtx_ = Nobody

Begin(t, o) ==
  /\ pc[t] = "idle"
  /\ Free
  /\ IF handle = "null"
     THEN /\ result' = [result EXCEPT ![t] = "false"]
          /\ UNCHANGED <<mtx_, pc, op, clean>>
     ELSE /\ mtx_' = t
          /\ pc' = [pc EXCEPT ![t] = FirstCall(o.kind)]
          /\ op' = [op EXCEPT ![t] = o]
          /\ UNCHANGED <<result, clean>>
  /\ UNCHANGED <<handle, node>>
  /\ Remember

\* Every return gives the mutex back.
Return(t, r) ==
  /\ pc' = [pc EXCEPT ![t] = "idle"]
  /\ op' = [op EXCEPT ![t] = NoOp]
  /\ result' = [result EXCEPT ![t] = r]
  /\ clean' = [clean EXCEPT ![t] = TRUE]
  /\ mtx_' = Nobody
  /\ Remember

\* The operation goes on with another call.
GoOn(t, call) ==
  /\ pc' = [pc EXCEPT ![t] = call]
  /\ UNCHANGED <<mtx_, op, result>>
  /\ Remember

-----------------------------------------------------------------------------
(* The library's answers.  A call on a session that ended fails; any call  *)
(* may fail, and one that writes may have written all the same.            *)

Made(o) == [value |-> o.value, owner |-> IF o.is_temporary THEN "ours" ELSE Nobody]

\* zoo_create
CreateReplies(o) ==
  [rc : {"failed"}, node : {node}]
  \cup (IF handle # "live"    THEN {}
        ELSE IF node = Absent THEN [rc : {"ZOK", "failed"}, node : {Made(o)}]
        ELSE                       [rc : {"ZNODEEXISTS"}, node : {node}])

\* zoo_set, with version -1
SetReplies(o) ==
  [rc : {"failed"}, node : {node}]
  \cup (IF handle # "live" \/ node = Absent THEN {}
        ELSE [rc : {"ZOK", "failed"}, node : {[node EXCEPT !.value = o.value]}])

\* zoo_exists, zoo_get
ReadReplies ==
  {"failed"} \cup (IF handle = "live" /\ node # Absent THEN {"ZOK"} ELSE {})

\* Mutant of Accepted: a failed creation is taken for one of an existing node.
AcceptedAny == {"ZOK", "ZNODEEXISTS", "failed"}

\* The codes create_node and create_node_with_value go on with.
Accepted == {"ZOK", "ZNODEEXISTS"}

CallCreate(t) ==
  /\ pc[t] = "create"
  /\ \E reply \in CreateReplies(op[t]) :
       /\ node' = reply.node
       /\ IF reply.rc \in Accepted
          THEN IF op[t].kind = "create_node"
               THEN Return(t, "true")
               ELSE GoOn(t, "set") /\ UNCHANGED clean
          ELSE Return(t, "false")
  /\ UNCHANGED handle

\* Mutant of SetOf: set_node_value does not look at the code.
SetOfAny(rc) == "true"

\* set_node_value's result.
SetOf(rc) == IF rc = "ZOK" THEN "true" ELSE "false"

\* create_node_with_value does not return when the value could not be set: it
\* logs that the node was created and returns true.
CallSet(t) ==
  /\ pc[t] = "set"
  /\ \E reply \in SetReplies(op[t]) :
       /\ node' = reply.node
       /\ \/ op[t].kind = "set_node_value" /\ Return(t, SetOf(reply.rc))
          \/ /\ op[t].kind = "create_node_with_value"
             /\ IF SetOf(reply.rc) = "true"
                THEN Return(t, "true")
                ELSE /\ GoOn(t, "unset")
                     /\ clean' = [clean EXCEPT ![t] = FALSE]
  /\ UNCHANGED handle

ReturnUnset(t) ==
  /\ pc[t] = "unset"
  /\ UNCHANGED <<handle, node>>
  /\ Return(t, "true")

CallExists(t) ==
  /\ pc[t] = "exists"
  /\ UNCHANGED <<handle, node>>
  /\ \E rc \in ReadReplies : Return(t, IF rc = "ZOK" THEN "true" ELSE "false")

\* Mutant of GetOf: the buffer is used whatever the code says.
GetOfAny(rc) == Text[node.value]

\* get_node_value's text, if the code allows it.
GetOf(rc) == IF rc = "ZOK" THEN Text[node.value] ELSE "false"

CallGet(t) ==
  /\ pc[t] = "get"
  /\ UNCHANGED <<handle, node>>
  /\ \E rc \in ReadReplies : Return(t, GetOf(rc))

-----------------------------------------------------------------------------
(* Everybody else.                                                         *)

\* The znode changes under the operations.
Disturbed(n) ==
  /\ node' = n
  /\ clean' = [t \in Threads |-> pc[t] = "idle"]
  /\ UNCHANGED <<mtx_, pc, op, result>>
  /\ Remember

OthersWrite ==
  /\ \E n \in {Absent} \cup [value : Values, owner : {Nobody}] : n # node /\ Disturbed(n)
  /\ UNCHANGED handle

\* The ensemble ends the session of the handle, or an earlier one.
SessionEnds ==
  \/ /\ handle = "live" /\ handle' = "dead"
     /\ Disturbed(IF node.owner = "ours" THEN Absent ELSE node)
  \/ /\ node.owner = "earlier"
     /\ Disturbed(Absent)
     /\ UNCHANGED handle

\* finalize_zk or start_zk in some thread; the ensemble may not notice the
\* close at once.
CloseHandle ==
  /\ mtx_ = Nobody
  /\ handle # "null"
  /\ handle' = "null"
  /\ IF node.owner = "ours"
     THEN node' \in {Absent, [node EXCEPT !.owner = "earlier"]}
     ELSE UNCHANGED node
  /\ UNCHANGED <<mtx_, pc, op, result, clean>>
  /\ Remember

OpenHandle ==
  /\ mtx_ = Nobody
  /\ handle = "null"
  /\ handle' = "live"
  /\ UNCHANGED <<node, mtx_, pc, op, result, had, clean>>

Next ==
  \/ \E t \in Threads :
       \/ \E o \in Ops : Begin(t, o)
       \/ CallCreate(t) \/ CallSet(t) \/ ReturnUnset(t) \/ CallExists(t) \/ CallGet(t)
  \/ OthersWrite \/ SessionEnds \/ CloseHandle \/ OpenHandle

Spec == Init /\ [][Next]_vars

-----------------------------------------------------------------------------
(* Properties.                                                             *)

\* Type invariant; the znode of an operation under way is in its history.
TypeOK ==
  /\ handle \in {"null", "live", "dead"}
  /\ node \in Node
  /\ mtx_ \in Threads \cup {Nobody}
  /\ pc \in [Threads -> {"idle", "create", "set", "unset", "exists", "get"}]
  /\ op \in [Threads -> Ops \cup {NoOp}]
  /\ result \in [Threads -> {"none", "true", "false"} \cup {Text[v] : v \in Values}]
  /\ had \in [Threads -> SUBSET Node]
  /\ clean \in [Threads -> BOOLEAN]
  /\ \A t \in Threads : pc[t] # "idle" => node \in had[t]

Returns(t) == pc[t] # "idle" /\ pc'[t] = "idle"

\* What the znode was at some time from the start to the return of t's operation.
Seen(t) == had[t] \cup {node'}

HadValue(t, v) == \E n \in Seen(t) : n # Absent /\ n.value = v

\* A check or a creation that returns true is no invention: the znode existed
\* at some time during the call, whoever created it.
TrueMeansExisted ==
  [][\A t \in Threads :
       /\ Returns(t) /\ result'[t] = "true"
       /\ op[t].kind \in {"check_path_exist", "create_node", "create_node_with_value"}
       => Seen(t) # {Absent}]_vars

\* When set_node_value returns 0 the znode held the value during the call.
SetMeansWritten ==
  [][\A t \in Threads :
       Returns(t) /\ result'[t] = "true" /\ op[t].kind = "set_node_value"
       => HadValue(t, op[t].value)]_vars

\* What get_node_value delivers is the text of data the znode held during the
\* call, unless that has no end.
GetMeansRead ==
  [][\A t \in Threads :
       Returns(t) /\ op[t].kind = "get_node_value" /\ result'[t] \notin {"false", Undefined}
       => \E n \in Seen(t) : n # Absent /\ Text[n.value] = result'[t]]_vars

\* No thread of the program comes between the two calls of a creation: when no
\* other client wrote and no call failed, the znode is left with the value that
\* was asked for and, if it is new, lives as long as was asked for.
ExactWhenUndisturbed ==
  [][\A t \in Threads :
       Returns(t) /\ result'[t] = "true" /\ clean[t]
       => /\ op[t].kind \in {"set_node_value", "create_node_with_value"}
               => node' # Absent /\ node'.value = op[t].value
          /\ Absent \in had[t] /\ op[t].kind \in {"create_node", "create_node_with_value"}
               => node' = Made(op[t])]_vars

\* create_node_with_value returns true when the node "is created successfully"
\* (tgp_zookeeper.cc:220): with the value.
CreatedWithValue ==
  [][\A t \in Threads :
       Returns(t) /\ result'[t] = "true" /\ op[t].kind = "create_node_with_value"
       => HadValue(t, op[t].value)]_vars

=============================================================================
