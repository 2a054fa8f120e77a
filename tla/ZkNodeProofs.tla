---------------------------- MODULE ZkNodeProofs ----------------------------
(* Proofs about ZkNode, for any number of threads and any data.            *)
EXTENDS ZkNode, TLAPS

-----------------------------------------------------------------------------
(* The inductive invariant.                                                *)

Creates == {"create_node", "create_node_with_value"}

\* Only the holder of mtx_ is inside an operation.
Locked == \A t \in Threads : pc[t] # "idle" <=> mtx_ = t

\* Which operation a call belongs to.
Stages ==
  \A t \in Threads :
    /\ pc[t] # "idle" => op[t] \in Ops
    /\ pc[t] = "exists" => op[t].kind = "check_path_exist"
    /\ pc[t] = "get" => op[t].kind = "get_node_value"
    /\ pc[t] = "create" => op[t].kind \in Creates
    /\ pc[t] = "set" => op[t].kind \in {"set_node_value", "create_node_with_value"}
    /\ pc[t] = "unset" => op[t].kind = "create_node_with_value"

\* A creation that goes on with the value has seen the znode, and when nobody
\* disturbed it, it knows what the znode is.
Known ==
  \A t \in Threads :
    /\ pc[t] = "idle" => had[t] = {}
    /\ pc[t] \in {"set", "unset"} /\ op[t].kind = "create_node_with_value" => had[t] # {Absent}
    /\ pc[t] = "unset" => ~clean[t]
    /\ pc[t] = "create" /\ clean[t] => had[t] = {node}
    /\ pc[t] = "set" /\ clean[t] /\ Absent \in had[t] /\ op[t].kind = "create_node_with_value"
         => node = Made(op[t])

ZInv == TypeOK /\ Locked /\ Stages /\ Known

-----------------------------------------------------------------------------
LEMMA MadeIsThere ==
  ASSUME NEW o \in Ops
  PROVE  Made(o) \in Node /\ Made(o) # Absent /\ Made(o).value = o.value
BY NodeAssumption DEF Made, Node, Ops, Absent

LEMMA ZInvInit == Init => ZInv
<1> SUFFICES ASSUME Init PROVE ZInv
  OBVIOUS
<1>1. TypeOK
  BY DEF Init, TypeOK, Node
<1>2. Locked /\ Stages /\ Known
  BY NodeAssumption DEF Init, Locked, Stages, Known
<1> QED BY <1>1, <1>2 DEF ZInv

\* A return leaves the thread idle and the mutex free.
LEMMA ReturnKeeps ==
  ASSUME ZInv, NEW t \in Threads, pc[t] # "idle", node' \in Node, handle' = handle,
         NEW r \in {"true", "false"} \cup {Text[v] : v \in Values}, Return(t, r)
  PROVE  ZInv'
<1> USE DEF ZInv
<1>1. /\ pc' = [pc EXCEPT ![t] = "idle"] /\ op' = [op EXCEPT ![t] = NoOp]
      /\ result' = [result EXCEPT ![t] = r] /\ clean' = [clean EXCEPT ![t] = TRUE]
      /\ mtx_' = Nobody
      /\ had' = [u \in Threads |-> IF pc'[u] = "idle" THEN {} ELSE had[u] \cup {node'}]
  BY DEF Return, Remember
<1>2. \A u \in Threads : pc'[u] = "idle"
  BY <1>1 DEF Locked, TypeOK
<1>3. TypeOK'
  BY <1>1, <1>2 DEF TypeOK
<1>4. Locked'
  BY <1>1, <1>2, NodeAssumption DEF Locked
<1>5. Stages' /\ Known'
  BY <1>1, <1>2 DEF Stages, Known
<1> QED BY <1>3, <1>4, <1>5

\* Others change the znode under the operation.
LEMMA DisturbedKeeps ==
  ASSUME ZInv, NEW n \in Node, Disturbed(n), handle' \in {"null", "live", "dead"}
  PROVE  ZInv'
<1> USE DEF ZInv
<1>1. /\ node' = n /\ UNCHANGED <<mtx_, pc, op, result>>
      /\ clean' = [t \in Threads |-> pc[t] = "idle"]
      /\ had' = [u \in Threads |-> IF pc'[u] = "idle" THEN {} ELSE had[u] \cup {n}]
  BY DEF Disturbed, Remember
<1>2. TypeOK'
  BY <1>1 DEF TypeOK
<1>3. Locked' /\ Stages'
  BY <1>1 DEF Locked, Stages
<1>4. Known'
  <2>1. ASSUME NEW t \in Threads, pc[t] \in {"set", "unset"}, had[t] # {Absent}
        PROVE  had'[t] # {Absent}
    BY <1>1, <2>1 DEF TypeOK
  <2>2. \A t \in Threads : pc[t] # "idle" => ~clean'[t]
    BY <1>1
  <2> QED BY <1>1, <2>1, <2>2 DEF Known
<1> QED BY <1>2, <1>3, <1>4

LEMMA BeginKeeps ==
  ASSUME ZInv, NEW t \in Threads, NEW o \in Ops, Begin(t, o)
  PROVE  ZInv'
<1> USE DEF ZInv
<1>1. /\ pc[t] = "idle" /\ mtx_ = Nobody /\ UNCHANGED <<handle, node, clean>>
      /\ had' = [u \in Threads |-> IF pc'[u] = "idle" THEN {} ELSE had[u] \cup {node'}]
  BY DEF Begin, Free, Remember
<1>2. \A u \in Threads : pc[u] = "idle"
  BY <1>1, NodeAssumption DEF Locked
<1>3. CASE handle = "null"
  <2>1. result' = [result EXCEPT ![t] = "false"] /\ UNCHANGED <<mtx_, pc, op>>
    BY <1>3 DEF Begin
  <2>2. TypeOK'
    BY <1>1, <1>2, <2>1 DEF TypeOK
  <2>3. Locked' /\ Stages' /\ Known'
    BY <1>1, <1>2, <2>1 DEF Locked, Stages, Known
  <2> QED BY <2>2, <2>3
<1>4. CASE handle # "null"
  <2>1. /\ mtx_' = t /\ pc' = [pc EXCEPT ![t] = FirstCall(o.kind)]
        /\ op' = [op EXCEPT ![t] = o] /\ UNCHANGED result
    BY <1>4 DEF Begin
  <2>2. /\ o.kind = "check_path_exist" => FirstCall(o.kind) = "exists"
        /\ o.kind = "get_node_value" => FirstCall(o.kind) = "get"
        /\ o.kind = "set_node_value" => FirstCall(o.kind) = "set"
        /\ o.kind \in Creates => FirstCall(o.kind) = "create"
        /\ o.kind \in {"check_path_exist", "get_node_value", "set_node_value"} \cup Creates
    BY DEF FirstCall, Ops, Creates
  <2>3. TypeOK'
    BY <1>1, <1>2, <2>1, <2>2 DEF TypeOK
  <2>4. Locked' /\ Stages'
    BY <1>1, <1>2, <2>1, <2>2, NodeAssumption DEF Locked, Stages, TypeOK, Creates
  <2>5. Known'
    BY <1>1, <1>2, <2>1, <2>2 DEF Known, TypeOK, Creates
  <2> QED BY <2>3, <2>4, <2>5
<1> QED BY <1>3, <1>4

LEMMA CallCreateKeeps ==
  ASSUME ZInv, NEW t \in Threads, CallCreate(t)
  PROVE  ZInv'
<1> USE DEF ZInv
<1>1. pc[t] = "create" /\ handle' = handle /\ op[t] \in Ops /\ op[t].kind \in Creates
  BY DEF CallCreate, Stages
<1>2. PICK reply \in CreateReplies(op[t]) :
        /\ node' = reply.node
        /\ IF reply.rc \in Accepted
           THEN IF op[t].kind = "create_node" THEN Return(t, "true")
                ELSE GoOn(t, "set") /\ UNCHANGED clean
           ELSE Return(t, "false")
  BY DEF CallCreate
<1>3. node' \in Node
  BY <1>1, <1>2, MadeIsThere DEF CreateReplies, TypeOK
<1>4. CASE Return(t, "true") \/ Return(t, "false")
  BY <1>1, <1>3, <1>4, ReturnKeeps
<1>5. CASE reply.rc \in Accepted /\ op[t].kind # "create_node"
  <2>1. /\ pc' = [pc EXCEPT ![t] = "set"] /\ UNCHANGED <<mtx_, op, result, clean>>
        /\ had' = [u \in Threads |-> IF pc'[u] = "idle" THEN {} ELSE had[u] \cup {node'}]
    BY <1>2, <1>5 DEF GoOn, Remember
  <2>2. \A u \in Threads : u # t => pc[u] = "idle" /\ pc'[u] = "idle"
    BY <1>1, <2>1 DEF Locked, TypeOK
  <2>3. TypeOK'
    BY <1>1, <1>3, <2>1, <2>2 DEF TypeOK
  <2>4. Locked' /\ Stages'
    BY <1>1, <1>5, <2>1, <2>2 DEF Locked, Stages, Creates, TypeOK
  <2>5. \/ node = Absent /\ node' = Made(op[t])
        \/ node # Absent /\ node' = node
    BY <1>2, <1>5 DEF CreateReplies, Accepted
  <2>6. node' # Absent
    BY <1>1, <2>5, MadeIsThere
  <2>7. clean[t] /\ Absent \in had'[t] => node' = Made(op[t])
    <3>1. clean[t] => had'[t] = {node, node'}
      BY <1>1, <2>1 DEF Known, TypeOK
    <3> QED BY <2>5, <2>6, <3>1
  <2>8. had'[t] # {Absent}
    BY <2>1, <2>6 DEF TypeOK
  <2>9. Known'
    BY <2>1, <2>2, <2>7, <2>8 DEF Known, TypeOK
  <2> QED BY <2>3, <2>4, <2>9
<1> QED BY <1>2, <1>4, <1>5

LEMMA CallSetKeeps ==
  ASSUME ZInv, NEW t \in Threads, CallSet(t)
  PROVE  ZInv'
<1> USE DEF ZInv
<1>1. pc[t] = "set" /\ handle' = handle /\ op[t] \in Ops
  BY DEF CallSet, Stages
<1>2. PICK reply \in SetReplies(op[t]) :
        /\ node' = reply.node
        /\ \/ op[t].kind = "set_node_value" /\ Return(t, SetOf(reply.rc))
           \/ /\ op[t].kind = "create_node_with_value"
              /\ IF SetOf(reply.rc) = "true" THEN Return(t, "true")
                 ELSE GoOn(t, "unset") /\ clean' = [clean EXCEPT ![t] = FALSE]
  BY DEF CallSet
<1>3. node' \in Node
  <2>1. op[t].value \in Values
    BY <1>1, NodeAssumption DEF Ops
  <2>2. node # Absent => [node EXCEPT !.value = op[t].value] \in Node
    BY <2>1 DEF TypeOK, Node
  <2> QED BY <1>2, <2>2 DEF SetReplies, TypeOK
<1>4. CASE Return(t, SetOf(reply.rc)) \/ Return(t, "true")
  BY <1>1, <1>3, <1>4, ReturnKeeps DEF SetOf
<1>5. CASE op[t].kind = "create_node_with_value" /\ GoOn(t, "unset")
           /\ clean' = [clean EXCEPT ![t] = FALSE]
  <2>1. /\ pc' = [pc EXCEPT ![t] = "unset"] /\ UNCHANGED <<mtx_, op, result>>
        /\ had' = [u \in Threads |-> IF pc'[u] = "idle" THEN {} ELSE had[u] \cup {node'}]
    BY <1>5 DEF GoOn, Remember
  <2>2. \A u \in Threads : u # t => pc[u] = "idle" /\ pc'[u] = "idle"
    BY <1>1, <2>1 DEF Locked, TypeOK
  <2>3. TypeOK'
    BY <1>1, <1>3, <1>5, <2>1, <2>2 DEF TypeOK
  <2>4. Locked' /\ Stages'
    BY <1>1, <1>5, <2>1, <2>2 DEF Locked, Stages, TypeOK
  <2>5. had'[t] # {Absent}
    <3>1. had[t] # {Absent} /\ node \in had[t]
      BY <1>1, <1>5 DEF Known, TypeOK
    <3> QED BY <1>1, <2>1, <3>1 DEF TypeOK
  <2>6. Known'
    BY <1>5, <2>1, <2>2, <2>5 DEF Known, TypeOK
  <2> QED BY <2>3, <2>4, <2>6
<1> QED BY <1>2, <1>4, <1>5

LEMMA ZInvNext == ZInv /\ [Next]_vars => ZInv'
<1> SUFFICES ASSUME ZInv, [Next]_vars PROVE ZInv'
  OBVIOUS
<1>1. ASSUME NEW t \in Threads, ReturnUnset(t) \/ CallExists(t) \/ CallGet(t)
      PROVE  ZInv'
  <2>1. /\ pc[t] # "idle" /\ node' = node /\ handle' = handle
        /\ \E r \in {"true", "false"} \cup {Text[v] : v \in Values} : Return(t, r)
    <3>1. "ZOK" \in ReadReplies => node.value \in Values
      BY NodeAssumption DEF ZInv, TypeOK, Node, Absent
    <3> QED BY <1>1, <3>1 DEF ReturnUnset, CallExists, CallGet, GetOf
  <2> QED BY <2>1, ReturnKeeps DEF ZInv, TypeOK
<1>2. CASE OthersWrite
  BY <1>2, DisturbedKeeps DEF OthersWrite, Node, ZInv, TypeOK
<1>3. CASE SessionEnds
  BY <1>3, DisturbedKeeps DEF SessionEnds, Node, ZInv, TypeOK
<1>4. CASE CloseHandle \/ OpenHandle
  <2>1. /\ mtx_ = Nobody /\ handle' \in {"null", "live"} /\ node' \in Node
        /\ UNCHANGED <<mtx_, pc, op, result, clean>>
    <3>1. node.owner = "ours" => [node EXCEPT !.owner = "earlier"] \in Node
      BY DEF ZInv, TypeOK, Node, Absent
    <3> QED BY <1>4, <3>1 DEF CloseHandle, OpenHandle, ZInv, TypeOK, Node
  <2>2. \A u \in Threads : pc[u] = "idle"
    BY <2>1, NodeAssumption DEF ZInv, Locked
  <2>3. had' \in [Threads -> SUBSET Node] /\ \A u \in Threads : had'[u] = {}
    BY <1>4, <2>1, <2>2 DEF CloseHandle, OpenHandle, Remember, ZInv, TypeOK, Known
  <2> QED BY <2>1, <2>2, <2>3 DEF ZInv, TypeOK, Locked, Stages, Known
<1>5. CASE UNCHANGED vars
  BY <1>5 DEF vars, ZInv, TypeOK, Locked, Stages, Known
<1> QED
  BY <1>1, <1>2, <1>3, <1>4, <1>5, BeginKeeps, CallCreateKeeps, CallSetKeeps DEF Next

LEMMA ZInvAlways == Spec => []ZInv
BY ZInvInit, ZInvNext, PTL DEF Spec

-----------------------------------------------------------------------------
(* The four properties of a return: by the call the thread returns from.   *)

\* Every return is by one of these.
LEMMA Returners ==
  ASSUME ZInv, [Next]_vars, NEW t \in Threads, Returns(t)
  PROVE  CallCreate(t) \/ CallSet(t) \/ ReturnUnset(t) \/ CallExists(t) \/ CallGet(t)
<1>1. \A u \in Threads, o \in Ops : Begin(u, o) => pc[t] = "idle"
  BY NodeAssumption DEF Begin, Free, ZInv, Locked
<1>2. \A u \in Threads :
        u # t /\ (CallCreate(u) \/ CallSet(u) \/ ReturnUnset(u) \/ CallExists(u) \/ CallGet(u))
        => pc[t] = "idle"
  BY DEF CallCreate, CallSet, ReturnUnset, CallExists, CallGet, ZInv, Locked
<1>3. OthersWrite \/ SessionEnds \/ CloseHandle \/ OpenHandle \/ UNCHANGED vars => pc' = pc
  BY DEF OthersWrite, SessionEnds, Disturbed, CloseHandle, OpenHandle, vars
<1> QED BY <1>1, <1>2, <1>3 DEF Next, Returns

LEMMA ResultOf ==
  ASSUME ZInv, NEW t \in Threads, NEW r, Return(t, r)
  PROVE  result'[t] = r
BY DEF Return, ZInv, TypeOK

\* Whoever made it: the znode existed when a check or a creation returns true.
THEOREM TrueIsNoInvention == Spec => TrueMeansExisted
<1>1. ASSUME ZInv, [Next]_vars, NEW t \in Threads, Returns(t), result'[t] = "true",
             op[t].kind \in {"check_path_exist", "create_node", "create_node_with_value"}
      PROVE  Seen(t) # {Absent}
  <2> USE <1>1 DEF Seen
  <2>1. CASE CallCreate(t)
    <3>1. PICK reply \in CreateReplies(op[t]) :
            /\ node' = reply.node
            /\ reply.rc \notin Accepted => Return(t, "false")
      BY <2>1 DEF CallCreate
    <3>2. reply.rc \in Accepted
      BY <3>1, ResultOf
    <3>3. op[t] \in Ops
      BY <2>1 DEF CallCreate, ZInv, Stages
    <3>4. node' # Absent
      BY <3>1, <3>2, <3>3, MadeIsThere DEF CreateReplies, Accepted
    <3> QED BY <3>4
  <2>2. CASE CallSet(t) \/ ReturnUnset(t)
    BY <2>2 DEF CallSet, ReturnUnset, ZInv, TypeOK, Stages, Known
  <2>3. CASE CallExists(t)
    <3>1. PICK rc \in ReadReplies : Return(t, IF rc = "ZOK" THEN "true" ELSE "false")
      BY <2>3 DEF CallExists
    <3>2. rc = "ZOK"
      BY <3>1, ResultOf
    <3> QED BY <2>3, <3>2 DEF CallExists, ReadReplies
  <2>4. CASE CallGet(t)
    BY <2>4 DEF CallGet, ZInv, Stages
  <2> QED BY <2>1, <2>2, <2>3, <2>4, Returners
<1>2. ZInv /\ [Next]_vars =>
        [\A t \in Threads :
           /\ Returns(t) /\ result'[t] = "true"
           /\ op[t].kind \in {"check_path_exist", "create_node", "create_node_with_value"}
           => Seen(t) # {Absent}]_vars
  BY <1>1
<1> QED BY <1>2, ZInvAlways, PTL DEF Spec, TrueMeansExisted

\* What set_node_value returns 0 for was written.
THEOREM SetsAreWritten == Spec => SetMeansWritten
<1>1. ASSUME ZInv, [Next]_vars, NEW t \in Threads, Returns(t), result'[t] = "true",
             op[t].kind = "set_node_value"
      PROVE  HadValue(t, op[t].value)
  <2>1. CallSet(t)
    BY <1>1, Returners DEF ZInv, Stages, Creates, CallCreate, ReturnUnset, CallExists, CallGet
  <2>2. PICK reply \in SetReplies(op[t]) : node' = reply.node /\ Return(t, SetOf(reply.rc))
    BY <1>1, <2>1 DEF CallSet
  <2>3. reply.rc = "ZOK"
    BY <1>1, <2>2, ResultOf DEF SetOf
  <2>4. node # Absent /\ node' = [node EXCEPT !.value = op[t].value]
    BY <2>2, <2>3 DEF SetReplies
  <2>5. node' # Absent /\ node'.value = op[t].value
    <3>1. node \in [value : Values, owner : {Nobody, "ours", "earlier"}]
      BY <1>1, <2>4 DEF ZInv, TypeOK, Node
    <3>2. node'.owner # "absent" /\ node'.value = op[t].value
      BY <2>4, <3>1, NodeAssumption
    <3> QED BY <3>2 DEF Absent
  <2> QED BY <2>5 DEF HadValue, Seen
<1>2. ZInv /\ [Next]_vars =>
        [\A t \in Threads :
           Returns(t) /\ result'[t] = "true" /\ op[t].kind = "set_node_value"
           => HadValue(t, op[t].value)]_vars
  BY <1>1
<1> QED BY <1>2, ZInvAlways, PTL DEF Spec, SetMeansWritten

\* What get_node_value delivers was read.
THEOREM GetsAreRead == Spec => GetMeansRead
<1>1. ASSUME ZInv, [Next]_vars, NEW t \in Threads, Returns(t), op[t].kind = "get_node_value",
             result'[t] \notin {"false", Undefined}
      PROVE  \E n \in Seen(t) : n # Absent /\ Text[n.value] = result'[t]
  <2>1. CallGet(t)
    BY <1>1, Returners DEF ZInv, Stages, Creates, CallCreate, CallSet, ReturnUnset, CallExists
  <2>2. PICK rc \in ReadReplies : Return(t, GetOf(rc))
    BY <2>1 DEF CallGet
  <2>3. rc = "ZOK" /\ result'[t] = Text[node.value]
    BY <1>1, <2>2, ResultOf DEF GetOf
  <2>4. node # Absent /\ node' = node
    BY <2>1, <2>3 DEF CallGet, ReadReplies
  <2> QED BY <2>3, <2>4 DEF Seen
<1>2. ZInv /\ [Next]_vars =>
        [\A t \in Threads :
           Returns(t) /\ op[t].kind = "get_node_value" /\ result'[t] \notin {"false", Undefined}
           => \E n \in Seen(t) : n # Absent /\ Text[n.value] = result'[t]]_vars
  BY <1>1
<1> QED BY <1>2, ZInvAlways, PTL DEF Spec, GetMeansRead

\* Left alone by other clients and by failures, an operation leaves the znode as
\* it was asked to: no thread of the program comes between its two calls.
THEOREM UndisturbedIsExact == Spec => ExactWhenUndisturbed
<1>1. ASSUME ZInv, [Next]_vars, NEW t \in Threads, Returns(t), result'[t] = "true", clean[t]
      PROVE  /\ op[t].kind \in {"set_node_value", "create_node_with_value"}
                  => node' # Absent /\ node'.value = op[t].value
             /\ Absent \in had[t] /\ op[t].kind \in {"create_node", "create_node_with_value"}
                  => node' = Made(op[t])
  <2>0. op[t] \in Ops
    BY <1>1 DEF Returns, ZInv, Stages
  <2>1. CASE CallCreate(t)
    <3>1. PICK reply \in CreateReplies(op[t]) :
            /\ node' = reply.node
            /\ reply.rc \notin Accepted => Return(t, "false")
            /\ reply.rc \in Accepted /\ op[t].kind # "create_node" => GoOn(t, "set")
      BY <2>1 DEF CallCreate
    <3>2. reply.rc \in Accepted
      BY <1>1, <3>1, ResultOf
    <3>3. op[t].kind = "create_node"
      BY <1>1, <3>1, <3>2 DEF GoOn, Returns, ZInv, TypeOK
    <3>4. Absent \in had[t] => node = Absent
      BY <1>1, <2>1 DEF CallCreate, ZInv, Known
    <3> QED BY <3>1, <3>2, <3>3, <3>4 DEF CreateReplies, Accepted
  <2>2. CASE CallSet(t)
    <3>1. PICK reply \in SetReplies(op[t]) :
            /\ node' = reply.node
            /\ \/ op[t].kind = "set_node_value" /\ Return(t, SetOf(reply.rc))
               \/ /\ op[t].kind = "create_node_with_value"
                  /\ SetOf(reply.rc) = "true" \/ GoOn(t, "unset")
      BY <2>2 DEF CallSet
    <3>2. reply.rc = "ZOK"
      BY <1>1, <3>1, ResultOf DEF SetOf, GoOn, Returns, ZInv, TypeOK
    <3>3. node # Absent /\ node' = [node EXCEPT !.value = op[t].value]
      BY <3>1, <3>2 DEF SetReplies
    <3>4. node \in [value : Values, owner : {Nobody, "ours", "earlier"}]
      BY <1>1, <3>3 DEF ZInv, TypeOK, Node
    <3>5. node' # Absent /\ node'.value = op[t].value
      <4>1. node'.owner # "absent" /\ node'.value = op[t].value
        BY <3>3, <3>4, NodeAssumption
      <4> QED BY <4>1 DEF Absent
    <3>6. Absent \in had[t] /\ op[t].kind = "create_node_with_value" => node = Made(op[t])
      BY <1>1, <2>2 DEF CallSet, ZInv, Known
    <3>7. node = Made(op[t]) => node' = Made(op[t])
      BY <3>3 DEF Made
    <3> QED BY <1>1, <2>2, <3>5, <3>6, <3>7 DEF CallSet, ZInv, Stages
  <2>3. CASE ReturnUnset(t)
    BY <1>1, <2>3 DEF ReturnUnset, ZInv, Known
  <2>4. CASE CallExists(t) \/ CallGet(t)
    BY <1>1, <2>4 DEF CallExists, CallGet, ZInv, Stages
  <2> QED BY <1>1, <2>1, <2>2, <2>3, <2>4, Returners
<1>2. ZInv /\ [Next]_vars =>
        [\A t \in Threads :
           Returns(t) /\ result'[t] = "true" /\ clean[t]
           => /\ op[t].kind \in {"set_node_value", "create_node_with_value"}
                   => node' # Absent /\ node'.value = op[t].value
              /\ Absent \in had[t] /\ op[t].kind \in {"create_node", "create_node_with_value"}
                   => node' = Made(op[t])]_vars
  BY <1>1
<1> QED BY <1>2, ZInvAlways, PTL DEF Spec, ExactWhenUndisturbed

\* Every variable keeps its type.
THEOREM NodeTypeCorrect == Spec => []TypeOK
<1>1. ZInv => TypeOK
  BY DEF ZInv
<1> QED BY <1>1, ZInvAlways, PTL

=============================================================================
