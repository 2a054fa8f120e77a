---------------------------- MODULE PostmanProofs ----------------------------
(***************************************************************************)
(* Proofs about Postman, for every number of partitions, every request and *)
(* every behaviour of the model servers.  The loop invariant of the slicer *)
(* (RangeSlicerProofs) is part of the invariant.                           *)
(***************************************************************************)
EXTENDS Postman, RangeSlicerProofs

Weight == Key \cup {NotKey}
Kinds  == Answers \cup {"weights", "empty"}
Bodies == [kind : Kinds, list : Seq(Weight)]

Typing ==
  /\ SlicerInv
  /\ pc \in {"check", "slice", "register", "loop", "answer"} \cup Final
  /\ request \in Requests
  /\ partition \in 0..RangeCount
  /\ transfer \in [Parts -> {"none", "running", "refused", "done", "called"}]
  /\ loop \in {"before", "running", "over"}
  /\ arrived \in [Parts -> Bodies]
  /\ weights_ \in [Parts -> Bodies]
  /\ reply \in Seq(Weight)

\* The features are cut up before anything is sent, and transfers start only for
\* the partitions the loop has passed.
Staged ==
  /\ pc = "check" => keys = <<>> /\ SlicerInit
  /\ pc \in {"slice", "register", "loop", "answer", "ok"} => keys = request.items
  /\ pc \in {"register", "loop", "answer", "ok"} => stage = "sliced"
  /\ pc \in {"check", "slice"} => \A p \in Parts : transfer[p] = "none"
  /\ pc = "register" => \A p \in Parts : p >= partition => transfer[p] = "none"
  /\ pc = "loop" => partition = 0
  /\ pc \in {"check", "slice", "register", "loop"} => reply = <<>>

\* Every transfer libcurl took has called back before the answers are read: none
\* of them still holds a pointer to the Postman, which lives on the stack of
\* tgpExpress.
NoneInFlight ==
  pc \in {"answer"} \cup Final =>
    \A p \in Parts : transfer[p] \in {"none", "refused", "called"}

\* What arrived is an answer about the keys of the slice.
Brought ==
  \A p \in Parts : arrived[p] # NoBody =>
    /\ transfer[p] \in {"done", "called"}
    /\ \E kind \in Answers : arrived[p] = BodyFor(slices[p], kind)

\* What is saved for a partition is what its own transfer brought.
Saved ==
  \A p \in Parts : weights_[p] # NoBody =>
    weights_[p] = arrived[p] /\ transfer[p] = "called"

\* The answers decoded so far.
Decoded ==
  /\ pc = "answer" => \A p \in Parts : p < partition /\ slices[p] # <<>> => Decodes(weights_[p])
  /\ pc = "ok" => \A p \in Parts : slices[p] # <<>> => Decodes(weights_[p])

\* Every server below partition n answered with as many weights as asked for.
ExactBelow(n) == \A q \in Parts : q < n => Len(arrived[q].list) = Len(slices[q])

\* The weights put together so far, of the partitions below n, are where they
\* belong as far as the answers were exact.
Aligned(n) ==
  /\ \A p \in 0..n : ExactBelow(p) =>
       pos[p] <= Len(reply) /\ \A j \in 1..pos[p] : reply[j] = keys[j]
  /\ ExactBelow(n) => Len(reply) = pos[n]

Put ==
  /\ pc = "answer" => Aligned(partition)
  /\ pc = "ok" => Aligned(RangeCount)

PInv ==
  Typing /\ Staged /\ NoneInFlight /\ Brought /\ Saved /\ Decoded /\ Put

-----------------------------------------------------------------------------
LEMMA NoBodyType == NoBody \in Bodies
  BY DEF NoBody, Body, Bodies, Kinds

\* What a server answers about some keys, and when it has as many weights.
LEMMA BodyForType ==
  ASSUME NEW s \in Seq(Key), NEW kind \in Answers
  PROVE  /\ BodyFor(s, kind) \in Bodies
         /\ Decodes(BodyFor(s, kind)) /\ Len(BodyFor(s, kind).list) = Len(s)
              => BodyFor(s, kind).list = s
<1>1. SubSeq(s, 1, Len(s) - 1) \in Seq(Weight)
  <2>1. Len(s) \in Nat /\ \A j \in 1..(Len(s) - 1) : s[j] \in Weight
    BY DEF Weight
  <2> QED
    BY <2>1
<1>2. <<>> \in Seq(Weight) /\ s \in Seq(Weight) /\ Append(s, NotKey) \in Seq(Weight)
  BY DEF Weight
<1>3. BodyFor(s, kind) \in Bodies
  BY <1>1, <1>2 DEF BodyFor, Body, Bodies, Kinds
<1>4. Len(Append(s, NotKey)) = Len(s) + 1 /\ Len(s) \in Nat
  OBVIOUS
<1>5. Len(SubSeq(s, 1, Len(s) - 1)) = Len(s) => s = <<>> /\ SubSeq(s, 1, Len(s) - 1) = <<>>
  BY <1>4
<1>6. kind \notin {"whole", "short", "long"} => BodyFor(s, kind).kind # "weights"
  <2>1. kind # "weights"
    BY PostmanAssumption
  <2> QED
    BY <2>1 DEF BodyFor, Body
<1>7. CASE kind = "whole"
  BY <1>3, <1>7 DEF BodyFor, Body
<1>8. CASE kind = "short"
  BY <1>3, <1>5, <1>8 DEF BodyFor, Body
<1>9. CASE kind = "long"
  BY <1>3, <1>4, <1>9 DEF BodyFor, Body
<1> QED
  BY <1>3, <1>6, <1>7, <1>8, <1>9 DEF Decodes

\* The invariant of the slicer, for the state after a step.
LEMMA SlicerInitInvNext == (keys \in Seq(Key) /\ SlicerInit => SlicerInv)'
<1>1. keys \in Seq(Key) /\ SlicerInit => SlicerInv
  BY SlicerInitInv
<1> QED
  BY <1>1, PTL

LEMMA SlicerUnchanged ==
  ASSUME SlicerInv, UNCHANGED slicerVars
  PROVE  SlicerInv'
  BY SlicerStepInv

\* Before anything ended nothing has arrived, and nothing is saved.
LEMMA NothingBrought ==
  ASSUME PInv, NEW p \in Parts, transfer[p] \notin {"done", "called"}
  PROVE  arrived[p] = NoBody /\ weights_[p] = NoBody
  BY DEF PInv, Brought, Saved

LEMMA PInvInit == Init => PInv
<1> SUFFICES ASSUME Init PROVE PInv
  OBVIOUS
<1>1. SlicerInv
  BY SlicerInitInv DEF Init
<1>2. Typing
  BY <1>1, NoBodyType, SlicerAssumption DEF Init, Hub!Init, Typing, Final, Replied
<1> QED
  BY <1>2 DEF Init, Hub!Init, PInv, Staged, NoneInFlight, Brought, Saved, Decoded, Put, Final, Replied

LEMMA CheckInv ==
  ASSUME PInv, CheckRequest
  PROVE  PInv'
<1>1. SlicerInv' /\ (pc' = "slice" => keys' = request'.items)
  <2>1. CASE Acceptable
    <3>1. keys' \in Seq(Key) /\ SlicerInit'
      BY <2>1 DEF PInv, Staged, CheckRequest, Acceptable, SlicerInit
    <3> QED
      BY <2>1, <3>1, SlicerInitInvNext DEF CheckRequest
  <2>2. CASE ~Acceptable
    BY <2>2, SlicerUnchanged DEF PInv, Typing, CheckRequest, slicerVars
  <2> QED
    BY <2>1, <2>2
<1>2. Typing'
  BY <1>1 DEF PInv, Typing, CheckRequest, hubVars, Final, Replied
<1>3. pc' \in {"slice", "error", "aborted"} /\ pc = "check"
      /\ UNCHANGED <<transfer, arrived, weights_, reply>>
  BY DEF CheckRequest, hubVars
<1>4. \A p \in Parts : transfer'[p] = "none" /\ arrived'[p] = NoBody /\ weights_'[p] = NoBody
  BY <1>3, NothingBrought DEF PInv, Staged
<1>5. Staged' /\ NoneInFlight' /\ Brought' /\ Saved' /\ Decoded' /\ Put'
  BY <1>1, <1>3, <1>4
  DEF PInv, Staged, NoneInFlight, Brought, Saved, Decoded, Put, Final, Replied
<1> QED
  BY <1>2, <1>5 DEF PInv

LEMMA SliceInv ==
  ASSUME PInv, Slice
  PROVE  PInv'
<1>1. SlicerInv' /\ keys' = keys
  BY SlicerStepInv DEF PInv, Typing, Slice, SlicerNext, Cut, CutDone, Copy, CopyDone
<1>2. /\ pc = "slice" /\ pc' \in {"slice", "register"}
      /\ pc' = "register" => stage' = "sliced"
      /\ UNCHANGED <<transfer, loop, arrived, weights_, partition, reply, request>>
  BY DEF Slice, hubVars
<1>3. Typing'
  BY <1>1, <1>2 DEF PInv, Typing
<1>4. \A p \in Parts : transfer'[p] = "none" /\ arrived'[p] = NoBody /\ weights_'[p] = NoBody
  BY <1>2, NothingBrought DEF PInv, Staged
<1> QED
  BY <1>1, <1>2, <1>3, <1>4
  DEF PInv, Staged, NoneInFlight, Brought, Saved, Decoded, Put, Final, Replied

-----------------------------------------------------------------------------
\* The slicer's variables no longer change.
Still == UNCHANGED <<keys, stage, part, pos, slices>>

\* Changing only the transfers leaves the reply as it was.
LEMMA PutUnchanged ==
  ASSUME PInv, Still,
         UNCHANGED <<pc, partition, reply>>, pc \in {"register", "loop"} \/ UNCHANGED arrived
  PROVE  Put'
  BY DEF PInv, Put, Aligned, ExactBelow, Still

LEMMA RegisterInv ==
  ASSUME PInv, SkipEmpty \/ Register \/ StartHub
  PROVE  PInv'
<1>1. /\ SlicerInv' /\ Still /\ pc = "register" /\ pc' \in {"register", "loop"}
      /\ UNCHANGED <<request, arrived, weights_, reply>>
  BY SlicerUnchanged
  DEF PInv, Typing, Still, SkipEmpty, Register, StartHub, Registering, hubVars, slicerVars
<1>2. /\ partition' \in 0..RangeCount /\ (pc' = "loop" => partition' = 0)
      /\ loop' \in {"before", "running", "over"}
  BY SlicerAssumption
  DEF PInv, Typing, SkipEmpty, Register, StartHub, Registering, NextPartition, hubVars,
      Hub!Add, Hub!Start
<1>3. \/ transfer' = transfer
      \/ /\ \E t \in {"running", "refused"} : transfer' = [transfer EXCEPT ![partition] = t]
         /\ partition \in Parts /\ transfer[partition] = "none"
  BY SlicerAssumption
  DEF PInv, Typing, SkipEmpty, Register, StartHub, Registering, hubVars, Parts,
      Hub!Add, Hub!Move, Hub!Start
<1>4. Typing'
  BY <1>1, <1>2, <1>3 DEF PInv, Typing
<1>5. \A p \in Parts : transfer[p] \in {"done", "called"} => transfer'[p] = transfer[p]
  BY <1>3 DEF PInv, Typing
<1>6. Brought' /\ Saved'
  BY <1>1, <1>5 DEF PInv, Brought, Saved, Still
<1>7. Staged'
  <2>1. pc' = "register" =>
          /\ partition' = partition + 1 /\ partition \in Nat
          /\ \A p \in Parts : p \in Nat /\ (p > partition => transfer'[p] = "none")
    <3> SUFFICES ASSUME pc' = "register"
                 PROVE  /\ partition' = partition + 1 /\ partition \in Nat
                        /\ \A p \in Parts : p \in Nat /\ (p > partition => transfer'[p] = "none")
      OBVIOUS
    <3>1. partition' = partition + 1
      BY <1>1 DEF SkipEmpty, Register, StartHub, NextPartition
    <3>2. partition \in Nat /\ Parts \subseteq Nat
      BY SlicerAssumption DEF PInv, Typing, Parts
    <3>3. ASSUME NEW p \in Parts, p > partition PROVE transfer'[p] = "none"
      <4>1. transfer[p] = "none" /\ p # partition
        BY <1>1, <3>2, <3>3 DEF PInv, Staged
      <4> QED BY <1>3, <4>1 DEF PInv, Typing
    <3> QED BY <3>1, <3>2, <3>3
  <2> QED
    BY <2>1, <1>1, <1>2 DEF PInv, Staged, Still
<1>8. NoneInFlight' /\ Decoded' /\ Put'
  BY <1>1 DEF NoneInFlight, Decoded, Put, Final, Replied
<1> QED
  BY <1>4, <1>6, <1>7, <1>8 DEF PInv

LEMMA EndsInv ==
  ASSUME PInv, NEW q \in Parts, NEW kinds, Ends(q, kinds)
  PROVE  PInv'
<1>1. /\ SlicerInv' /\ Still /\ UNCHANGED <<pc, request, partition, weights_, reply, loop>>
      /\ transfer' = [transfer EXCEPT ![q] = "done"] /\ transfer[q] = "running"
  BY SlicerUnchanged DEF PInv, Typing, Still, Ends, Hub!End, Hub!Move, slicerVars
<1>2. PICK kind \in Answers : arrived' = [arrived EXCEPT ![q] = BodyFor(slices[q], kind)]
  BY DEF Ends
<1>3. pc \in {"register", "loop"}
  BY <1>1 DEF PInv, Typing, Staged, NoneInFlight
<1>4. BodyFor(slices[q], kind) \in Bodies
  BY BodyForType DEF PInv, Typing, SlicerInv, SlicerTypeOK
<1>5. Typing'
  BY <1>1, <1>2, <1>4 DEF PInv, Typing
<1>6. \A p \in Parts : p # q => transfer'[p] = transfer[p] /\ arrived'[p] = arrived[p]
  BY <1>1, <1>2 DEF PInv, Typing
<1>7. transfer'[q] = "done" /\ arrived'[q] = BodyFor(slices[q], kind)
  BY <1>1, <1>2 DEF PInv, Typing
<1>8. Staged'
  BY <1>1, <1>3, <1>6 DEF PInv, Staged, Still
<1>9. Brought'
  BY <1>1, <1>6, <1>7 DEF PInv, Brought, Still
<1>10. Saved'
  BY <1>1, <1>6 DEF PInv, Saved
<1>11. NoneInFlight' /\ Decoded' /\ Put'
  BY <1>1, <1>3 DEF NoneInFlight, Decoded, Put, Final, Replied
<1> QED
  BY <1>5, <1>8, <1>9, <1>10, <1>11 DEF PInv

LEMMA ReadInv ==
  ASSUME PInv, NEW q \in Parts, ReadMessage(q)
  PROVE  PInv'
<1>1. /\ SlicerInv' /\ Still /\ UNCHANGED <<pc, request, partition, arrived, reply, loop>>
      /\ transfer' = [transfer EXCEPT ![q] = "called"] /\ transfer[q] = "done" /\ Save(q)
  BY SlicerUnchanged
  DEF PInv, Typing, Still, ReadMessage, Hub!CallBack, Hub!Move, slicerVars
<1>2. pc \in {"register", "loop"}
  BY <1>1 DEF PInv, Typing, Staged, NoneInFlight
<1>3. /\ \A p \in Parts : p # q => transfer'[p] = transfer[p] /\ weights_'[p] = weights_[p]
      /\ transfer'[q] = "called" /\ weights_'[q] \in {weights_[q], arrived[q]}
      /\ weights_' \in [Parts -> Bodies]
  BY <1>1 DEF PInv, Typing, Save
<1>4. Typing'
  BY <1>1, <1>3 DEF PInv, Typing
<1>5. Staged'
  BY <1>1, <1>2, <1>3 DEF PInv, Staged, Still
<1>6. Brought' /\ Saved'
  BY <1>1, <1>3 DEF PInv, Brought, Saved, Still
<1>7. NoneInFlight' /\ Decoded' /\ Put'
  BY <1>1, <1>2 DEF NoneInFlight, Decoded, Put, Final, Replied
<1> QED
  BY <1>4, <1>5, <1>6, <1>7 DEF PInv

LEMMA HubReturnsInv ==
  ASSUME PInv, HubReturns
  PROVE  PInv'
<1>1. /\ SlicerInv' /\ Still /\ pc = "loop" /\ pc' = "answer" /\ partition = 0 /\ reply = <<>>
      /\ UNCHANGED <<request, partition, transfer, arrived, weights_, reply>>
      /\ loop' = "over"
      /\ \A p \in Parts : transfer[p] # "done" /\ transfer[p] # "running"
  BY SlicerUnchanged
  DEF PInv, Typing, Staged, HubReturns, Hub!Return, Hub!Settled, Still, slicerVars
<1>2. Typing'
  BY <1>1 DEF PInv, Typing
<1>3. Staged' /\ NoneInFlight' /\ Brought' /\ Saved'
  BY <1>1 DEF PInv, Typing, Staged, NoneInFlight, Brought, Saved, Still
<1>4. Decoded'
  BY <1>1, SlicerAssumption DEF Decoded, Parts
<1>5. Put'
  <2>1. pos'[0] = 0 /\ Len(reply') = 0 /\ partition' = 0
    BY <1>1 DEF PInv, Typing, SlicerInv, CutsInOrder, Still
  <2> QED
    BY <2>1, <1>1 DEF Put, Aligned
<1> QED
  BY <1>2, <1>3, <1>4, <1>5 DEF PInv

-----------------------------------------------------------------------------
\* The weights of partition q come after those of the partitions below it.
LEMMA AlignedNext ==
  ASSUME PInv, NEW q \in Parts, Aligned(q), pc = "answer",
         slices[q] # <<>> => Decodes(weights_[q]),
         NEW r \in Seq(Weight),
         r = IF slices[q] = <<>> THEN reply ELSE reply \o weights_[q].list
  PROVE  /\ \A p \in 0..(q + 1) : ExactBelow(p) =>
              pos[p] <= Len(r) /\ \A j \in 1..pos[p] : r[j] = keys[j]
         /\ ExactBelow(q + 1) => Len(r) = pos[q + 1]
<1>1. /\ q \in Nat /\ pos[q] \in Nat /\ pos[q + 1] \in Nat /\ pos[q] <= pos[q + 1]
      /\ Len(slices[q]) = pos[q + 1] - pos[q]
      /\ \A j \in 1..Len(slices[q]) : slices[q][j] = keys[pos[q] + j]
  BY SliceIsRun DEF PInv, Typing, Staged, Sliced
<1>2. reply \in Seq(Weight) /\ Len(reply) \in Nat /\ slices[q] \in Seq(Key)
  BY DEF PInv, Typing, SlicerInv, SlicerTypeOK
<1>3. weights_[q].list \in Seq(Weight)
  BY DEF PInv, Typing, Bodies
<1>4. Len(reply) <= Len(r) /\ \A j \in 1..Len(reply) : r[j] = reply[j]
  BY <1>2, <1>3
<1>5. ASSUME NEW p \in 0..q, ExactBelow(p)
      PROVE  pos[p] <= Len(r) /\ \A j \in 1..pos[p] : r[j] = keys[j]
  <2>1. pos[p] <= Len(reply) /\ \A j \in 1..pos[p] : reply[j] = keys[j]
    BY <1>5 DEF Aligned
  <2>2. pos[p] \in Nat /\ Len(r) \in Nat
    <3>1. p \in 0..RangeCount
      BY <1>1, SlicerAssumption DEF Parts
    <3>2. pos[p] \in 0..Len(keys) /\ keys \in Seq(Key)
      BY <3>1 DEF PInv, Typing, SlicerInv, SlicerTypeOK
    <3> QED
      BY <3>2
  <2> QED
    BY <2>1, <2>2, <1>2, <1>4
<1>6. ASSUME ExactBelow(q + 1)
      PROVE  Len(r) = pos[q + 1] /\ \A j \in 1..pos[q + 1] : r[j] = keys[j]
  <2>1. ExactBelow(q)
    BY <1>6, <1>1, SlicerAssumption DEF ExactBelow, Parts
  <2>2. Len(reply) = pos[q] /\ \A j \in 1..pos[q] : reply[j] = keys[j]
    BY <2>1, <1>1 DEF Aligned
  <2>3. CASE slices[q] = <<>>
    <3>1. pos[q + 1] = pos[q] /\ r = reply
      BY <2>3, <1>1
    <3> QED
      BY <3>1, <2>2
  <2>4. CASE slices[q] # <<>>
    <3>1. weights_[q] = arrived[q] /\ arrived[q] # NoBody /\ Decodes(arrived[q])
      BY <2>4 DEF PInv, Saved, Decodes, NoBody, Body
    <3>2. Len(arrived[q].list) = Len(slices[q])
      BY <1>6, <1>1 DEF ExactBelow
    <3>3. PICK kind \in Answers : arrived[q] = BodyFor(slices[q], kind)
      BY <3>1 DEF PInv, Brought
    <3>4. weights_[q].list = slices[q]
      BY <3>1, <3>2, <3>3, <1>2, BodyForType
    <3>5. r = reply \o slices[q] /\ slices[q] \in Seq(Weight)
      BY <2>4, <3>4, <1>3
    <3>8. /\ Len(r) = Len(reply) + Len(slices[q])
          /\ \A j \in 1..Len(slices[q]) : r[Len(reply) + j] = slices[q][j]
      BY <3>5, <1>2
    <3>6. Len(r) = pos[q + 1]
      BY <3>8, <2>2, <1>1
    <3>7. ASSUME NEW j \in 1..pos[q + 1] PROVE r[j] = keys[j]
      <4>1. CASE j <= pos[q]
        BY <4>1, <1>1, <1>2, <1>4, <2>2
      <4>2. CASE j > pos[q]
        <5>1. j - pos[q] \in 1..Len(slices[q]) /\ pos[q] + (j - pos[q]) = j
          BY <4>2, <1>1
        <5>2. r[j] = slices[q][j - pos[q]]
          BY <5>1, <3>8, <2>2
        <5> QED
          BY <5>1, <5>2, <1>1
      <4>3. j \in Nat /\ pos[q] \in Nat
        BY <1>1
      <4>4. j <= pos[q] \/ j > pos[q]
        BY <4>3
      <4> QED
        BY <4>1, <4>2, <4>4, Zenon
    <3> QED
      BY <3>6, <3>7
  <2> QED
    BY <2>3, <2>4
<1>7. \A p \in 0..(q + 1) : p \in 0..q \/ p = q + 1
  BY <1>1
<1>8. ASSUME NEW p \in 0..(q + 1), ExactBelow(p)
      PROVE  pos[p] <= Len(r) /\ \A j \in 1..pos[p] : r[j] = keys[j]
  <2>1. CASE p \in 0..q
    BY <2>1, <1>5, <1>8
  <2>2. CASE p = q + 1
    BY <2>2, <1>1, <1>6, <1>8
  <2> QED
    BY <1>7, <2>1, <2>2
<1> QED
  BY <1>6, <1>8

LEMMA AnswerInv ==
  ASSUME PInv, NEW q \in Parts, AnswerPartition(q)
  PROVE  PInv'
<1>1. /\ SlicerInv' /\ Still /\ pc = "answer" /\ partition = q /\ partition' = q + 1
      /\ UNCHANGED <<pc, request, transfer, loop, arrived, weights_>>
      /\ slices[q] # <<>> => Decodes(weights_[q])
      /\ reply' = IF slices[q] = <<>> THEN reply ELSE reply \o weights_[q].list
      /\ q \in Nat /\ q + 1 \in 0..RangeCount
  BY SlicerUnchanged, SlicerAssumption
  DEF PInv, Typing, AnswerPartition, Answering, NextPartition, SkipPartition,
      hubVars, slicerVars, Parts, Still
<1>2. reply' \in Seq(Weight)
  <2>1. weights_[q].list \in Seq(Weight) /\ reply \in Seq(Weight)
    BY DEF PInv, Typing, Bodies
  <2>2. ASSUME NEW s \in Seq(Weight), NEW t \in Seq(Weight) PROVE s \o t \in Seq(Weight)
    OBVIOUS
  <2>3. reply \o weights_[q].list \in Seq(Weight)
    BY <2>1, <2>2
  <2> QED
    BY <2>1, <2>3, <1>1
<1>3. Typing'
  BY <1>1, <1>2 DEF PInv, Typing
<1>4. Staged' /\ NoneInFlight' /\ Brought' /\ Saved'
  BY <1>1 DEF PInv, Staged, NoneInFlight, Brought, Saved, Still
<1>5. Decoded'
  BY <1>1, SlicerAssumption DEF PInv, Decoded, Decodes, Parts, Still
<1>6. Put'
  <2>1. Aligned(q)
    BY <1>1 DEF PInv, Put
  <2>2. /\ \A p \in 0..(q + 1) : ExactBelow(p) =>
             pos[p] <= Len(reply') /\ \A j \in 1..pos[p] : reply'[j] = keys[j]
        /\ ExactBelow(q + 1) => Len(reply') = pos[q + 1]
    BY <2>1, <1>1, <1>2, AlignedNext
  <2>3. \A n : ExactBelow(n)' <=> ExactBelow(n)
    BY <1>1 DEF ExactBelow, Still
  <2>4. Aligned(q + 1)'
    BY <2>2, <2>3, <1>1 DEF Aligned, ExactBelow, Still
  <2> QED
    BY <2>4, <1>1 DEF Put, Aligned, ExactBelow
<1> QED
  BY <1>3, <1>4, <1>5, <1>6 DEF PInv

LEMMA EndInv ==
  ASSUME PInv, Finish \/ \E q \in Parts : AnswerFails(q)
  PROVE  PInv'
<1>1. /\ SlicerInv' /\ Still /\ pc = "answer" /\ pc' \in Final
      /\ UNCHANGED <<request, partition, transfer, loop, arrived, weights_, reply>>
      /\ pc' = "ok" => partition = RangeCount
  BY SlicerUnchanged
  DEF PInv, Typing, Finish, AnswerFails, Answering, hubVars, slicerVars, Final, Replied, Still
<1>2. Typing'
  BY <1>1 DEF PInv, Typing
<1>3. Staged' /\ NoneInFlight' /\ Brought' /\ Saved'
  BY <1>1 DEF PInv, Staged, NoneInFlight, Brought, Saved, Final, Replied, Still
<1>4. Decoded'
  <2>1. pc' = "ok" => \A p \in Parts : p < partition
    BY <1>1, SlicerAssumption DEF Parts
  <2> QED
    BY <2>1, <1>1 DEF PInv, Decoded, Decodes, Final, Replied, Still
<1>5. Put'
  BY <1>1 DEF PInv, Put, Aligned, ExactBelow, Final, Replied, Still
<1> QED
  BY <1>2, <1>3, <1>4, <1>5 DEF PInv

LEMMA StutterInv ==
  ASSUME PInv, UNCHANGED vars
  PROVE  PInv'
<1>1. SlicerInv' /\ Still /\ UNCHANGED postmanVars
  BY SlicerUnchanged DEF PInv, Typing, vars, slicerVars, Still
<1>2. Typing' /\ Staged' /\ NoneInFlight' /\ Brought' /\ Saved' /\ Decoded'
  BY <1>1 DEF postmanVars, PInv, Typing, Staged, SlicerInit, NoneInFlight, Brought,
              Saved, Decoded, Decodes, Still
<1>3. Put'
  BY <1>1, PutUnchanged DEF postmanVars
<1> QED
  BY <1>2, <1>3 DEF PInv

LEMMA PInvStep == PInv /\ [Next]_vars => PInv'
<1> SUFFICES ASSUME PInv, [Next]_vars PROVE PInv'
  OBVIOUS
<1>1. CASE Express
  BY <1>1, CheckInv, SliceInv, RegisterInv, ReadInv, HubReturnsInv, AnswerInv, EndInv
  DEF Express
<1>2. ASSUME NEW p \in Parts, Complete(p) \/ TimeOut(p)
      PROVE  PInv'
  BY <1>2, EndsInv DEF Complete, TimeOut
<1>3. CASE Answered \/ UNCHANGED vars
  BY <1>3, StutterInv DEF Answered
<1> QED
  BY <1>1, <1>2, <1>3 DEF Next

THEOREM PostmanInvariant == Spec => []PInv
  BY PInvInit, PInvStep, PTL DEF Spec

-----------------------------------------------------------------------------
\* Type correctness.
THEOREM PostmanTypeCorrect == Spec => []TypeOK
<1>1. PInv => TypeOK
  BY DEF PInv, Typing, TypeOK, SlicerInv, Bodies, Kinds, Weight
<1> QED
  BY <1>1, PostmanInvariant, PTL

\* No transfer outlives the Postman it points to.
THEOREM NothingIsInFlight == Spec => []NoneInFlight
<1>1. PInv => NoneInFlight
  BY DEF PInv
<1> QED
  BY <1>1, PostmanInvariant, PTL

\* A reply with weights rests on the answer of every server that was asked.
THEOREM RepliesAreComplete == Spec => []EveryServerAnswered
<1>1. PInv => EveryServerAnswered
  <2> SUFFICES ASSUME PInv, pc = "ok", NEW p \in Asked
               PROVE  /\ transfer[p] = "called"
                      /\ arrived[p].kind = "weights"
                      /\ weights_[p] = arrived[p]
    BY DEF EveryServerAnswered
  <2>1. p \in Parts /\ weights_[p].kind = "weights"
    BY DEF PInv, Decoded, Decodes, Asked
  <2>2. weights_[p] # NoBody
    BY <2>1 DEF NoBody, Body
  <2> QED
    BY <2>1, <2>2 DEF PInv, Saved
<1> QED
  BY <1>1, PostmanInvariant, PTL

\* The weights stand where their features stand, as far as the servers answered
\* with as many as they were asked for.
THEOREM RepliesAreAligned == Spec => []ReplyAligned
<1>1. PInv => ReplyAligned
  <2> SUFFICES ASSUME PInv, pc = "ok" PROVE ReplyAligned
    BY DEF ReplyAligned
  <2>1. Aligned(RangeCount) /\ keys = request.items /\ RangeCount \in Nat
    BY SlicerAssumption DEF PInv, Put, Staged
  <2>2. ASSUME NEW p \in Parts, Exact(p), NEW j \in (pos[p] + 1)..pos[p + 1]
        PROVE  j <= Len(reply) /\ reply[j] = request.items[j]
    <3>1. /\ p \in Nat /\ p + 1 \in 0..RangeCount /\ pos[p] \in Nat /\ pos[p + 1] \in Nat
          /\ Len(reply) \in Nat
      BY <2>1, SliceIsRun DEF PInv, Typing, Staged, Sliced, Parts
    <3>2. ExactBelow(p + 1)
      BY <2>2, <3>1, SlicerAssumption DEF ExactBelow, Exact, Parts
    <3>3. pos[p + 1] <= Len(reply) /\ \A k \in 1..pos[p + 1] : reply[k] = keys[k]
      BY <3>1, <3>2, <2>1 DEF Aligned
    <3> QED
      BY <3>1, <3>3, <2>1
  <2>3. ASSUME Exact(RangeCount - 1) PROVE Len(reply) = pos[RangeCount]
    <3>1. ExactBelow(RangeCount)
      BY <2>3 DEF ExactBelow, Exact, Parts
    <3> QED
      BY <3>1, <2>1 DEF Aligned
  <2> QED
    BY <2>2, <2>3 DEF ReplyAligned
<1> QED
  BY <1>1, PostmanInvariant, PTL

=============================================================================
