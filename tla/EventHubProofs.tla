---------------------------- MODULE EventHubProofs ----------------------------
(***************************************************************************)
(* Proofs about EventHub, for any number of transfers and any depth of     *)
(* nested calls.                                                           *)
(***************************************************************************)
EXTENDS EventHub, SequenceTheorems, TLAPS

Frames == {"action", "check"} \cup Handles

\* A handle whose message was read is in a frame; messages are queued only while
\* somebody is going to read them.
Held ==
  /\ \A h \in With("read") : \E k \in 1..Len(calls) : calls[k] = h
  /\ calls = <<>> => With("done") = {}
  /\ loop = "over" => calls = <<>>

\* Only transfers that run have a timer, and all of them do.
Timed == \A h \in Handles : transfer[h] = "running" <=> due[h] # "none"

\* Outside curl_multi_socket_action nothing is due, and the timer is pending for
\* what will be.
Told ==
  ~InCall("action") => \A h \in Handles : due[h] # "none" => due[h] = "later" /\ ev_timer_

HInv == TypeOK /\ HandleOutlivesNested /\ Held /\ Timed /\ Told

-----------------------------------------------------------------------------
\* The innermost frame returns, or is replaced.
LEMMA FramesBelow ==
  ASSUME calls \in Seq(Frames), calls # <<>>
  PROVE  /\ Len(calls) \in Nat \ {0}
         /\ Below \in Seq(Frames) /\ Len(Below) = Len(calls) - 1
         /\ \A k \in 1..(Len(calls) - 1) : Below[k] = calls[k]
         /\ \A x \in Frames :
              /\ Append(Below, x) \in Seq(Frames) /\ Len(Append(Below, x)) = Len(calls)
              /\ \A k \in 1..(Len(calls) - 1) : Append(Below, x)[k] = calls[k]
              /\ Append(Below, x)[Len(calls)] = x
<1>1. Len(calls) \in Nat \ {0}
  OBVIOUS
<1>2. /\ Below \in Seq(Frames) /\ Len(Below) = Len(calls) - 1
      /\ \A k \in 1..(Len(calls) - 1) : Below[k] = calls[k]
  <2>1. \A i \in 1..(Len(calls) - 1) : calls[i] \in Frames
    BY <1>1
  <2> QED
    <3> DEFINE m == Len(calls) - 1
    <3>1. m \in Int /\ 1 \in Int /\ \A i \in 1..m : calls[i] \in Frames
      BY <1>1, <2>1
    <3>2. /\ Below \in Seq(Frames) /\ Len(Below) = IF 1 <= m THEN m - 1 + 1 ELSE 0
          /\ \A i \in 1..(m - 1 + 1) : Below[i] = calls[1 + i - 1]
      <4> HIDE DEF m
      <4>1. Below = SubSeq(calls, 1, m)
        BY DEF Below, m
      <4> QED
        BY <3>1, <4>1, SubSeqProperties
    <3>3. m \in Nat /\ (m = 0 \/ 1 <= m)
      <4>1. Len(calls) \in Nat /\ Len(calls) # 0
        BY <1>1
      <4>2. \A n \in Nat : n # 0 => n - 1 \in Nat /\ (n - 1 = 0 \/ 1 <= n - 1)
        OBVIOUS
      <4> QED
        BY <4>1, <4>2
    <3>4. Len(Below) = m
      BY <3>2, <3>3
    <3>5. ASSUME NEW k \in 1..m PROVE Below[k] = calls[k]
      <4>1. k \in 1..(m - 1 + 1) /\ 1 + k - 1 = k
        BY <3>3
      <4> QED
        BY <4>1, <3>2
    <3> QED
      BY <3>2, <3>4, <3>5
<1>3. ASSUME NEW x \in Frames
      PROVE  /\ Append(Below, x) \in Seq(Frames) /\ Len(Append(Below, x)) = Len(calls)
             /\ \A k \in 1..(Len(calls) - 1) : Append(Below, x)[k] = calls[k]
             /\ Append(Below, x)[Len(calls)] = x
  <2> HIDE DEF Below
  <2> QED
    BY <1>1, <1>2
<1> QED
  BY <1>1, <1>2, <1>3

\* What TimerHandler leaves behind, called with the frames `inside`.
LEMMA HandlerTold ==
  ASSUME NEW d \in [Handles -> {"none", "now", "later"}],
         NEW inside \in Seq(Frames), ev_timer_ \in BOOLEAN,
         inside = <<>> \/ inside[Len(inside)] # "action",
         TimerHandler(d, inside)
  PROVE  /\ due' = d /\ ev_timer_' \in BOOLEAN
         /\ calls' \in {inside, Append(inside, "action")}
         /\ Told'
<1>1. due' = d /\ ev_timer_' \in BOOLEAN
  BY DEF TimerHandler
<1>2. CASE Due(d, "now") # {}
  <2>1. calls' = Append(inside, "action")
    BY <1>2 DEF TimerHandler
  <2>2. InCall("action")'
    BY <2>1 DEF InCall
  <2> QED
    BY <1>1, <2>1, <2>2 DEF Told
<1>3. CASE Due(d, "now") = {}
  <2>1. calls' = inside /\ \A h \in Handles : d[h] # "now"
    BY <1>3 DEF TimerHandler, Due
  <2>2. \A h \in Handles : d[h] = "later" => ev_timer_'
    BY <1>3 DEF TimerHandler, Due
  <2> QED
    BY <1>1, <2>1, <2>2 DEF Told
<1> QED
  BY <1>2, <1>3

LEMMA HInvInit == Init => HInv
<1> SUFFICES ASSUME Init PROVE HInv
  OBVIOUS
<1>1. calls = <<>> /\ Len(calls) = 0 /\ calls \in Seq(Frames)
  BY DEF Init
<1>2. TypeOK
  BY <1>1 DEF Init, TypeOK, Frames
<1>3. HandleOutlivesNested
  BY <1>1 DEF HandleOutlivesNested
<1>4. Held /\ Timed /\ Told
  BY DEF Init, Held, Timed, Told, With
<1> QED
  BY <1>2, <1>3, <1>4 DEF HInv

LEMMA RegisterInv ==
  ASSUME HInv, NEW q \in Handles, Register(q)
  PROVE  HInv'
<1>1. calls = <<>> /\ loop = "before" /\ transfer[q] = "none" /\ UNCHANGED <<watched, loop>>
  BY DEF Register, Waiting
<1>2. CASE /\ transfer' = [transfer EXCEPT ![q] = "running"]
           /\ TimerHandler([due EXCEPT ![q] = "now"], <<>>)
  <2>1. [due EXCEPT ![q] = "now"] \in [Handles -> {"none", "now", "later"}]
    BY DEF HInv, TypeOK
  <2>2. /\ due' = [due EXCEPT ![q] = "now"] /\ ev_timer_' \in BOOLEAN
        /\ calls' \in {<<>>, Append(<<>>, "action")} /\ Told'
    <3>1. <<>> \in Seq(Frames) /\ ev_timer_ \in BOOLEAN
      BY DEF HInv, TypeOK
    <3> QED
      BY <3>1, <2>1, <1>2, HandlerTold
  <2>3. calls' \in Seq(Frames) /\ Len(calls') \in 0..1 /\ \A k \in 1..Len(calls') : calls'[k] = "action"
    <3>1. <<>> \in Seq(Frames) /\ Len(<<>>) = 0 /\ "action" \in Frames
      BY DEF Frames
    <3>2. LET one == Append(<<>>, "action")
          IN  one \in Seq(Frames) /\ Len(one) = 1 /\ one[1] = "action"
      BY <3>1
    <3>3. CASE calls' = <<>>
      BY <3>1, <3>3
    <3>4. CASE calls' = Append(<<>>, "action")
      BY <3>2, <3>4
    <3> QED
      BY <2>2, <3>3, <3>4
  <2>4. TypeOK'
    BY <1>1, <1>2, <2>1, <2>2, <2>3 DEF HInv, TypeOK, Frames
  <2>5. HandleOutlivesNested'
    BY <2>3, EventHubAssumption DEF HandleOutlivesNested
  <2>6. Held' /\ Timed'
    BY <1>1, <1>2, <2>2 DEF HInv, TypeOK, Held, Timed, With
  <2> QED
    BY <2>2, <2>4, <2>5, <2>6 DEF HInv
<1>3. CASE /\ transfer' = [transfer EXCEPT ![q] = "refused"]
           /\ UNCHANGED <<due, ev_timer_, calls>>
  BY <1>1, <1>3 DEF HInv, TypeOK, HandleOutlivesNested, Held, Timed, Told, With, InCall
<1> QED
  BY <1>2, <1>3 DEF Register

\* libevent calls a handler, which calls libcurl.
LEMMA FiresInv ==
  ASSUME HInv, TimerFires \/ \E q \in Handles : SocketFires(q)
  PROVE  HInv'
<1>1. /\ calls = <<>> /\ calls' = <<"action">> /\ loop = "running"
      /\ UNCHANGED <<transfer, watched, loop>> /\ ev_timer_' \in BOOLEAN
  BY DEF TimerFires, SocketFires, Waiting, HInv, TypeOK
<1>2. /\ due' \in [Handles -> {"none", "now", "later"}]
      /\ \A h \in Handles : due'[h] = "none" <=> due[h] = "none"
  BY DEF TimerFires, SocketFires, Elapsed, Due, HInv, TypeOK
<1>3. calls' \in Seq(Frames) /\ Len(calls') = 1 /\ calls'[1] = "action"
  BY <1>1 DEF Frames
<1>4. TypeOK'
  BY <1>1, <1>2, <1>3 DEF HInv, TypeOK, Frames
<1>5. HandleOutlivesNested' /\ Held' /\ Timed' /\ Told'
  BY <1>1, <1>2, <1>3, EventHubAssumption
  DEF HInv, HandleOutlivesNested, Held, Timed, Told, With, InCall
<1> QED
  BY <1>4, <1>5 DEF HInv

LEMMA ActionInv ==
  ASSUME HInv, NEW q \in Handles, Proceed(q) \/ Finish(q)
  PROVE  HInv'
<1>1. /\ InCall("action") /\ UNCHANGED <<calls, loop, ev_timer_>> /\ transfer[q] = "running"
      /\ watched' \subseteq Handles
  BY DEF Proceed, Finish, HInv, TypeOK
<1>2. CASE Proceed(q)
  BY <1>1, <1>2
  DEF Proceed, Timers, HInv, TypeOK, HandleOutlivesNested, Held, Timed, Told, With, InCall
<1>3. CASE Finish(q)
  <2>1. TypeOK' /\ Timed' /\ Told'
    BY <1>1, <1>3 DEF Finish, HInv, TypeOK, Timed, Told, InCall
  <2>2. HandleOutlivesNested'
    BY <1>1, <1>3 DEF Finish, HInv, TypeOK, HandleOutlivesNested
  <2>3. Held'
    BY <1>1, <1>3 DEF Finish, HInv, TypeOK, Held, With, InCall
  <2> QED
    BY <2>1, <2>2, <2>3 DEF HInv
<1> QED
  BY <1>2, <1>3

LEMMA EndActionInv ==
  ASSUME HInv, EndAction
  PROVE  HInv'
<1> DEFINE n == Len(calls)
           inside == Append(Below, "check")
<1>1. /\ calls # <<>> /\ calls[n] = "action" /\ UNCHANGED <<transfer, watched, loop>>
      /\ TimerHandler(due, inside)
  BY DEF EndAction, InCall
<1>2. /\ inside \in Seq(Frames) /\ Len(inside) = n /\ n \in Nat \ {0} /\ inside[n] = "check"
      /\ \A k \in 1..(n - 1) : inside[k] = calls[k]
  BY <1>1, FramesBelow DEF HInv, TypeOK, Frames
<1> HIDE DEF inside
<1>3. /\ due' = due /\ ev_timer_' \in BOOLEAN /\ Told'
      /\ calls' \in {inside, Append(inside, "action")}
  BY <1>1, <1>2, HandlerTold DEF HInv, TypeOK
<1>4. /\ calls' \in Seq(Frames) /\ Len(calls') \in Nat /\ Len(calls') >= n
      /\ \A k \in 1..Len(calls') : calls'[k] \in {"action", "check"} \/ (k < n /\ calls'[k] = calls[k])
      /\ \A k \in 1..(n - 1) : calls'[k] = calls[k]
  BY <1>2, <1>3 DEF Frames
<1>5. TypeOK'
  BY <1>1, <1>3, <1>4 DEF HInv, TypeOK, Frames
<1>6. HandleOutlivesNested'
  BY <1>1, <1>2, <1>4, EventHubAssumption DEF HInv, HandleOutlivesNested
<1>7. Held'
  <2>1. ASSUME NEW h \in With("read") PROVE \E k \in 1..Len(calls') : calls'[k] = h
    <3>1. PICK k \in 1..n : calls[k] = h
      BY <2>1 DEF HInv, Held
    <3>2. k \in 1..(n - 1) /\ k \in 1..Len(calls')
      BY <3>1, <1>1, <1>2, <1>4, <2>1, EventHubAssumption DEF With
    <3> QED
      BY <3>1, <3>2, <1>4
  <2>2. calls' # <<>>
    BY <1>2, <1>4
  <2> QED
    BY <2>1, <2>2, <1>1 DEF HInv, Held, With
<1>8. Timed'
  BY <1>1, <1>3 DEF HInv, Timed
<1> QED
  BY <1>3, <1>5, <1>6, <1>7, <1>8 DEF HInv

LEMMA ReadInv ==
  ASSUME HInv, NEW q \in Handles, ReadMessage(q)
  PROVE  HInv'
<1> DEFINE n == Len(calls)
           inside == Append(Below, q)
<1>1. /\ calls # <<>> /\ calls[n] = "check" /\ transfer[q] = "done"
      /\ transfer' = [transfer EXCEPT ![q] = "read"] /\ UNCHANGED <<watched, loop>>
  BY DEF ReadMessage, InCall, Taken
<1>2. PICK d \in Elapsed(due) : TimerHandler(d, inside)
  BY DEF ReadMessage
<1>3. /\ d \in [Handles -> {"none", "now", "later"}]
      /\ \A h \in Handles : d[h] = "none" <=> due[h] = "none"
  BY DEF Elapsed, Due, HInv, TypeOK
<1>4. /\ inside \in Seq(Frames) /\ Len(inside) = n /\ n \in Nat \ {0} /\ inside[n] = q
      /\ \A k \in 1..(n - 1) : inside[k] = calls[k]
  BY <1>1, FramesBelow DEF HInv, TypeOK, Frames
<1> HIDE DEF inside
<1>5. /\ due' = d /\ ev_timer_' \in BOOLEAN /\ Told'
      /\ calls' \in {inside, Append(inside, "action")}
  BY <1>2, <1>3, <1>4, EventHubAssumption, HandlerTold DEF HInv, TypeOK
<1>6. /\ calls' \in Seq(Frames) /\ Len(calls') \in Nat /\ Len(calls') >= n /\ calls'[n] = q
      /\ \A k \in 1..Len(calls') :
           (k < n /\ calls'[k] = calls[k]) \/ k = n \/ calls'[k] = "action"
      /\ \A k \in 1..(n - 1) : calls'[k] = calls[k]
  BY <1>4, <1>5 DEF Frames
<1>7. TypeOK'
  BY <1>1, <1>3, <1>5, <1>6 DEF HInv, TypeOK, Frames
<1>8. \A k \in 1..(n - 1) : k \in 1..n /\ calls[k] # q
  BY <1>1, <1>4 DEF HInv, HandleOutlivesNested
<1>9. HandleOutlivesNested'
  <2>1. \A h \in Handles : h # q => transfer'[h] = transfer[h]
    BY <1>1 DEF HInv, TypeOK
  <2>2. transfer'[q] = "read"
    BY <1>1 DEF HInv, TypeOK
  <2> SUFFICES ASSUME NEW k \in 1..Len(calls'), calls'[k] \in Handles,
                      NEW l \in 1..Len(calls')
               PROVE  transfer'[calls'[k]] = "read" /\ (calls'[l] = calls'[k] => l = k)
    BY DEF HandleOutlivesNested
  <2>3. (k < n /\ calls'[k] = calls[k]) \/ k = n
    BY <1>6, EventHubAssumption
  <2>4. calls'[l] \in Handles => (l < n /\ calls'[l] = calls[l]) \/ l = n
    BY <1>6, EventHubAssumption
  <2>5. k < n => k \in 1..(n - 1) /\ k \in 1..n
    BY <1>4
  <2>6. l < n => l \in 1..(n - 1) /\ l \in 1..n
    BY <1>4
  <2>7. CASE k = n
    BY <2>7, <1>6, <1>8, <2>2, <2>4, <2>6
  <2>8. CASE k < n
    <3>1. transfer[calls[k]] = "read" /\ calls[k] \in Handles /\ calls[k] # q /\ calls'[k] = calls[k]
      BY <2>5, <2>8, <1>6, <1>8 DEF HInv, HandleOutlivesNested
    <3>2. ASSUME calls'[l] = calls'[k] PROVE l = k
      <4>1. l < n /\ calls'[l] = calls[l]
        BY <3>1, <3>2, <2>4, <1>6
      <4> QED
        BY <4>1, <3>1, <3>2, <2>5, <2>6, <2>8 DEF HInv, HandleOutlivesNested
    <3> QED
      BY <3>1, <3>2, <2>1
  <2> QED
    BY <2>3, <2>7, <2>8
<1>10. Held'
  <2>1. ASSUME NEW h \in Handles, transfer'[h] = "read"
        PROVE  \E k \in 1..Len(calls') : calls'[k] = h
    <3>1. CASE h = q
      <4>1. n \in 1..Len(calls')
        BY <1>4, <1>6
      <4> QED
        BY <4>1, <3>1, <1>6
    <3>2. CASE h # q
      <4>1. PICK k \in 1..n : calls[k] = h
        BY <2>1, <3>2, <1>1 DEF HInv, TypeOK, Held, With
      <4>2. k \in 1..(n - 1) /\ k \in 1..Len(calls')
        BY <4>1, <1>1, <1>4, <1>6, EventHubAssumption
      <4> QED
        BY <4>1, <4>2, <1>6
    <3> QED
      BY <3>1, <3>2
  <2>2. calls' # <<>>
    BY <1>4, <1>6
  <2> QED
    BY <2>1, <2>2, <1>1 DEF HInv, Held, With
<1>11. Timed'
  BY <1>1, <1>3, <1>5 DEF HInv, TypeOK, Timed
<1> QED
  BY <1>5, <1>7, <1>9, <1>10, <1>11 DEF HInv

LEMMA CallBackInv ==
  ASSUME HInv, NEW q \in Handles, CallBack(q)
  PROVE  HInv'
<1> DEFINE n == Len(calls)
<1>1. /\ calls # <<>> /\ calls[n] = q /\ UNCHANGED <<due, watched, ev_timer_, loop>>
      /\ transfer' = [transfer EXCEPT ![q] = "called"] /\ calls' = Append(Below, "check")
  BY DEF CallBack, InCall
<1>2. /\ calls' \in Seq(Frames) /\ Len(calls') = n /\ n \in Nat \ {0} /\ calls'[n] = "check"
      /\ \A k \in 1..(n - 1) : calls'[k] = calls[k]
  BY <1>1, FramesBelow DEF HInv, TypeOK, Frames
<1>3. transfer[q] = "read" /\ \A k \in 1..(n - 1) : k \in 1..n /\ calls[k] # q
  BY <1>1, <1>2 DEF HInv, HandleOutlivesNested
<1>4. \A h \in Handles : h # q => transfer'[h] = transfer[h]
  BY <1>1 DEF HInv, TypeOK
<1>5. TypeOK'
  BY <1>1, <1>2 DEF HInv, TypeOK, Frames
<1>6. \A k \in 1..n : k \in 1..(n - 1) \/ k = n
  BY <1>2
<1>7. HandleOutlivesNested'
  <2> SUFFICES ASSUME NEW k \in 1..n, calls'[k] \in Handles, NEW l \in 1..n
               PROVE  transfer'[calls'[k]] = "read" /\ (calls'[l] = calls'[k] => l = k)
    BY <1>2 DEF HandleOutlivesNested
  <2>1. k \in 1..(n - 1) /\ calls'[k] = calls[k] /\ calls[k] # q
    BY <1>2, <1>3, <1>6, EventHubAssumption
  <2>2. calls'[l] = calls'[k] => l \in 1..(n - 1) /\ calls'[l] = calls[l]
    BY <2>1, <1>2, <1>6, EventHubAssumption
  <2> QED
    BY <2>1, <2>2, <1>4 DEF HInv, HandleOutlivesNested
<1>8. Held'
  <2>1. ASSUME NEW h \in Handles, transfer'[h] = "read"
        PROVE  \E k \in 1..Len(calls') : calls'[k] = h
    <3>1. h # q /\ transfer[h] = "read"
      BY <2>1, <1>1, <1>4 DEF HInv, TypeOK
    <3>2. PICK k \in 1..n : calls[k] = h
      BY <3>1 DEF HInv, Held, With
    <3> QED
      BY <3>1, <3>2, <1>1, <1>2, <1>6
  <2>2. calls' # <<>>
    BY <1>2
  <2> QED
    BY <2>1, <2>2, <1>1 DEF HInv, Held, With
<1>9. Timed' /\ Told'
  <2>1. ~InCall("action")
    BY <1>1, EventHubAssumption DEF InCall
  <2>2. transfer'[q] = "called"
    BY <1>1 DEF HInv, TypeOK
  <2> QED
    BY <2>1, <2>2, <1>1, <1>3, <1>4 DEF HInv, Timed, Told
<1> QED
  BY <1>5, <1>7, <1>8, <1>9 DEF HInv

LEMMA CheckedInv ==
  ASSUME HInv, Checked
  PROVE  HInv'
<1> DEFINE n == Len(calls)
<1>1. /\ calls # <<>> /\ calls[n] = "check" /\ calls' = Below /\ With("done") = {}
      /\ UNCHANGED <<transfer, due, watched, ev_timer_, loop>>
  BY DEF Checked, InCall, NoMessage
<1>2. /\ calls' \in Seq(Frames) /\ Len(calls') = n - 1 /\ n \in Nat \ {0}
      /\ \A k \in 1..(n - 1) : calls'[k] = calls[k]
  BY <1>1, FramesBelow DEF HInv, TypeOK, Frames
<1>3. TypeOK'
  BY <1>1, <1>2 DEF HInv, TypeOK, Frames
<1>4. \A k \in 1..(n - 1) : k \in 1..n
  BY <1>2
<1>5. HandleOutlivesNested'
  BY <1>1, <1>2, <1>4 DEF HInv, HandleOutlivesNested
<1>6. Held'
  <2>1. ASSUME NEW h \in Handles, transfer[h] = "read"
        PROVE  \E k \in 1..Len(calls') : calls'[k] = h
    <3>1. PICK k \in 1..n : calls[k] = h
      BY <2>1 DEF HInv, Held, With
    <3>2. k \in 1..(n - 1)
      BY <3>1, <1>1, <1>2, EventHubAssumption
    <3> QED
      BY <3>1, <3>2, <1>2
  <2> QED
    BY <2>1, <1>1 DEF HInv, Held, With
<1>7. Timed' /\ Told'
  BY <1>1 DEF HInv, Timed, Told, InCall
<1> QED
  BY <1>3, <1>5, <1>6, <1>7 DEF HInv

LEMMA HInvStep == HInv /\ [Next]_vars => HInv'
<1> SUFFICES ASSUME HInv, [Next]_vars PROVE HInv'
  OBVIOUS
<1>1. CASE StartLoop \/ LoopReturns \/ Over \/ UNCHANGED vars
  BY <1>1 DEF StartLoop, LoopReturns, Over, Waiting, vars, HInv, TypeOK, HandleOutlivesNested,
              Held, Timed, Told, With, InCall
<1>2. CASE Handling
  BY <1>1, <1>2, EndActionInv, CheckedInv, ReadInv, CallBackInv DEF Handling
<1> QED
  BY <1>1, <1>2, FiresInv, RegisterInv, ActionInv DEF Next

THEOREM HubInvariant == Spec => []HInv
  BY HInvInit, HInvStep, PTL DEF Spec

-----------------------------------------------------------------------------
\* Type correctness.
THEOREM HubTypeCorrect == Spec => []TypeOK
<1>1. HInv => TypeOK
  BY DEF HInv
<1> QED
  BY <1>1, HubInvariant, PTL

\* No nested check_multi_info touches a handle that an outer one is removing.
THEOREM HandlesOutlive == Spec => []HandleOutlivesNested
<1>1. HInv => HandleOutlivesNested
  BY DEF HInv
<1> QED
  BY <1>1, HubInvariant, PTL

\* The timer is pending for every transfer that runs.
THEOREM AllAttended == Spec => []Attended
<1>1. HInv => Attended
  BY DEF HInv, Attended, Waiting, With, Timed, Told, InCall
<1> QED
  BY <1>1, HubInvariant, PTL

\* While the thread waits no transfer has ended without calling back.
LEMMA WaitingSettled == HInv /\ calls = <<>> => Hub!Settled
<1> SUFFICES ASSUME HInv, calls = <<>>, NEW h \in Handles PROVE Outcome[h] # "done"
  BY DEF Hub!Settled
<1>1. transfer[h] # "read" /\ transfer[h] # "done"
  BY DEF HInv, Held, With
<1> QED
  BY <1>1 DEF Outcome

\* A step that moves one transfer moves its outcome.
LEMMA OutcomeMoves ==
  ASSUME HInv, NEW h \in Handles, NEW to \in {"running", "refused", "done", "read", "called"},
         transfer' = [transfer EXCEPT ![h] = to]
  PROVE  Outcome' = [Outcome EXCEPT ![h] = IF to = "read" THEN "done" ELSE to]
  BY DEF Outcome, HInv, TypeOK

LEMMA HubStep == HInv /\ [Next]_vars => [Hub!Next]_Hub!hubVars
<1> SUFFICES ASSUME HInv, [Next]_vars PROVE Hub!Next \/ UNCHANGED <<Outcome, loop>>
  BY DEF Hub!hubVars
<1>1. ASSUME NEW h \in Handles, Register(h) PROVE Hub!Add(h)
  <2>1. Hub!Settled /\ loop = "before" /\ Outcome[h] = "none" /\ loop' = loop
    BY <1>1, WaitingSettled DEF Register, Waiting, Outcome
  <2>2. \E to \in {"running", "refused"} : Outcome' = [Outcome EXCEPT ![h] = to]
    BY <1>1, OutcomeMoves DEF Register
  <2> QED
    BY <2>1, <2>2 DEF Hub!Add, Hub!Move
<1>2. ASSUME NEW h \in Handles, Finish(h) PROVE Hub!End(h)
  <2>1. loop # "over" /\ loop' = loop /\ Outcome[h] = "running"
    BY <1>2 DEF Finish, InCall, HInv, Held, Outcome
  <2>2. Outcome' = [Outcome EXCEPT ![h] = "done"]
    BY <1>2, OutcomeMoves DEF Finish
  <2> QED
    BY <2>1, <2>2 DEF Hub!End, Hub!Move
<1>3. ASSUME NEW h \in Handles, ReadMessage(h) PROVE UNCHANGED <<Outcome, loop>>
  BY <1>3 DEF ReadMessage, Taken, Outcome, HInv, TypeOK
<1>4. ASSUME NEW h \in Handles, CallBack(h) PROVE Hub!CallBack(h)
  <2>1. transfer[h] = "read"
    <3>1. Len(calls) \in 1..Len(calls) /\ calls[Len(calls)] = h
      BY <1>4 DEF CallBack, InCall, HInv, TypeOK
    <3> QED
      BY <3>1 DEF HInv, HandleOutlivesNested
  <2>2. loop # "over" /\ loop' = loop /\ Outcome[h] = "done"
    BY <1>4, <2>1 DEF CallBack, InCall, HInv, Held, Outcome
  <2>3. Outcome' = [Outcome EXCEPT ![h] = "called"]
    BY <1>4, OutcomeMoves DEF CallBack
  <2> QED
    BY <2>2, <2>3 DEF Hub!CallBack, Hub!Move
<1>5. CASE StartLoop
  <2>1. Hub!Settled /\ Outcome' = Outcome
    BY <1>5, WaitingSettled DEF StartLoop, Waiting, Outcome
  <2> QED
    BY <1>5, <2>1 DEF StartLoop, Hub!Start, Hub!Next
<1>6. CASE LoopReturns
  <2>1. \A h \in Handles : transfer[h] # "running"
    BY <1>6 DEF LoopReturns, Waiting, HInv, Timed, Told, InCall
  <2>2. \A h \in Handles : Outcome[h] # "running"
    BY <2>1 DEF Outcome
  <2>3. Hub!Settled /\ Outcome' = Outcome
    BY <1>6, WaitingSettled DEF LoopReturns, Waiting, Outcome
  <2> QED
    BY <2>2, <2>3, <1>6 DEF LoopReturns, Hub!Return, Hub!Next
<1>7. CASE \/ EndAction \/ Checked \/ TimerFires \/ Over \/ UNCHANGED vars
           \/ \E h \in Handles : SocketFires(h) \/ Proceed(h)
  BY <1>7 DEF EndAction, Checked, TimerFires, Over, vars, SocketFires, Proceed, Outcome
<1> QED
  BY <1>1, <1>2, <1>3, <1>4, <1>5, <1>6, <1>7 DEF Next, Handling, Hub!Next

\* The event hub keeps what TransferHub promises to the Postman.
THEOREM HubImplemented == Spec => ImplementsHub
<1>1. Init => Hub!Init
  BY DEF Init, Hub!Init, Outcome
<1> QED
  BY <1>1, HubStep, HubInvariant, PTL DEF Spec, ImplementsHub, Hub!Spec

=============================================================================
