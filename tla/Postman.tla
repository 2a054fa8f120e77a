------------------------------- MODULE Postman -------------------------------
(***************************************************************************)
(* TGProxyPostman: one request, from its body to its reply.                *)
(*                                                                         *)
(* A single thread checks the body, cuts the features into slices          *)
(* (RangeSlicer), registers one transfer per slice with the event hub, runs*)
(* the hub, and puts the answers together.  Of the hub it takes what       *)
(* TransferHub promises and EventHub keeps: the callbacks run on the same  *)
(* thread, in the order the messages are read in, some of them while other *)
(* slices are still being registered.                                      *)
(*                                                                         *)
(* Which server a slice goes to (get_ms_url) makes no difference here: any *)
(* of them may give any answer.  libcurl, libevent and the model servers   *)
(* are external.  A weight is named by the key it is the weight of.        *)
(***************************************************************************)
EXTENDS RangeSlicer

CONSTANTS
  Requests,   \* the bodies a request may have
  Answers,    \* kinds of answers the model servers may give
  NotKey      \* a member of "features" that is not a uint64; also the name of a
              \* weight nobody asked for

ASSUME PostmanAssumption ==
  /\ NotKey \notin Key
  /\ Requests \subseteq
       [form : {"absent", "broken", "scalar", "noFeatures", "notArray", "array"},
        items : Seq(Key \cup {NotKey}),
        count : Int]
  /\ Answers \subseteq {"whole", "short", "long", "empty", "broken", "scalar",
                        "unknown", "refused", "integers", "failed"}

VARIABLES
  pc,         \* where the request is
  request,    \* its body
  partition,  \* index of the loops over slices_
  transfer,   \* per partition: its transfer (TransferHub)
  loop,       \* hub_'s event loop (TransferHub)
  arrived,    \* per partition: what its transfer brought
  weights_,   \* per partition: the body saved by the callback
  reply       \* the weights decoded so far

postmanVars == <<pc, request, partition, transfer, loop, arrived, weights_, reply>>
vars == <<slicerVars, postmanVars>>

hubVars == <<transfer, loop, arrived, weights_>>

Hub == INSTANCE TransferHub WITH Transfers <- Parts

Body(kind, list) == [kind |-> kind, list |-> list]
NoBody == Body("empty", <<>>)

\* What a server may answer when asked for the keys of s: all their weights,
\* all but one, one more, or something else ("failed": no answer with status 200).
BodyFor(s, kind) ==
  CASE kind = "whole" -> Body("weights", s)
    [] kind = "short" -> Body("weights", SubSeq(s, 1, Len(s) - 1))
    [] kind = "long"  -> Body("weights", Append(s, NotKey))
    [] OTHER          -> Body(kind, <<>>)

-----------------------------------------------------------------------------
Init ==
  /\ keys = <<>> /\ SlicerInit
  /\ pc = "check"
  /\ request \in Requests
  /\ partition = 0
  /\ Hub!Init
  /\ arrived = [p \in Parts |-> NoBody]
  /\ weights_ = [p \in Parts |-> NoBody]
  /\ reply = <<>>

\* What checkRequest lets pass.  (A count of -1 counts as missing.)
Acceptable ==
  /\ request.form = "array"
  /\ request.items \in Seq(Key)
  /\ request.items # <<>>
  /\ request.count \in {-1, Len(request.items)}

\* tgpExpress and checkRequest.  Members are looked up before anything tells
\* that the document is an object: rapidjson asserts it.
CheckRequest ==
  /\ pc = "check"
  /\ IF Acceptable
     THEN keys' = request.items /\ pc' = "slice"
     ELSE /\ UNCHANGED keys
          /\ pc' = IF request.form = "scalar" THEN "aborted" ELSE "error"
  /\ UNCHANGED <<stage, part, pos, slices, request, partition, hubVars, reply>>

\* slicer_.slice(features_, slices_)
Slice ==
  /\ pc = "slice"
  /\ SlicerNext
  /\ pc' = IF stage' = "sliced" THEN "register" ELSE "slice"
  /\ UNCHANGED <<request, partition, hubVars, reply>>

-----------------------------------------------------------------------------
(* The loop of tranferRequest.                                             *)

Here == slices[partition]

NextPartition == partition' = partition + 1

\* The loop goes on when register_event returned.
Registering ==
  /\ pc = "register" /\ Hub!Settled
  /\ partition < RangeCount

SkipEmpty ==
  /\ Registering
  /\ Here = <<>>
  /\ NextPartition
  /\ UNCHANGED <<slicerVars, pc, request, hubVars, reply>>

\* register_event.  When libcurl refuses the handle, no callback will ever come.
Register ==
  /\ Registering
  /\ Here # <<>>
  /\ Hub!Add(partition)
  /\ NextPartition
  /\ UNCHANGED <<slicerVars, pc, request, arrived, weights_, reply>>

\* tranferRequest returns and answerRequest starts the event loop.
StartHub ==
  /\ pc = "register"
  /\ partition = RangeCount
  /\ Hub!Start
  /\ pc' = "loop"
  /\ partition' = 0
  /\ UNCHANGED <<slicerVars, request, arrived, weights_, reply>>

-----------------------------------------------------------------------------
(* The event hub.                                                          *)

\* A transfer ends and brings one of some kinds of answers.
Ends(p, kinds) ==
  /\ Hub!End(p)
  /\ \E kind \in kinds \cap Answers :
       arrived' = [arrived EXCEPT ![p] = BodyFor(slices[p], kind)]
  /\ UNCHANGED <<slicerVars, pc, request, partition, weights_, reply>>

\* The server answered, or the connection failed.
Complete(p) == Ends(p, Answers)

\* Mutant of TimeOut: register_event's default timeout_ms, 0, is "no limit".
TimeOutNever(p) == FALSE /\ Ends(p, {})

\* 2000 ms are over.  Without the status line nothing is saved; after status 200
\* whatever came of the body is.
TimeOut(p) == Ends(p, {"failed", "empty", "broken", "whole"})

\* Mutant of Save: the answers are saved in the order they come in.
SaveInOrder(p) ==
  LET free == {q \in Parts : slices[q] # <<>> /\ weights_[q] = NoBody}
  IN IF arrived[p].kind = "failed" \/ free = {} THEN UNCHANGED weights_
     ELSE weights_' = [weights_ EXCEPT
                         ![CHOOSE q \in free : \A r \in free : q <= r] = arrived[p]]

\* MSReplyCallback looks at the status only, and not at the CURLcode: a body
\* cut off after status 200 is saved, too.
Save(p) ==
  IF arrived[p].kind = "failed" THEN UNCHANGED weights_
  ELSE weights_' = [weights_ EXCEPT ![p] = arrived[p]]

ReadMessage(p) ==
  /\ Hub!CallBack(p)
  /\ Save(p)
  /\ UNCHANGED <<slicerVars, pc, request, partition, arrived, reply>>

\* start() returns.
HubReturns ==
  /\ pc = "loop"
  /\ Hub!Return
  /\ pc' = "answer"
  /\ UNCHANGED <<slicerVars, request, partition, arrived, weights_, reply>>

-----------------------------------------------------------------------------
(* The loop of answerRequest.                                              *)

\* decodeMSWeights on an answer that is an object with the right members.
Decodes(body) == body.kind = "weights"

Answering(p) ==
  /\ pc = "answer"
  /\ partition = p

\* Mutant of SkipPartition: one without an answer is skipped, too.
SkipUnanswered(p) == slices[p] = <<>> \/ weights_[p] = NoBody

SkipPartition(p) == slices[p] = <<>>

AnswerPartition(p) ==
  /\ Answering(p)
  /\ SkipPartition(p) \/ Decodes(weights_[p])
  /\ reply' = IF SkipPartition(p) THEN reply ELSE reply \o weights_[p].list
  /\ NextPartition
  /\ UNCHANGED <<slicerVars, pc, request, hubVars>>

\* No answer, or one that cannot be decoded.
AnswerFails(p) ==
  /\ Answering(p)
  /\ ~SkipPartition(p) /\ ~Decodes(weights_[p])
  /\ pc' = IF weights_[p].kind = "scalar" THEN "aborted" ELSE "error"
  /\ UNCHANGED <<slicerVars, request, partition, hubVars, reply>>

\* A reply without any weight is an error; onEOM sends status 200 either way.
Finish ==
  /\ Answering(RangeCount)
  /\ pc' = IF reply = <<>> THEN "error" ELSE "ok"
  /\ UNCHANGED <<slicerVars, request, partition, hubVars, reply>>

-----------------------------------------------------------------------------
\* onEOM sends the client weights or a reason.
Replied == {"ok", "error"}

\* Or nothing any more: an assertion of rapidjson has ended the server.
Final == Replied \cup {"aborted"}

Express ==
  \/ CheckRequest \/ Slice
  \/ SkipEmpty \/ Register \/ StartHub
  \/ HubReturns
  \/ \E p \in Parts : ReadMessage(p) \/ AnswerPartition(p) \/ AnswerFails(p)
  \/ Finish

Answered == pc \in Final /\ UNCHANGED vars

Next ==
  \/ Express
  \/ \E p \in Parts : Complete(p) \/ TimeOut(p)
  \/ Answered

Spec == Init /\ [][Next]_vars

\* The thread runs, and libcurl ends every transfer after CURLOPT_TIMEOUT_MS.
\* Nothing is assumed of the model servers.
Fairness ==
  /\ WF_vars(Express)
  /\ WF_vars(\E p \in Parts : TimeOut(p))

FairSpec == Spec /\ Fairness

-----------------------------------------------------------------------------
(* Properties.                                                             *)

\* Type invariant.
TypeOK ==
  /\ SlicerTypeOK
  /\ pc \in {"check", "slice", "register", "loop", "answer"} \cup Final
  /\ request \in Requests
  /\ partition \in 0..RangeCount
  /\ transfer \in [Parts -> {"none", "running", "refused", "done", "called"}]
  /\ loop \in {"before", "running", "over"}
  /\ reply \in Seq(Key \cup {NotKey})
  /\ \A p \in Parts :
       /\ arrived[p].kind \in Answers \cup {"weights", "empty"}
       /\ weights_[p].kind \in Answers \cup {"weights", "empty"}

Asked == {p \in Parts : slices[p] # <<>>}

\* One server that failed makes the whole request fail: a reply with weights
\* rests on the answer of every server that was asked, and on the answer it gave
\* for that partition.
EveryServerAnswered ==
  pc = "ok" =>
    \A p \in Asked : /\ transfer[p] = "called"
                     /\ arrived[p].kind = "weights"
                     /\ weights_[p] = arrived[p]

\* Every server up to partition p answered with as many weights as asked for.
Exact(p) == \A q \in 0..p : Len(arrived[q].list) = Len(slices[q])

\* From end to end: the weights of a partition stand in the reply where its
\* features stand in the request, in whatever order the answers came, as long as no
\* server up to it answered with more or fewer weights than it was asked for (which
\* nothing compares); and when none did, no feature of any slice is without one.
ReplyAligned ==
  pc = "ok" =>
    /\ \A p \in Parts : Exact(p) =>
         \A j \in (pos[p] + 1)..pos[p + 1] : j <= Len(reply) /\ reply[j] = request.items[j]
    /\ Exact(RangeCount - 1) => Len(reply) = pos[RangeCount]

\* A JSON document that is no object comes before anything else is wrong: as the
\* body, or saved from the server of a partition when all before it can be decoded.
ScalarMet ==
  \/ request.form = "scalar"
  \/ \E p \in Asked : /\ weights_[p].kind = "scalar"
                     /\ \A q \in Asked : q < p => Decodes(weights_[q])

\* However silent the model servers are, tgpExpress comes to an end within the
\* timeouts of its transfers, and the client gets a reply: unless the body, or the
\* answer of a model server, is a JSON document that is no object.  Then HasMember
\* ends the whole server in the Debug build that CMakeLists.txt:4 selects
\* (tgp_postman.cc:32 and 172).
RepliesUnlessScalar == <>(IF ScalarMet THEN pc = "aborted" ELSE pc \in Replied)

=============================================================================
