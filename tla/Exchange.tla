------------------------------ MODULE Exchange -------------------------------
(***************************************************************************)
(* What the HTTP front end promises its clients: a transaction gets one    *)
(* reply, after its request has been read and before it is over; weights   *)
(* only for a request for a model that has a body, the empty reply exactly *)
(* for requests for anything else; and a handler that lives from the       *)
(* request to the end of the transaction.                                  *)
(***************************************************************************)
EXTENDS Sequences

CONSTANTS
  Transactions,
  Urls,       \* the paths clients may send
  ModelUrls,  \* those of models
  Pieces      \* parts of a body

VARIABLES
  stage,     \* "none", "asking", "read" (the request), "complete", "failed"
  url, sent, \* the request: its path, and its body so far
  replies,
  handlers   \* the transactions that have a handler

exchangeVars == <<stage, url, sent, replies, handlers>>

Init ==
  /\ stage = [c \in Transactions |-> "none"]
  /\ url = [c \in Transactions |-> <<>>]
  /\ sent = [c \in Transactions |-> <<>>]
  /\ replies = [c \in Transactions |-> <<>>]
  /\ handlers = {}

Move(c, from, to) ==
  /\ stage[c] \in from
  /\ stage' = [stage EXCEPT ![c] = to]

Ask(c) ==
  /\ Move(c, {"none"}, "asking")
  /\ \E u \in Urls : url' = [url EXCEPT ![c] = u]
  /\ handlers' = handlers \cup {c}
  /\ UNCHANGED <<sent, replies>>

Send(c) ==
  /\ stage[c] = "asking"
  /\ \E piece \in Pieces : sent' = [sent EXCEPT ![c] = Append(@, piece)]
  /\ UNCHANGED <<stage, url, replies, handlers>>

\* The replies a request may get.
Fitting(c) ==
  IF url[c] \notin ModelUrls THEN {"empty"}
  ELSE IF sent[c] = <<>> THEN {"reason"} ELSE {"weights", "reason"}

Answer(c) ==
  /\ replies[c] = <<>>
  /\ \E reply \in Fitting(c) : replies' = [replies EXCEPT ![c] = <<reply>>]

\* The request is complete; it may be answered at once.
Read(c) ==
  /\ Move(c, {"asking"}, "read")
  /\ Answer(c) \/ UNCHANGED replies
  /\ UNCHANGED <<url, sent, handlers>>

Reply(c) ==
  /\ stage[c] = "read"
  /\ Answer(c)
  /\ UNCHANGED <<stage, url, sent, handlers>>

\* A transaction completes only after its reply.
End(c) ==
  /\ \/ replies[c] # <<>> /\ Move(c, {"read"}, "complete")
     \/ Move(c, {"asking", "read"}, "failed")
  /\ handlers' = handlers \ {c}
  /\ UNCHANGED <<url, sent, replies>>

Next == \E c \in Transactions : Ask(c) \/ Send(c) \/ Read(c) \/ Reply(c) \/ End(c)

Spec == Init /\ [][Next]_exchangeVars

=============================================================================
