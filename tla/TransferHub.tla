----------------------------- MODULE TransferHub -----------------------------
(***************************************************************************)
(* What the event hub promises to a Postman: every transfer that libcurl   *)
(* took ends, and then calls back once; the thread is given back, by       *)
(* register_event or by start(), only when each transfer that ended has    *)
(* called back; and start() returns only when none is running.             *)
(***************************************************************************)
CONSTANTS
  Transfers

VARIABLES
  transfer,  \* "none", "running", "refused", "done" (it ended), "called"
  loop       \* start(): "before" the call, "running", "over"

hubVars == <<transfer, loop>>

Init ==
  /\ transfer = [t \in Transfers |-> "none"]
  /\ loop = "before"

\* No transfer has ended without calling back.
Settled == \A t \in Transfers : transfer[t] # "done"

Move(t, from, to) ==
  /\ transfer[t] = from
  /\ transfer' = [transfer EXCEPT ![t] = to]

Add(t) ==
  /\ loop = "before" /\ Settled
  /\ \E to \in {"running", "refused"} : Move(t, "none", to)
  /\ UNCHANGED loop

End(t) ==
  /\ loop # "over"
  /\ Move(t, "running", "done")
  /\ UNCHANGED loop

CallBack(t) ==
  /\ loop # "over"
  /\ Move(t, "done", "called")
  /\ UNCHANGED loop

Start ==
  /\ loop = "before" /\ Settled
  /\ loop' = "running"
  /\ UNCHANGED transfer

Return ==
  /\ loop = "running" /\ Settled
  /\ \A t \in Transfers : transfer[t] # "running"
  /\ loop' = "over"
  /\ UNCHANGED transfer

Next ==
  \/ \E t \in Transfers : Add(t) \/ End(t) \/ CallBack(t)
  \/ Start \/ Return

Spec == Init /\ [][Next]_hubVars

=============================================================================
