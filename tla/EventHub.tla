------------------------------- MODULE EventHub -------------------------------
(***************************************************************************)
(* EventHub and MultiCURL: libcurl's multi interface driven by libevent,   *)
(* in one thread.                                                          *)
(*                                                                         *)
(* libcurl tells the program when it wants to be called: curl_sock_handler *)
(* keeps an event per socket, curl_timer_handler one timer for all         *)
(* transfers.  When nothing is left to wait for, the timer callback calls  *)
(* libcurl at once, and then reads the messages of ended transfers.  That  *)
(* happens inside whatever call of libcurl made the callback: adding a     *)
(* transfer, an action of another handler, or the removal of a transfer    *)
(* whose own message is just being handled.  `calls` is that nesting.      *)
(*                                                                         *)
(* libcurl (a release that lets callbacks call it) and libevent are        *)
(* external.                                                               *)
(***************************************************************************)
EXTENDS Integers, Sequences

CONSTANTS
  Handles,   \* transfers of one hub
  MaxDepth   \* bound: at this depth libcurl finishes what is due in one call

ASSUME EventHubAssumption ==
  /\ MaxDepth \in Nat \ {0}
  /\ Handles \cap {"action", "check"} = {}

VARIABLES
  transfer,   \* per handle: "none", "running", "refused", "done" (its message
              \* is queued), "read" (and removed), "called" (and deleted)
  due,        \* per handle, libcurl's timer: "none", "now", "later"
  watched,    \* handles whose socket has an event in libevent
  ev_timer_,  \* whether it is pending
  calls,      \* the handlers the thread is in: "action" (in libcurl), "check"
              \* (in check_multi_info), h (there, between reading and cb of h)
  loop        \* event_base_loop: "before", "running", "over"

vars == <<transfer, due, watched, ev_timer_, calls, loop>>

With(status) == {h \in Handles : transfer[h] = status}
Due(d, when) == {h \in Handles : d[h] = when}

InCall(c) == calls # <<>> /\ calls[Len(calls)] = c
Below     == SubSeq(calls, 1, Len(calls) - 1)
Waiting   == calls = <<>> /\ loop # "over"

Init ==
  /\ transfer = [h \in Handles |-> "none"]
  /\ due = [h \in Handles |-> "none"]
  /\ watched = {}
  /\ ev_timer_ = FALSE
  /\ calls = <<>>
  /\ loop = "before"

\* Time passes: some timers that were set are due now.
Elapsed(d) ==
  {[h \in Handles |-> IF h \in S THEN "now" ELSE d[h]] : S \in SUBSET Due(d, "later")}

\* Mutant of TimerHandler: a timeout of 0 is left to the next wake-up.
TimerHandlerWaits(d, inside) ==
  /\ due' = d
  /\ calls' = inside
  /\ IF Due(d, "later") # {} THEN ev_timer_' = TRUE ELSE ev_timer_' \in {FALSE, ev_timer_}

\* Before libcurl returns from a call it tells its next timeout.  0: call libcurl
\* at once, from inside; none: evtimer_del (libcurl says nothing when it said so
\* last, or since a timeout was handled); otherwise: evtimer_add.
TimerHandler(d, inside) ==
  /\ Due(d, "now") # {} => Len(inside) < MaxDepth
  /\ due' = d
  /\ IF Due(d, "now") # {}
     THEN calls' = Append(inside, "action") /\ UNCHANGED ev_timer_
     ELSE /\ calls' = inside
          /\ IF Due(d, "later") # {} THEN ev_timer_' = TRUE
                                     ELSE ev_timer_' \in {FALSE, ev_timer_}

-----------------------------------------------------------------------------
\* register_event: create and add.
Register(h) ==
  /\ Waiting /\ loop = "before"
  /\ transfer[h] = "none"
  /\ \/ /\ transfer' = [transfer EXCEPT ![h] = "running"]
        /\ TimerHandler([due EXCEPT ![h] = "now"], <<>>)
     \/ /\ transfer' = [transfer EXCEPT ![h] = "refused"]
        /\ UNCHANGED <<due, ev_timer_, calls>>
  /\ UNCHANGED <<watched, loop>>

StartLoop ==
  /\ Waiting /\ loop = "before"
  /\ loop' = "running"
  /\ UNCHANGED <<transfer, due, watched, ev_timer_, calls>>

\* ev_timer_handler
TimerFires ==
  /\ Waiting /\ loop = "running"
  /\ ev_timer_
  /\ ev_timer_' = FALSE
  /\ due' \in Elapsed(due)
  /\ Due(due, "later") # {} => Due(due', "now") # {}
  /\ calls' = <<"action">>
  /\ UNCHANGED <<transfer, watched, loop>>

\* ev_event_handler: the socket is ready, or the timeout of its event is over.
SocketFires(h) ==
  /\ Waiting /\ loop = "running"
  /\ h \in watched
  /\ calls' = <<"action">>
  /\ UNCHANGED <<transfer, due, watched, ev_timer_, loop>>

-----------------------------------------------------------------------------
(* Inside curl_multi_socket_action.                                        *)

\* Mutant of Timers: timeout_ms, 0 by default, is "no limit".
TimersUnlimited == {"none", "now", "later"}

\* The timer of a running transfer: create sets CURLOPT_TIMEOUT_MS.
Timers == {"now", "later"}

\* A transfer gets on; its socket may be added to the events or removed.
Proceed(h) ==
  /\ InCall("action")
  /\ transfer[h] = "running"
  /\ \E t \in Timers : due' = [due EXCEPT ![h] = t]
  /\ watched' \in {watched \cup {h}, watched \ {h}}
  /\ UNCHANGED <<transfer, ev_timer_, calls, loop>>

\* It was answered, it failed, or its time is over.
Finish(h) ==
  /\ InCall("action")
  /\ transfer[h] = "running"
  /\ transfer' = [transfer EXCEPT ![h] = "done"]
  /\ due' = [due EXCEPT ![h] = "none"]
  /\ watched' = watched \ {h}
  /\ UNCHANGED <<ev_timer_, calls, loop>>

\* curl_multi_socket_action tells its timeout and returns; check_multi_info.
EndAction ==
  /\ InCall("action")
  /\ TimerHandler(due, Append(Below, "check"))
  /\ UNCHANGED <<transfer, watched, loop>>

-----------------------------------------------------------------------------
(* check_multi_info.                                                       *)

\* Mutant of Taken: the message stays in the queue while it is handled.
TakenLater == "done"

Taken == "read"

\* curl_multi_info_read and curl_multi_remove_handle, which tells the timeout.
ReadMessage(h) ==
  /\ InCall("check")
  /\ transfer[h] = "done"
  /\ transfer' = [transfer EXCEPT ![h] = Taken]
  /\ \E d \in Elapsed(due) : TimerHandler(d, Append(Below, h))
  /\ UNCHANGED <<watched, loop>>

\* handle->cb and delete; then the next message.
CallBack(h) ==
  /\ InCall(h)
  /\ transfer' = [transfer EXCEPT ![h] = "called"]
  /\ calls' = Append(Below, "check")
  /\ UNCHANGED <<due, watched, ev_timer_, loop>>

\* Mutant of NoMessage: `if` instead of `while`.
NoMessageAfterOne == TRUE

NoMessage == With("done") = {}

\* The handler returns to the call of libcurl it was called from.
Checked ==
  /\ InCall("check")
  /\ NoMessage
  /\ calls' = Below
  /\ UNCHANGED <<transfer, due, watched, ev_timer_, loop>>

\* event_base_loop returns when no event is pending.
LoopReturns ==
  /\ Waiting /\ loop = "running"
  /\ ~ev_timer_ /\ watched = {}
  /\ loop' = "over"
  /\ UNCHANGED <<transfer, due, watched, ev_timer_, calls>>

-----------------------------------------------------------------------------
Handling ==
  \/ EndAction \/ Checked
  \/ \E h \in Handles : ReadMessage(h) \/ CallBack(h)
  \/ StartLoop \/ LoopReturns

Over == loop = "over" /\ UNCHANGED vars

Next ==
  \/ Handling
  \/ TimerFires
  \/ \E h \in Handles : Register(h) \/ SocketFires(h) \/ Proceed(h) \/ Finish(h)
  \/ Over

Spec == Init /\ [][Next]_vars

TimedOut(h) == due[h] = "now" /\ Finish(h)

\* The thread runs, and libevent looks at its timers in every round of the loop,
\* however busy the sockets are.  A transfer whose timer is due again and again
\* ends, by CURLOPT_TIMEOUT_MS at the latest; of sockets nothing is assumed.
Fairness ==
  /\ WF_vars(Handling)
  /\ SF_vars(TimerFires)
  /\ SF_vars(\E h \in Handles : TimedOut(h))

FairSpec == Spec /\ Fairness

-----------------------------------------------------------------------------
(* Properties.                                                             *)

\* Type invariant.
TypeOK ==
  /\ transfer \in [Handles -> {"none", "running", "refused", "done", "read", "called"}]
  /\ due \in [Handles -> {"none", "now", "later"}]
  /\ watched \subseteq Handles
  /\ ev_timer_ \in BOOLEAN
  /\ calls \in Seq({"action", "check"} \cup Handles)
  /\ loop \in {"before", "running", "over"}

\* A check_multi_info that libcurl calls while another is removing a handle
\* neither calls back nor deletes that handle: the outer one still finds it, and
\* no handle is in two of them.
HandleOutlivesNested ==
  \A k \in 1..Len(calls) : calls[k] \in Handles =>
    /\ transfer[calls[k]] = "read"
    /\ \A l \in 1..Len(calls) : calls[l] = calls[k] => l = k

\* While the thread is not inside libcurl, the timer is pending for every transfer
\* that runs: none is forgotten, whichever call of libcurl was the last to tell a
\* timeout.
Attended == Waiting => \A h \in With("running") : ev_timer_ /\ due[h] = "later"

\* What the Postman relies on.
Outcome == [h \in Handles |-> IF transfer[h] = "read" THEN "done" ELSE transfer[h]]
Hub == INSTANCE TransferHub WITH Transfers <- Handles, transfer <- Outcome
ImplementsHub == Hub!Spec

\* start() returns: no silent server and no nesting of handlers keeps the thread.
LoopEnds == (loop = "running") ~> (loop = "over")

=============================================================================
