--------------------------- MODULE ConnectionService ---------------------------
(***************************************************************************)
(* What a connection promises its application, whatever happens inside:    *)
(* the contract that cacophony/src/connection/handle.rs offers.            *)
(*                                                                         *)
(* A call is accepted only while the driver lives, and whoever waits when  *)
(* it ends is answered in that very step.  close_and_wait returns only     *)
(* after the end; one of its callers consumes the driver's result.         *)
(***************************************************************************)
CONSTANTS Request, Waiter, None

VARIABLES
  open,      \* Connection::running
  ended,     \* the driver task is over
  outcome,   \* what it returned
  call,      \* the state of each request: "idle", "waiting", "gone" or its answer
  wait,      \* the state of each close_and_wait
  reported   \* a close_and_wait has consumed the outcome

vars == <<open, ended, outcome, call, wait, reported>>

Reply == {"Ok", "Failed", "Closed"}

Outcome == {"Ok", "Failed"}

Init ==
  /\ open = TRUE /\ ended = FALSE /\ outcome = None
  /\ call = [r \in Request |-> "idle"]
  /\ wait = [w \in Waiter |-> "idle"] /\ reported = FALSE

(* A call waits for its reply.                                             *)
Accept(r) ==
  /\ ~ended /\ call[r] = "idle"
  /\ call' = [call EXCEPT ![r] = "waiting"]
  /\ UNCHANGED <<open, ended, outcome, wait, reported>>

(* A call returns at once: refused, or nothing to wait for.                *)
Refuse(r) ==
  /\ call[r] = "idle"
  /\ \E reply \in Reply : call' = [call EXCEPT ![r] = reply]
  /\ UNCHANGED <<open, ended, outcome, wait, reported>>

(* Its caller drops it.                                                    *)
Leave(r) ==
  /\ call[r] \in {"idle", "waiting"}
  /\ call' = [call EXCEPT ![r] = "gone"]
  /\ UNCHANGED <<open, ended, outcome, wait, reported>>

(* Some of those that wait are answered, no call changes otherwise, and    *)
(* the connection may close.                                               *)
Serve ==
  /\ ~ended
  /\ call' \in [Request -> Reply \cup {"idle", "waiting", "gone"}]
  /\ \A r \in Request : call'[r] # call[r] => call[r] = "waiting" /\ call'[r] \in Reply
  /\ open' \in {open, FALSE}
  /\ UNCHANGED <<ended, outcome, wait, reported>>

(* A closed connection ends: nobody is left waiting for a reply.           *)
End ==
  /\ ~ended /\ ~open
  /\ ended' = TRUE /\ outcome' \in Outcome
  /\ call' \in [Request -> Reply \cup {"idle", "gone"}]
  /\ \A r \in Request : call'[r] # call[r] => call[r] = "waiting" /\ call'[r] \in Reply
  /\ UNCHANGED <<open, wait, reported>>

Wait(w) ==
  /\ ~open /\ wait[w] = "idle"
  /\ wait' = [wait EXCEPT ![w] = "waiting"]
  /\ UNCHANGED <<open, ended, outcome, call, reported>>

LeaveWait(w) ==
  /\ wait[w] = "waiting"
  /\ wait' = [wait EXCEPT ![w] = "gone"]
  /\ UNCHANGED <<open, ended, outcome, call, reported>>

(* The first to return has the outcome, unless it was lost on a caller     *)
(* that had gone.                                                          *)
Return(w) ==
  /\ ended /\ wait[w] = "waiting"
  /\ wait' = [wait EXCEPT ![w] = IF reported THEN "Ok" ELSE outcome]
  /\ reported' = TRUE
  /\ UNCHANGED <<open, ended, outcome, call>>

Lose ==
  /\ ended /\ \E w \in Waiter : wait[w] = "gone"
  /\ reported' = TRUE
  /\ UNCHANGED <<open, ended, outcome, call, wait>>

Next ==
  \/ \E r \in Request : Accept(r) \/ Refuse(r) \/ Leave(r)
  \/ Serve \/ End
  \/ \E w \in Waiter : Wait(w) \/ LeaveWait(w) \/ Return(w)
  \/ Lose

Safety == Init /\ [][Next]_vars

(* A closed connection ends, and close_and_wait returns.                   *)
Progress ==
  /\ ~open ~> ended
  /\ \A w \in Waiter : wait[w] = "waiting" ~> wait[w] # "waiting"

Spec == Safety /\ Progress
=============================================================================
