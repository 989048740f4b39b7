----------------------------- MODULE AtLeastOnce -----------------------------
(***************************************************************************)
(* What the email pipeline promises: a message leaves the queue for good   *)
(* only after its mail has been sent, or because it can never be decoded,  *)
(* or because it outlived the retention of the stream.  Mails may be sent  *)
(* more than once.                                                         *)
(***************************************************************************)
CONSTANTS Message, Undecodable

VARIABLES status,  \* status[m]: "none", "queued", "settled" or "dropped"
          mailed   \* the messages whose mail was sent, at least once

vars == <<status, mailed>>

Init == status = [m \in Message |-> "none"] /\ mailed = {}

Enqueue(m) ==
  /\ status[m] = "none"
  /\ status' = [status EXCEPT ![m] = "queued"]
  /\ UNCHANGED mailed

Mail(m) ==
  /\ status[m] # "none" /\ m \notin Undecodable
  /\ mailed' = mailed \cup {m}
  /\ UNCHANGED status

Settle(m) ==
  /\ status[m] = "queued"
  /\ m \in mailed \cup Undecodable
  /\ status' = [status EXCEPT ![m] = "settled"]
  /\ UNCHANGED mailed

Drop(m) ==
  /\ status[m] = "queued"
  /\ status' = [status EXCEPT ![m] = "dropped"]
  /\ UNCHANGED mailed

Next == \E m \in Message : Enqueue(m) \/ Mail(m) \/ Settle(m) \/ Drop(m)

Spec == Init /\ [][Next]_vars
=============================================================================
