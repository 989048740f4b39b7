-------------------------- MODULE EmailWorkerProofs --------------------------
(***************************************************************************)
(* The email worker implements the abstract queue AtLeastOnce, for every   *)
(* set of messages and every limit.                                        *)
(*                                                                         *)
(* The refinement rests on what the client's copies of a message are       *)
(* evidence of: that the server knows the message (CopiesPublished), and,  *)
(* once the callback is about to ack, that the mail was sent               *)
(* (AckAfterMail).  Both must survive redelivery, expiry and crashes.      *)
(***************************************************************************)
EXTENDS EmailWorker, TLAPS

(* A message in the client's buffer or in work was published. *)
CopiesPublished ==
  /\ \A i \in 1 .. Len(inbox) : msg[inbox[i]] # "none"
  /\ work # Resting => msg[work.m] # "none"

(* Who is about to ack has sent the mail. *)
AckAfterMail == work.pc = "ack" => work.m \in mailed \ Undecodable

IInv == TypeOK /\ CopiesPublished /\ AckAfterMail

-----------------------------------------------------------------------------
(* The callback at rest is in none of the steps it takes with a message. *)
LEMMA AtRest == Resting.pc = "idle" /\ Resting.m = NoMessage
BY DEF Resting

(* A callback at work has the message it was called with. *)
LEMMA AtWork ==
  ASSUME TypeOK, work.pc \in {"decode", "ack"}
  PROVE  work # Resting /\ work.m \in Message
BY AtRest DEF TypeOK

(* Nothing was published, delivered or mailed yet. *)
LEMMA InitIInv == Init => IInv
<1> SUFFICES ASSUME Init PROVE IInv
  OBVIOUS
<1>1. TypeOK
  <2>1. stream \in BOOLEAN
    BY Zenon DEF Init
  <2> QED BY <2>1, FaultsAssumption DEF Init, TypeOK
<1>2. CopiesPublished /\ AckAfterMail
  BY AtRest DEF Init, CopiesPublished, AckAfterMail
<1> QED BY <1>1, <1>2 DEF IInv

(* Every step keeps the state well typed. *)
LEMMA TypeStep == TypeOK /\ [Next]_vars => TypeOK'
<1> SUFFICES ASSUME TypeOK, [Next]_vars PROVE TypeOK'
  OBVIOUS
<1> USE FaultsAssumption DEF processVars
<1>1. ASSUME NEW m \in Message, Publish(m) \/ Deliver(m) \/ AckTimeout(m) \/ Expire(m)
      PROVE  TypeOK'
  BY <1>1 DEF TypeOK, Publish, Deliver, AckTimeout, Expire
<1>2. CASE Take
  BY <1>2 DEF TypeOK, Take, At
<1>3. CASE Term
  BY <1>3, AtWork DEF TypeOK, Term, SettleAs
<1>4. CASE SendMail
  BY <1>4, AtWork DEF TypeOK, SendMail, At
<1>5. CASE Ack
  BY <1>5, AtWork DEF TypeOK, Ack, SettleAs
<1>6. CASE SettleLost
  BY <1>6 DEF TypeOK, SettleLost
<1>7. CASE Main \/ SetupFails \/ ConsumeFails \/ Stop \/ Crash
  <2> USE <1>7 DEF Main, Setup, Consume, Exit, SetupFails, ConsumeFails, Stop, Crash
  <2>1. stream' \in BOOLEAN
    BY Zenon DEF TypeOK
  <2>2. /\ inbox' = inbox \/ inbox' = << >>
        /\ work' = work \/ work' = Resting
        /\ main' = main \/ main' \in {"down", "ready", "consuming", "stopping"}
        /\ faults' = faults \/ Fault
        /\ msg' = msg /\ mailed' = mailed
    BY Zenon
  <2> HIDE <1>7
  <2>3. faults' \in 0 .. MaxFaults
    BY <2>2 DEF TypeOK, Fault
  <2>4. inbox' \in Seq(Message)
    <3>1. inbox \in Seq(Message) /\ << >> \in Seq(Message)
      BY DEF TypeOK
    <3> QED BY <2>2, <3>1, Zenon
  <2> QED BY <2>1, <2>2, <2>3, <2>4, Zenon DEF TypeOK
<1>8. CASE UNCHANGED vars
  BY <1>8 DEF TypeOK, vars
<1> QED BY <1>1, <1>2, <1>3, <1>4, <1>5, <1>6, <1>7, <1>8 DEF Next, Callback

(* No message that was published is ever unpublished, and mails are not    *)
(* taken back.                                                             *)
LEMMA NeverUnpublished ==
  ASSUME TypeOK, [Next]_vars
  PROVE  /\ \A m \in Message : msg[m] # "none" => msg'[m] # "none"
         /\ mailed \subseteq mailed'
<1> USE DEF processVars, TypeOK
<1>1. ASSUME NEW m \in Message, Publish(m) \/ Deliver(m) \/ AckTimeout(m) \/ Expire(m)
      PROVE  /\ \A n \in Message : msg[n] # "none" => msg'[n] # "none"
             /\ mailed' = mailed
  BY <1>1 DEF Publish, Deliver, AckTimeout, Expire
<1>2. CASE Callback
  BY <1>2, AtWork DEF Callback, Take, Term, SendMail, Ack, SettleAs
<1>3. CASE SettleLost \/ Main \/ SetupFails \/ ConsumeFails \/ Stop \/ Crash
  BY <1>3 DEF SettleLost, Main, Setup, Consume, Exit, SetupFails, ConsumeFails, Stop, Crash
<1>4. CASE UNCHANGED vars
  BY <1>4 DEF vars
<1> QED BY <1>1, <1>2, <1>3, <1>4 DEF Next

(* No step leaves the client with a copy of an unknown message, or about to ack before the mail. *)
LEMMA CopiesStep == IInv /\ [Next]_vars => CopiesPublished' /\ AckAfterMail'
<1> SUFFICES ASSUME IInv, [Next]_vars PROVE CopiesPublished' /\ AckAfterMail'
  OBVIOUS
<1> USE DEF processVars
<1>1. /\ TypeOK /\ inbox \in Seq(Message)
      /\ \A i \in 1 .. Len(inbox) : inbox[i] \in Message /\ msg[inbox[i]] # "none"
  BY DEF IInv, TypeOK, CopiesPublished
<1>2. /\ \A m \in Message : msg[m] # "none" => msg'[m] # "none"
      /\ mailed \subseteq mailed'
  BY <1>1, NeverUnpublished
(* The steps that leave the buffer and the callback alone. *)
<1>3. CASE UNCHANGED <<inbox, work>>
  BY <1>1, <1>2, <1>3 DEF IInv, TypeOK, CopiesPublished, AckAfterMail
<1>4. ASSUME NEW m \in Message, Deliver(m)
      PROVE  CopiesPublished' /\ AckAfterMail'
  BY <1>1, <1>2, <1>4 DEF IInv, TypeOK, Deliver, CopiesPublished, AckAfterMail
<1>5. CASE Take
  <2>1. /\ work' = At("decode", Head(inbox)) /\ inbox' = Tail(inbox)
        /\ inbox # << >> /\ msg' = msg
    BY <1>5 DEF Take
  <2>2. Head(inbox) = inbox[1] /\ 1 \in 1 .. Len(inbox)
    BY <1>1, <2>1
  <2>3. \A i \in 1 .. Len(inbox') : inbox'[i] = inbox[i + 1] /\ i + 1 \in 1 .. Len(inbox)
    BY <1>1, <2>1
  <2> QED BY <1>1, <2>1, <2>2, <2>3 DEF At, CopiesPublished, AckAfterMail
<1>6. CASE SendMail
  <2>1. work' = At("ack", work.m) /\ mailed' = mailed \cup {work.m} /\ inbox' = inbox
    BY <1>6 DEF SendMail
  <2>2. work # Resting /\ work.m \in Message /\ work.m \notin Undecodable
    BY <1>1, <1>6, AtWork DEF SendMail
  <2>3. msg[work.m] # "none"
    BY <2>2 DEF IInv, CopiesPublished
  <2> QED BY <1>1, <1>2, <2>1, <2>2, <2>3 DEF At, CopiesPublished, AckAfterMail
<1>7. CASE work' = Resting /\ (inbox' = inbox \/ inbox' = << >>)
  BY <1>1, <1>2, <1>7, AtRest DEF CopiesPublished, AckAfterMail
<1>8. CASE work' = work /\ inbox' = << >>
  BY <1>1, <1>2, <1>8 DEF IInv, TypeOK, CopiesPublished, AckAfterMail
<1>9. \/ UNCHANGED <<inbox, work>>
      \/ \E m \in Message : Deliver(m)
      \/ Take \/ SendMail
      \/ work' = Resting /\ (inbox' = inbox \/ inbox' = << >>)
      \/ work' = work /\ inbox' = << >>
  BY DEF Next, vars, Publish, AckTimeout, Expire, Callback, Term, Ack, SettleLost,
         Main, Setup, Consume, Exit, SetupFails, ConsumeFails, Stop, Crash
<1> QED BY <1>3, <1>4, <1>5, <1>6, <1>7, <1>8, <1>9

(* In every reachable state the worker's copies are evidence as described. *)
THEOREM EmailInvariant == Spec => []IInv
<1>1. IInv /\ [Next]_vars => IInv'
  BY TypeStep, CopiesStep DEF IInv
<1> QED BY InitIInv, <1>1, PTL DEF Spec

(* The state stays well typed; a message is always in one of the states    *)
(* the JetStream consumer knows.                                           *)
THEOREM EmailTypeOK == Spec => []TypeOK
<1>1. IInv => TypeOK
  BY DEF IInv
<1> QED BY EmailInvariant, <1>1, PTL

-----------------------------------------------------------------------------
(* Initial states map to initial states. *)
LEMMA InitRefines == Init => Abstract!Init
<1> SUFFICES ASSUME Init PROVE Abstract!Init
  OBVIOUS
<1>1. \A m \in Message : Status(msg[m]) = "none"
  BY DEF Init, Status
<1> QED BY <1>1 DEF Init, Abstract!Init

(* A step that leaves mails alone and moves no message from one abstract   *)
(* status to another is a stuttering step of the queue.                    *)
LEMMA Stutters ==
  ASSUME UNCHANGED mailed, \A m \in Message : Status(msg'[m]) = Status(msg[m])
  PROVE  UNCHANGED Abstract!vars
BY DEF Abstract!vars

(* A step that moves one message moves that message only in the queue. *)
LEMMA StatusMoves ==
  ASSUME TypeOK, NEW m \in Message, NEW s \in {"pending", "delivered", "acked", "termed", "expired"},
         msg' = [msg EXCEPT ![m] = s]
  PROVE  [n \in Message |-> Status(msg'[n])] =
           [[n \in Message |-> Status(msg[n])] EXCEPT ![m] = Status(s)]
BY DEF TypeOK

(* Settling a message that the server still has is Settle of the queue; of *)
(* any other message, nothing.                                             *)
LEMMA SettleRefines ==
  ASSUME TypeOK, NEW m \in Message, m \in mailed \cup Undecodable,
         NEW how \in {"acked", "termed"}, SettleAs(m, how), UNCHANGED mailed
  PROVE  Abstract!Settle(m) \/ UNCHANGED Abstract!vars
<1>1. CASE msg[m] \in {"pending", "delivered"}
  <2>1. msg' = [msg EXCEPT ![m] = how]
    BY <1>1 DEF SettleAs, TypeOK
  <2>2. Status(how) = "settled" /\ Status(msg[m]) = "queued"
    BY <1>1 DEF Status
  <2> QED BY <2>1, <2>2, StatusMoves DEF Abstract!Settle
<1>2. CASE msg[m] \notin {"pending", "delivered"}
  BY <1>2, Stutters DEF SettleAs, TypeOK
<1> QED BY <1>1, <1>2

(* Every step of the worker, its client and its server is a step of the    *)
(* queue or leaves it alone.                                               *)
LEMMA StepRefines == IInv /\ [Next]_vars => [Abstract!Next]_(Abstract!vars)
<1> SUFFICES ASSUME IInv, [Next]_vars PROVE Abstract!Next \/ UNCHANGED Abstract!vars
  OBVIOUS
<1>1. TypeOK
  BY DEF IInv
<1>2. ASSUME NEW m \in Message, Publish(m)
      PROVE  Abstract!Enqueue(m)
  <2>1. msg' = [msg EXCEPT ![m] = "pending"] /\ msg[m] = "none" /\ UNCHANGED mailed
    BY <1>2 DEF Publish
  <2>2. Status("pending") = "queued" /\ Status(msg[m]) = "none"
    BY <2>1 DEF Status
  <2> QED BY <1>1, <2>1, <2>2, StatusMoves DEF Abstract!Enqueue
<1>3. ASSUME NEW m \in Message, Expire(m)
      PROVE  Abstract!Drop(m)
  <2>1. /\ msg' = [msg EXCEPT ![m] = "expired"] /\ UNCHANGED mailed
        /\ msg[m] \in {"pending", "delivered"}
    BY <1>3 DEF Expire
  <2>2. Status("expired") = "dropped" /\ Status(msg[m]) = "queued"
    BY <2>1 DEF Status
  <2> QED BY <1>1, <2>1, <2>2, StatusMoves DEF Abstract!Drop
<1>4. ASSUME NEW m \in Message, Deliver(m) \/ AckTimeout(m)
      PROVE  UNCHANGED Abstract!vars
  <2>1. /\ \A n \in Message : \/ msg'[n] = msg[n]
                              \/ msg[n] \in {"pending", "delivered"} /\ msg'[n] \in {"pending", "delivered"}
        /\ UNCHANGED mailed
    BY <1>1, <1>4 DEF TypeOK, Deliver, AckTimeout
  <2>2. \A n \in Message : Status(msg'[n]) = Status(msg[n])
    BY <2>1 DEF Status
  <2> QED BY <2>1, <2>2, Stutters
<1>5. CASE SendMail
  <2>1. /\ work.m \in Message \ Undecodable /\ msg[work.m] # "none"
        /\ mailed' = mailed \cup {work.m} /\ msg' = msg
    BY <1>1, <1>5, AtWork DEF IInv, CopiesPublished, SendMail
  <2>2. Status(msg[work.m]) # "none"
    BY <1>1, <2>1 DEF TypeOK, Status
  <2>3. Abstract!Mail(work.m)
    BY <2>1, <2>2 DEF Abstract!Mail
  <2> QED BY <2>1, <2>3 DEF Abstract!Next
<1>6. CASE Ack
  <2>1. work.m \in Message /\ work.m \in mailed
    BY <1>1, <1>6, AtWork DEF IInv, AckAfterMail, Ack
  <2> QED BY <1>1, <1>6, <2>1, SettleRefines DEF Ack, Abstract!Next
<1>7. CASE Term
  <2>1. work.m \in Message /\ work.m \in Undecodable
    BY <1>1, <1>7, AtWork DEF Term
  <2> QED BY <1>1, <1>7, <2>1, SettleRefines DEF Term, Abstract!Next
<1>8. CASE UNCHANGED <<msg, mailed>>
  BY <1>8, Stutters
<1>9. \/ \E m \in Message : Publish(m) \/ Expire(m) \/ Deliver(m) \/ AckTimeout(m)
      \/ SendMail \/ Ack \/ Term \/ UNCHANGED <<msg, mailed>>
  BY DEF Next, vars, Callback, Take, SettleLost, Main, Setup, Consume, Exit,
         SetupFails, ConsumeFails, Stop, Crash
<1> QED BY <1>2, <1>3, <1>4, <1>5, <1>6, <1>7, <1>8, <1>9 DEF Abstract!Next

(* The email worker implements the at-least-once queue: no crash,          *)
(* redelivery, lost or late ack makes the server forget a message whose    *)
(* mail was not sent and that can be decoded.                              *)
THEOREM EmailRefinesQueue == Spec => ImplementsAtLeastOnce
<1> QED BY EmailInvariant, InitRefines, StepRefines, PTL DEF Spec, ImplementsAtLeastOnce, Abstract!Spec

=============================================================================
