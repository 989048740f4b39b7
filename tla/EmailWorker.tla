---------------------------- MODULE EmailWorker ----------------------------
(***************************************************************************)
(* The email worker (services/email-worker/main.go) behind its JetStream   *)
(* consumer: durable, explicit acks, redelivery after AckWait, at most     *)
(* MaxAckPending unacknowledged messages, stream limited to 24 hours.      *)
(* Consume fetches ahead: AckWait runs while a message waits in the        *)
(* client's buffer, and the one callback takes messages one by one.  The   *)
(* worker itself creates stream and consumer, announces that it is ready,  *)
(* consumes, and stops on a signal with the callback still at work.        *)
(***************************************************************************)
EXTENDS Naturals, Sequences, FiniteSets

CONSTANTS Message,
          Undecodable,    \* messages whose payload is not a valid event
          MaxAckPending,  \* the consumer's limit (100 in the code)
          MaxCopies,      \* bound on copies of a message in the client; the code has none
          MaxFaults       \* bound on restarts, failed set-ups and lost acks

ASSUME UndecodableAssumption == Undecodable \subseteq Message
ASSUME FaultsAssumption == MaxFaults \in Nat

VARIABLES
  msg,     \* msg[m]: what the server knows of the message
  inbox,   \* the client's buffer, in the order of delivery
  work,    \* the callback: what it does, for which message
  main,    \* the worker's main goroutine, "down" without a process
  stream,  \* the stream exists, and with it the durable consumer
  mailed,  \* messages whose mail was sent
  faults

processVars == <<main, stream>>
vars == <<msg, inbox, work, processVars, mailed, faults>>

NoMessage == "none"
Resting == [pc |-> "idle", m |-> NoMessage]
At(pc, m) == [pc |-> pc, m |-> m]

Init ==
  /\ msg = [m \in Message |-> "none"]
  /\ inbox = << >>
  /\ work = Resting
  /\ main = "down" /\ stream = FALSE
  /\ mailed = {}
  /\ faults = 0

Copies(m) == Cardinality({i \in DOMAIN inbox : inbox[i] = m}) + IF work.m = m THEN 1 ELSE 0

Outstanding == {m \in Message : msg[m] = "delivered"}

-----------------------------------------------------------------------------
(* The JetStream server (external, configured in main). *)

(* Without a stream js.PublishMsg fails, and orders-svc drops the error. *)
Publish(m) ==
  /\ stream /\ msg[m] = "none"
  /\ msg' = [msg EXCEPT ![m] = "pending"]
  /\ UNCHANGED <<inbox, work, processVars, mailed, faults>>

Deliver(m) ==
  /\ main = "consuming" /\ msg[m] = "pending"
  /\ Cardinality(Outstanding) < MaxAckPending
  /\ msg' = [msg EXCEPT ![m] = "delivered"]
  /\ inbox' = Append(inbox, m)
  /\ UNCHANGED <<work, processVars, mailed, faults>>

(* AckWait is over, whether the message is lost, waits or is being handled. *)
AckTimeout(m) ==
  /\ msg[m] = "delivered" /\ Copies(m) < MaxCopies
  /\ msg' = [msg EXCEPT ![m] = "pending"]
  /\ UNCHANGED <<inbox, work, processVars, mailed, faults>>

(* MaxAge *)
Expire(m) ==
  /\ msg[m] \in {"pending", "delivered"}
  /\ msg' = [msg EXCEPT ![m] = "expired"]
  /\ UNCHANGED <<inbox, work, processVars, mailed, faults>>

(* An ack or a term counts also when the message is up for redelivery. *)
SettleAs(m, how) ==
  msg' = [msg EXCEPT ![m] = IF @ \in {"pending", "delivered"} THEN how ELSE @]

-----------------------------------------------------------------------------
(* The callback: handler's closure. *)

(* Mutant of Take: acknowledges before the mail is sent. *)
TakeAcks ==
  /\ main = "consuming" /\ work = Resting /\ inbox # << >>
  /\ work' = At("decode", Head(inbox))
  /\ inbox' = Tail(inbox)
  /\ SettleAs(Head(inbox), "acked")
  /\ UNCHANGED <<processVars, mailed, faults>>

Take ==
  /\ main = "consuming" /\ work = Resting /\ inbox # << >>
  /\ work' = At("decode", Head(inbox))
  /\ inbox' = Tail(inbox)
  /\ UNCHANGED <<msg, processVars, mailed, faults>>

(* Mutants of Term: the message is put back, with or without a word. *)
TermNak ==
  /\ work.pc = "decode" /\ work.m \in Undecodable
  /\ SettleAs(work.m, "nacked")
  /\ work' = Resting
  /\ UNCHANGED <<inbox, processVars, mailed, faults>>

TermNothing ==
  /\ work.pc = "decode" /\ work.m \in Undecodable
  /\ work' = Resting
  /\ UNCHANGED <<msg, inbox, processVars, mailed, faults>>

(* json.Unmarshal fails: Term, no redelivery. *)
Term ==
  /\ work.pc = "decode" /\ work.m \in Undecodable
  /\ SettleAs(work.m, "termed")
  /\ work' = Resting
  /\ UNCHANGED <<inbox, processVars, mailed, faults>>

SendMail ==
  /\ work.pc = "decode" /\ work.m \notin Undecodable
  /\ mailed' = mailed \cup {work.m}
  /\ work' = At("ack", work.m)
  /\ UNCHANGED <<msg, inbox, processVars, faults>>

Ack ==
  /\ work.pc = "ack"
  /\ SettleAs(work.m, "acked")
  /\ work' = Resting
  /\ UNCHANGED <<inbox, processVars, mailed, faults>>

(* Ack or Term does not reach the server, or finds the connection closed   *)
(* by nc.Drain; the error is logged or ignored.                            *)
SettleLost ==
  /\ work.pc = "ack" \/ (work.pc = "decode" /\ work.m \in Undecodable)
  /\ \/ main = "stopping" /\ faults' = faults
     \/ faults < MaxFaults /\ faults' = faults + 1
  /\ work' = Resting
  /\ UNCHANGED <<msg, inbox, processVars, mailed>>

-----------------------------------------------------------------------------
(* main *)

Fault == faults < MaxFaults /\ faults' = faults + 1

(* Connect, create stream and consumer, serve probes, health.Ready(). *)
Setup ==
  /\ main = "down" /\ main' = "ready" /\ stream' = TRUE
  /\ UNCHANGED <<msg, inbox, work, mailed, faults>>

(* A step of the set-up fails, maybe after the stream was created. *)
SetupFails ==
  /\ main = "down" /\ Fault
  /\ stream' \in {stream, TRUE}
  /\ UNCHANGED <<msg, inbox, work, main, mailed>>

Consume ==
  /\ main = "ready" /\ main' = "consuming"
  /\ UNCHANGED <<msg, inbox, work, stream, mailed, faults>>

(* Consume returns an error after Ready was announced: os.Exit(1). *)
ConsumeFails ==
  /\ main = "ready" /\ Fault /\ main' = "down"
  /\ UNCHANGED <<msg, inbox, work, stream, mailed>>

(* SIGTERM: NotReady, then consumeCtx.Stop drops the buffer.  The callback *)
(* that is running goes on.                                                *)
Stop ==
  /\ main = "consuming" /\ Fault /\ main' = "stopping"
  /\ inbox' = << >>
  /\ UNCHANGED <<msg, work, stream, mailed>>

(* nc.Drain only starts to drain, and main returns. *)
Exit ==
  /\ main = "stopping" /\ main' = "down"
  /\ work' = Resting
  /\ UNCHANGED <<msg, inbox, stream, mailed, faults>>

(* The OOM killer. *)
Crash ==
  /\ main # "down" /\ Fault /\ main' = "down"
  /\ inbox' = << >> /\ work' = Resting
  /\ UNCHANGED <<msg, stream, mailed>>

Callback == Take \/ Term \/ SendMail \/ Ack
Main == Setup \/ Consume \/ Exit

Next ==
  \/ \E m \in Message : Publish(m) \/ Deliver(m) \/ AckTimeout(m) \/ Expire(m)
  \/ Callback \/ SettleLost
  \/ Main \/ SetupFails \/ ConsumeFails \/ Stop \/ Crash

Spec == Init /\ [][Next]_vars

(* The server delivers and redelivers, the worker's goroutines run, the    *)
(* Deployment restarts the pod.                                            *)
FairSpec ==
  /\ Spec
  /\ \A m \in Message : SF_vars(Deliver(m)) /\ WF_vars(AckTimeout(m))
  /\ WF_vars(Callback)
  /\ WF_vars(Main)

-----------------------------------------------------------------------------
TypeOK ==
  /\ msg \in [Message -> {"none", "pending", "delivered", "acked", "termed", "expired"}]
  /\ inbox \in Seq(Message)
  /\ work = Resting \/ (work.pc \in {"decode", "ack"} /\ work.m \in Message)
  /\ main \in {"down", "ready", "consuming", "stopping"} /\ stream \in BOOLEAN
  /\ mailed \subseteq Message
  /\ faults \in 0 .. MaxFaults

Status(s) ==
  CASE s = "none" -> "none"
    [] s \in {"pending", "delivered"} -> "queued"
    [] s \in {"acked", "termed"} -> "settled"
    [] s = "expired" -> "dropped"

Abstract == INSTANCE AtLeastOnce WITH status <- [m \in Message |-> Status(msg[m])]

(* The worker implements at-least-once mailing: whatever crashes,          *)
(* redeliveries and late acks happen, the server forgets a message only    *)
(* when its mail was sent or it cannot be decoded.                         *)
ImplementsAtLeastOnce == Abstract!Spec

(* Every message is dealt with: a good one is mailed and a bad one is      *)
(* terminated, although the worker may crash or be stopped with messages   *)
(* in its buffer, announce itself ready and fail to consume, and lose      *)
(* acks, unless the stream's retention ends first.                         *)
EveryMessageHandled ==
  \A m \in Message :
    (msg[m] = "pending") ~>
      (msg[m] = "expired" \/ IF m \in Undecodable THEN msg[m] = "termed" ELSE m \in mailed)
=============================================================================
