------------------------------ MODULE OrderFlow ------------------------------
(***************************************************************************)
(* One order's way through orders-svc (handleCreate), payments-svc         *)
(* (Charge) and inventory-svc (Reserve, Release), with calls and replies   *)
(* that get lost, processes that restart, and the five second context      *)
(* that bounds the whole request and travels with the gRPC calls.  Reserve *)
(* ignores its context: once the request has reached inventory-svc it is   *)
(* executed, whether or not anyone still waits.  The process of orders-svc *)
(* (OrdersProcess) starts, drains, is killed and starts again meanwhile.   *)
(***************************************************************************)
EXTENDS OrdersProcess

CONSTANTS MaxRestarts,   \* bound on restarts of payments-svc and inventory-svc
          ReleaseCalled  \* whether some client calls Release (none here does)

ASSUME RestartsAssumption == MaxRestarts \in Nat /\ ReleaseCalled \in BOOLEAN

VARIABLES
  handler,   \* handler[o]: handleCreate, up to the status it answers
  late,      \* orders being served whose Charge was called while the server drains
  charge,    \* charge[o]: the call of Charge, at payments-svc
  reserve,   \* reserve[o]: the call of Reserve, on the wire and at inventory-svc
  expired,   \* expired[o]: the request's context has reached its deadline
  store,     \* store[o]: reservations inventory-svc holds for the order
  stream,    \* orders whose event is in the stream
  restarts,
  executed   \* history: how often Reserve was executed for the order

handlerVars == <<handler, late>>
otherVars == <<charge, reserve, expired, store, stream, restarts, executed>>
vars == <<processVars, handlerVars, otherVars>>

Answered(o) == handler[o] \in Answer

(* The handlers whose goroutine is in handleCreate. *)
Serving == {o \in Order : handler[o] \in {"reading", "charging", "authorized"}}

Init ==
  /\ ProcessInit
  /\ handler = [o \in Order |-> "new"]
  /\ charge = [o \in Order |-> "none"]
  /\ reserve = [o \in Order |-> "none"]
  /\ expired = [o \in Order |-> FALSE]
  /\ store = [o \in Order |-> 0]
  /\ stream = {}
  /\ restarts = 0 /\ late = {}
  /\ executed = [o \in Order |-> 0]

To(f, o, v) == f' = [f EXCEPT ![o] = v]

-----------------------------------------------------------------------------
(* orders-svc: handleCreate *)

(* handleCreate returns to red.Wrap with this status. *)
AnswerWith(o, c) == To(handler, o, c) /\ late' = late \ {o} /\ Record(c)

(* The request is routed; its body is read without a time limit. *)
Request(o) ==
  /\ handler[o] = "new"
  /\ Accept(o)
  /\ To(handler, o, "reading")
  /\ UNCHANGED <<late, otherVars>>

BadRequest(o) ==
  /\ handler[o] = "reading"
  /\ AnswerWith(o, "400 bad request")
  /\ UNCHANGED otherVars

CallCharge(o) ==
  /\ handler[o] = "reading"
  /\ To(handler, o, "charging")
  /\ To(charge, o, "sent")
  /\ late' = IF main = "draining" THEN late \cup {o} ELSE late
  /\ UNCHANGED <<processVars, reserve, expired, store, stream, restarts, executed>>

(* The five seconds are over, the client has hung up, or orders-svc is no  *)
(* more and payments-svc notices.                                          *)
Deadline(o) ==
  /\ handler[o] \in {"charging", "authorized", "killed", "dropped"} /\ ~expired[o]
  /\ To(expired, o, TRUE)
  /\ UNCHANGED <<processVars, handlerVars, charge, reserve, store, stream, restarts, executed>>

(* Mutant of ChargeFails: handleCreate's context has no deadline. *)
ChargeFailsLost(o) ==
  /\ handler[o] = "charging" /\ charge[o] = "lost"
  /\ AnswerWith(o, "502 unavailable")
  /\ UNCHANGED otherVars

(* Charge returns an error: it was lost, or the deadline came first. *)
ChargeFails(o) ==
  /\ handler[o] = "charging"
  /\ charge[o] = "lost" \/ expired[o]
  /\ AnswerWith(o, "502 unavailable")
  /\ UNCHANGED otherVars

ChargeReturns(o) ==
  /\ handler[o] = "charging" /\ ~expired[o]
  /\ \/ /\ charge[o] = "AUTHORIZED"
        /\ To(handler, o, "authorized") /\ UNCHANGED <<processVars, late>>
     \/ /\ charge[o] = "DECLINED"
        /\ AnswerWith(o, "402 declined")
  /\ UNCHANGED otherVars

(* The event is published unless publishing is paused (PublishBrake), the  *)
(* context is over or NATS fails; the order is created in any case.        *)
Create(o) ==
  /\ handler[o] = "authorized"
  /\ AnswerWith(o, "200 created")
  /\ stream' \in {stream, IF expired[o] THEN stream ELSE stream \cup {o}}
  /\ UNCHANGED <<charge, reserve, expired, store, restarts, executed>>

-----------------------------------------------------------------------------
(* orders-svc: main *)

(* The process ends; its handlers in flight end with it. *)
CutOff(how) ==
  /\ handler' = [o \in Order |-> IF o \in Serving THEN how[o] ELSE handler[o]]
  /\ late' = {}
  /\ UNCHANGED otherVars

OrdersMain ==
  /\ InitTracing \/ Connect \/ Shutdown \/ ShutdownReturns(Serving)
  /\ UNCHANGED <<handlerVars, otherVars>>

OrdersEnds == Close /\ CutOff([o \in Order |-> "dropped"])

(* A handler that called Charge before Shutdown is bounded by five of its  *)
(* ten seconds and is assumed to return in the other five; one whose body  *)
(* came late may be cut off.                                               *)
DrainTimeout ==
  /\ ShutdownTimeout(Serving)
  /\ \A o \in Serving \ late : handler[o] = "reading"
  /\ CutOff([o \in Order |-> IF o \in late THEN "killed" ELSE "dropped"])

OrdersFails == (SetupFails \/ ServeFails \/ Kill) /\ CutOff([o \in Order |-> "killed"])

OrdersEnvironment == (Signal \/ Restart) /\ UNCHANGED <<handlerVars, otherVars>>

-----------------------------------------------------------------------------
(* payments-svc: Charge *)

ChargeArrives(o) ==
  /\ charge[o] = "sent"
  /\ To(charge, o, "bank") \/ To(charge, o, "lost")
  /\ UNCHANGED <<processVars, handlerVars, reserve, expired, store, stream, restarts, executed>>

(* The simulated bank is done.  A context that is over fails the call      *)
(* before it is sent.                                                      *)
CallReserve(o) ==
  /\ charge[o] = "bank"
  /\ To(charge, o, "reserving")
  /\ To(reserve, o, IF expired[o] THEN "failed" ELSE "sent")
  /\ UNCHANGED <<processVars, handlerVars, expired, store, stream, restarts, executed>>

(* Mutant of ReserveReturns: a failed call is made again. *)
ReserveReturnsRetry(o) ==
  /\ charge[o] = "reserving"
  /\ \/ reserve[o] = "OK" /\ To(charge, o, "AUTHORIZED")
     \/ reserve[o] = "failed" /\ To(charge, o, "bank")
  /\ UNCHANGED <<processVars, handlerVars, reserve, expired, store, stream, restarts, executed>>

ReserveReturns(o) ==
  /\ charge[o] = "reserving"
  /\ \/ reserve[o] = "OK" /\ To(charge, o, "AUTHORIZED")
     \/ (reserve[o] = "failed" \/ expired[o]) /\ To(charge, o, "DECLINED")
  /\ UNCHANGED <<processVars, handlerVars, reserve, expired, store, stream, restarts, executed>>

(* The reply is lost on the way back to orders-svc. *)
ChargeReplyLost(o) ==
  /\ charge[o] \in {"AUTHORIZED", "DECLINED"} /\ handler[o] = "charging"
  /\ To(charge, o, "lost")
  /\ UNCHANGED <<processVars, handlerVars, reserve, expired, store, stream, restarts, executed>>

PaymentsRestart ==
  /\ restarts < MaxRestarts /\ restarts' = restarts + 1
  /\ charge' = [o \in Order |-> IF charge[o] \in {"bank", "reserving"} THEN "lost" ELSE charge[o]]
  /\ UNCHANGED <<processVars, handlerVars, reserve, expired, store, stream, executed>>

-----------------------------------------------------------------------------
(* inventory-svc: Reserve and Release, under server.mu *)

Reserve(o) ==
  /\ reserve[o] = "sent"
  /\ To(store, o, store[o] + 1)
  /\ To(executed, o, executed[o] + 1)
  /\ To(reserve, o, "OK")
  /\ UNCHANGED <<processVars, handlerVars, charge, expired, stream, restarts>>

(* The call or its reply is lost (the chaos experiment drops packets). *)
ReserveLost(o) ==
  /\ reserve[o] \in {"sent", "OK"} /\ charge[o] = "reserving"
  /\ To(reserve, o, "failed")
  /\ UNCHANGED <<processVars, handlerVars, charge, expired, store, stream, restarts, executed>>

(* Mutant of Release: the delete of an unknown reservation is not a no-op. *)
ReleaseUnknown(o) ==
  /\ ReleaseCalled
  /\ To(store, o, store[o] - 1)
  /\ UNCHANGED <<processVars, handlerVars, charge, reserve, expired, stream, restarts, executed>>

Release(o) ==
  /\ ReleaseCalled
  /\ store[o] > 0
  /\ To(store, o, store[o] - 1)
  /\ UNCHANGED <<processVars, handlerVars, charge, reserve, expired, stream, restarts, executed>>

(* The store is in memory only. *)
InventoryRestart ==
  /\ restarts < MaxRestarts /\ restarts' = restarts + 1
  /\ store' = [o \in Order |-> 0]
  /\ reserve' = [o \in Order |-> IF reserve[o] = "sent" THEN "failed" ELSE reserve[o]]
  /\ UNCHANGED <<processVars, handlerVars, charge, expired, stream, executed>>

-----------------------------------------------------------------------------
Orders(o)    == Deadline(o) \/ ChargeFails(o) \/ Create(o)
Payments(o)  == ChargeArrives(o) \/ CallReserve(o) \/ ReserveReturns(o)

Next ==
  \/ \E o \in Order : \/ Request(o) \/ BadRequest(o) \/ CallCharge(o)
                      \/ Orders(o) \/ ChargeReturns(o)
                      \/ Payments(o) \/ ChargeReplyLost(o)
                      \/ Reserve(o) \/ ReserveLost(o) \/ Release(o)
  \/ OrdersMain \/ OrdersEnds \/ DrainTimeout \/ OrdersFails \/ OrdersEnvironment
  \/ PaymentsRestart \/ InventoryRestart

Spec == Init /\ [][Next]_vars

(* The timers and the goroutines of orders-svc run; nothing is assumed of  *)
(* its clients, of the other services or of the network.                   *)
FairSpec ==
  /\ Spec
  /\ \A o \in Order : WF_vars(Orders(o))
  /\ WF_vars(OrdersMain) /\ WF_vars(OrdersEnds) /\ WF_vars(DrainTimeout)

-----------------------------------------------------------------------------
TypeOK ==
  /\ ProcessTypeOK
  /\ handler \in [Order -> {"new", "reading", "charging", "authorized", "dropped", "killed"} \cup Answer]
  /\ charge \in [Order -> {"none", "sent", "bank", "reserving", "AUTHORIZED", "DECLINED", "lost"}]
  /\ reserve \in [Order -> {"none", "sent", "OK", "failed"}]
  /\ expired \in [Order -> BOOLEAN]
  /\ store \in [Order -> Nat] /\ executed \in [Order -> Nat]
  /\ stream \subseteq Order
  /\ late \subseteq Serving
  /\ restarts \in 0 .. MaxRestarts

(* An order that is created, or mailed about, was reserved exactly once at *)
(* inventory-svc; no other order was reserved more than once.  Charge must *)
(* not take a lost or late reply for a success, nor call Reserve again for *)
(* an order whose first reservation may have been executed.                *)
ReservedOnce ==
  \A o \in Order :
    /\ executed[o] <= 1
    /\ (handler[o] = "200 created" \/ o \in stream) => executed[o] = 1

(* Every order that was sent to payments-svc is answered, unless its       *)
(* process is killed, or gives up the drain with a Charge that came late   *)
(* (DrainTimeout): the five second context ends the wait whatever becomes  *)
(* of the other services, and a shutdown (obs.Serve) waits for it.         *)
RequestsAnswered ==
  \A o \in Order : (handler[o] = "charging") ~> (Answered(o) \/ handler[o] = "killed")

(* A process that ends by itself has answered every request it accepted    *)
(* and counted it once, under the status its client saw: the availability  *)
(* SLO (redmetrics.go) misses none and miscounts none.                     *)
CleanExit ==
  main = "closing" =>
    /\ \A o \in accepted : Answered(o)
    /\ \A c \in Answer : counted[c] = Cardinality({o \in accepted : handler[o] = c})

(* orders-svc ends when it is told to, although a client may never finish  *)
(* its body and Shutdown waits for that handler: obs.Serve gives up.       *)
StopsWhenTold == cancelled ~> Gone

(* k8s/prometheus/rules/orders-slo.yaml, lines 41-42: "4xx counts as       *)
(* success on purpose - those are client-side errors, not service          *)
(* availability hits."                                                     *)
ClientErrorsOnly ==
  \A o \in Order :
    handler[o] \in {"400 bad request", "402 declined"} => reserve[o] # "failed"

(* proto/inventory/v1/inventory.proto, lines 7-8: "Release is the          *)
(* compensating call orders-svc makes on a refund or a timed-out           *)
(* reservation."                                                           *)
TimedOutReleased ==
  \A o \in Order : (handler[o] = "502 unavailable" /\ store[o] > 0) ~> (store[o] = 0)
=============================================================================
