--------------------------- MODULE OrderFlowProofs ---------------------------
(***************************************************************************)
(* ReservedOnce and CleanExit for every finite set of orders and every     *)
(* number of restarts.                                                     *)
(*                                                                         *)
(* ReservedOnce is kept by Flow, which follows one order through the three *)
(* services: where the call of Charge is says whether Reserve was called   *)
(* at all, and where the call of Reserve is whether it can still be        *)
(* executed.  CleanExit is about the end of the process only; Books says   *)
(* the same of every earlier moment, the handlers in flight set apart.     *)
(***************************************************************************)
EXTENDS OrderFlow, FiniteSetTheorems, TLAPS

HandlerState == {"new", "reading", "charging", "authorized", "dropped", "killed"} \cup Answer
ChargeState  == {"none", "sent", "bank", "reserving", "AUTHORIZED", "DECLINED", "lost"}
ReserveState == {"none", "sent", "OK", "failed"}
MainState    == Starting \cup {"serve", "draining", "closing", "down"}

(* Charge, and with it Reserve, is called at most once for an order, and   *)
(* only an executed Reserve leads to an order that is created.             *)
FlowOf(o) ==
  /\ handler[o] \in {"new", "reading"} => charge[o] = "none"
  /\ charge[o] \in {"none", "sent", "bank"} => reserve[o] = "none"
  /\ reserve[o] \in {"none", "sent"} => executed[o] = 0
  /\ reserve[o] = "OK" => executed[o] = 1
  /\ charge[o] = "AUTHORIZED" => executed[o] = 1
  /\ handler[o] \in {"authorized", "200 created"} => executed[o] = 1
  /\ o \in stream => executed[o] = 1
  /\ executed[o] <= 1

Flow == \A o \in Order : FlowOf(o)

(* The requests of this process are in a handler or answered, and the      *)
(* counters of the RED middleware are the numbers of answers.              *)
AnsweredWith(c) == {o \in accepted : handler[o] = c}

Counted == \A c \in Answer : counted[c] = Cardinality(AnsweredWith(c))

Books ==
  /\ \A o \in accepted : o \in Serving \/ handler[o] \in Answer
  /\ Serving \subseteq accepted
  /\ Serving # {} => main \in {"serve", "draining"}
  /\ Counted

IInv == TypeOK /\ Flow /\ Books

-----------------------------------------------------------------------------
(* TypeOK in three parts: what the proofs about orders need, the Booleans, *)
(* and what follows from Books.                                            *)
DataOK ==
  /\ main \in MainState
  /\ accepted \subseteq Order
  /\ handler \in [Order -> HandlerState]
  /\ charge \in [Order -> ChargeState]
  /\ reserve \in [Order -> ReserveState]
  /\ store \in [Order -> Nat] /\ executed \in [Order -> Nat]
  /\ stream \subseteq Order
  /\ restarts \in 0 .. MaxRestarts

BoolOK == cancelled \in BOOLEAN /\ expired \in [Order -> BOOLEAN]

CountOK == counted \in [Answer -> 0 .. Cardinality(Order)]

LateOK == late \subseteq Serving

(* The parts of the invariant. *)
LEMMA Split == IInv => DataOK /\ BoolOK /\ CountOK /\ LateOK /\ Flow /\ Books
BY Zenon DEF IInv, TypeOK, ProcessTypeOK, DataOK, BoolOK, CountOK, LateOK,
             HandlerState, ChargeState, ReserveState, MainState

(* The parts make up the invariant. *)
LEMMA SplitNow ==
  ASSUME DataOK, BoolOK, CountOK, LateOK, Flow, Books
  PROVE  IInv
BY Zenon DEF IInv, TypeOK, ProcessTypeOK, DataOK, BoolOK, CountOK, LateOK,
             HandlerState, ChargeState, ReserveState, MainState

(* The same after a step. *)
LEMMA Assemble ==
  ASSUME DataOK', BoolOK', CountOK', LateOK', Flow', Books'
  PROVE  IInv'
BY Zenon DEF IInv, TypeOK, ProcessTypeOK, DataOK, BoolOK, CountOK, LateOK,
             HandlerState, ChargeState, ReserveState, MainState

-----------------------------------------------------------------------------
(* The books *)

(* Sets of orders are finite, and no larger than the set of all. *)
LEMMA Part == ASSUME NEW S \in SUBSET Order
              PROVE  IsFiniteSet(S) /\ Cardinality(S) \in 0 .. Cardinality(Order)
<1>1. IsFiniteSet(S) /\ Cardinality(S) <= Cardinality(Order)
  BY OrderAssumption, FS_Subset
<1>2. Cardinality(S) \in Nat /\ Cardinality(Order) \in Nat
  BY <1>1, OrderAssumption, FS_CardinalityType
<1> QED BY <1>1, <1>2

(* Nothing that the books are about changes. *)
LEMMA QuietBooks ==
  ASSUME IInv, UNCHANGED <<handler, late, accepted, counted>>,
         Serving # {} => main' \in {"serve", "draining"}
  PROVE  Books' /\ CountOK' /\ LateOK'
<1>1. Serving' = Serving /\ \A c : AnsweredWith(c)' = AnsweredWith(c)
  BY DEF Serving, AnsweredWith
<1>2. Books /\ CountOK /\ LateOK
  BY Split
<1>3. Counted'
  BY <1>1, <1>2 DEF Books, Counted
<1> QED BY <1>1, <1>2, <1>3 DEF Books, CountOK, LateOK

(* A handler goes on: the order was not answered, and is not yet. *)
LEMMA MoveBooks ==
  ASSUME IInv, NEW o \in Order, NEW h \in {"reading", "charging", "authorized"},
         handler[o] \notin Answer, handler' = [handler EXCEPT ![o] = h],
         accepted' = accepted \cup {o}, late' \subseteq late \cup {o},
         main' \in {"serve", "draining"}, counted' = counted
  PROVE  Books' /\ CountOK' /\ LateOK'
<1>1. DataOK /\ Books /\ CountOK /\ LateOK
  BY Split
<1>2. h \notin Answer
  BY DEF Answer
<1>3. Serving' = Serving \cup {o}
  BY <1>1 DEF DataOK, Serving
<1>4. ASSUME NEW c \in Answer PROVE AnsweredWith(c)' = AnsweredWith(c)
  BY <1>1, <1>2 DEF DataOK, AnsweredWith
<1>5. Counted'
  BY <1>1, <1>4 DEF Books, Counted
<1>6. \A x \in accepted' : x \in Serving' \/ handler'[x] \in Answer
  BY <1>1, <1>3 DEF Books, DataOK
<1>7. Serving' \subseteq accepted' /\ LateOK'
  BY <1>1, <1>3 DEF Books, LateOK
<1> QED BY <1>1, <1>5, <1>6, <1>7 DEF Books, CountOK

(* A handler returns: its order is one more of those answered with c. *)
LEMMA AnswerBooks ==
  ASSUME IInv, NEW o \in Serving, NEW c \in Answer,
         handler' = [handler EXCEPT ![o] = c], late' = late \ {o},
         counted' = [counted EXCEPT ![c] = @ + 1],
         UNCHANGED <<main, accepted>>
  PROVE  Books' /\ CountOK' /\ LateOK'
<1>1. DataOK /\ Books /\ CountOK /\ LateOK
  BY Split
<1>2. o \in Order /\ o \in accepted /\ handler[o] \notin Answer /\ c \notin {"reading", "charging", "authorized"}
  BY <1>1 DEF Books, Serving, Answer
<1>3. Serving' = Serving \ {o}
  BY <1>1, <1>2 DEF DataOK, Serving
<1>4. /\ AnsweredWith(c)' = AnsweredWith(c) \cup {o}
      /\ o \notin AnsweredWith(c)
  BY <1>1, <1>2 DEF DataOK, AnsweredWith
<1>5. ASSUME NEW d \in Answer, d # c PROVE AnsweredWith(d)' = AnsweredWith(d)
  BY <1>1, <1>2, <1>5 DEF DataOK, AnsweredWith
<1>6. ASSUME NEW d \in Answer
      PROVE  /\ AnsweredWith(d) \in SUBSET Order
             /\ AnsweredWith(d)' \in SUBSET Order
  BY <1>1 DEF DataOK, AnsweredWith
<1>7. Cardinality(AnsweredWith(c)') = Cardinality(AnsweredWith(c)) + 1
  BY <1>4, <1>6, Part, FS_AddElement
<1>8. counted'[c] = counted[c] + 1 /\ \A d \in Answer : d # c => counted'[d] = counted[d]
  BY <1>1 DEF CountOK
<1>9. Counted'
  <2> SUFFICES ASSUME NEW d \in Answer PROVE counted'[d] = Cardinality(AnsweredWith(d)')
    BY DEF Counted
  <2>1. CASE d = c
    BY <1>1, <1>7, <1>8, <2>1 DEF Books, Counted
  <2>2. CASE d # c
    BY <1>1, <1>5, <1>8, <2>2 DEF Books, Counted
  <2> QED BY <2>1, <2>2
<1>10. CountOK'
  <2>1. \A d \in Answer : counted'[d] \in 0 .. Cardinality(Order)
    BY <1>6, <1>9, Part DEF Counted
  <2>2. counted' \in [Answer -> Int]
    BY <1>1 DEF CountOK
  <2> QED BY <2>1, <2>2 DEF CountOK
<1>11. \A x \in accepted' : x \in Serving' \/ handler'[x] \in Answer
  BY <1>1, <1>2, <1>3 DEF Books, DataOK
<1>12. Serving' \subseteq accepted' /\ LateOK' /\ (Serving' # {} => main' \in {"serve", "draining"})
  BY <1>1, <1>3 DEF Books, LateOK
<1> QED BY <1>9, <1>10, <1>11, <1>12 DEF Books

-----------------------------------------------------------------------------
(* Init *)

(* Nothing was accepted, called or reserved yet. *)
LEMMA InitIInv == Init => IInv
<1> SUFFICES ASSUME Init PROVE IInv
  OBVIOUS
<1>1. /\ main = "tracing" /\ accepted = {} /\ counted = NothingCounted
      /\ handler = [o \in Order |-> "new"] /\ charge = [o \in Order |-> "none"]
      /\ reserve = [o \in Order |-> "none"] /\ store = [o \in Order |-> 0]
      /\ executed = [o \in Order |-> 0] /\ stream = {} /\ restarts = 0 /\ late = {}
  BY Zenon DEF Init, ProcessInit
<1>2. DataOK
  <2>1. restarts \in 0 .. MaxRestarts
    BY <1>1, RestartsAssumption
  <2>2. /\ handler \in [Order -> HandlerState] /\ charge \in [Order -> ChargeState]
        /\ reserve \in [Order -> ReserveState]
    BY <1>1 DEF HandlerState, ChargeState, ReserveState
  <2>3. store \in [Order -> Nat] /\ executed \in [Order -> Nat]
    BY <1>1
  <2>4. main \in MainState
    BY <1>1 DEF MainState, Starting
  <2> QED BY <1>1, <2>1, <2>2, <2>3, <2>4 DEF DataOK
<1>3. BoolOK
  BY Zenon DEF Init, ProcessInit, BoolOK
<1>4. Flow
  BY <1>1 DEF Flow, FlowOf
<1>5. Serving = {} /\ \A c : AnsweredWith(c) = {}
  BY <1>1 DEF Serving, AnsweredWith
<1>6. Books /\ LateOK
  BY <1>1, <1>5, FS_EmptySet DEF Books, Counted, NothingCounted, LateOK
<1>7. CountOK
  <2>1. 0 \in 0 .. Cardinality(Order)
    BY OrderAssumption, FS_CardinalityType
  <2> QED BY <1>1, <2>1 DEF CountOK, NothingCounted
<1> QED BY <1>2, <1>3, <1>4, <1>6, <1>7, SplitNow

-----------------------------------------------------------------------------
(* payments-svc, inventory-svc and the network *)

(* A step of the other services leaves the books of orders-svc alone. *)
LEMMA PeerStep ==
  ASSUME IInv, UNCHANGED <<processVars, handlerVars>>,
         expired' \in [Order -> BOOLEAN], DataOK', Flow'
  PROVE  IInv'
<1>1. UNCHANGED <<main, cancelled, counted, accepted, handler, late>>
  BY Zenon DEF processVars, handlerVars
<1>2. BoolOK'
  BY <1>1, Split, Zenon DEF BoolOK
<1>3. Serving # {} => main' \in {"serve", "draining"}
  BY <1>1, Split DEF Books
<1>4. Books' /\ CountOK' /\ LateOK'
  BY <1>1, <1>3, QuietBooks
<1> QED BY <1>2, <1>4, Assemble

(* A deadline changes what may happen next, not what has happened. *)
LEMMA DeadlineStep == ASSUME IInv, NEW o \in Order, Deadline(o) PROVE IInv'
<1>1. /\ UNCHANGED <<processVars, handlerVars>>
      /\ UNCHANGED <<charge, reserve, store, stream, restarts, executed>>
  BY Zenon DEF Deadline
<1>2. expired' \in [Order -> BOOLEAN]
  BY Split DEF BoolOK, Deadline, To
<1>3. UNCHANGED <<main, accepted, handler>>
  BY <1>1, Zenon DEF processVars, handlerVars
<1>4. DataOK' /\ Flow'
  BY <1>1, <1>3, Split DEF DataOK, Flow, FlowOf
<1> QED BY <1>1, <1>2, <1>4, PeerStep

(* Charge at payments-svc: Reserve is called once, and its success alone   *)
(* authorizes.                                                             *)
LEMMA PaymentsStep ==
  ASSUME IInv, NEW o \in Order,
         ChargeArrives(o) \/ CallReserve(o) \/ ReserveReturns(o) \/ ChargeReplyLost(o)
  PROVE  IInv'
<1>1. /\ UNCHANGED <<processVars, handlerVars>>
      /\ UNCHANGED <<expired, store, stream, restarts, executed>>
  BY Zenon DEF ChargeArrives, CallReserve, ReserveReturns, ChargeReplyLost
<1>2. \/ /\ charge[o] = "sent" /\ reserve' = reserve
         /\ To(charge, o, "bank") \/ To(charge, o, "lost")
      \/ /\ charge[o] = "bank" /\ To(charge, o, "reserving")
         /\ To(reserve, o, "failed") \/ To(reserve, o, "sent")
      \/ /\ charge[o] = "reserving" /\ reserve[o] = "OK" /\ To(charge, o, "AUTHORIZED")
         /\ reserve' = reserve
      \/ charge[o] = "reserving" /\ To(charge, o, "DECLINED") /\ reserve' = reserve
      \/ charge[o] \in {"AUTHORIZED", "DECLINED"} /\ handler[o] = "charging" /\ To(charge, o, "lost") /\ reserve' = reserve
  BY Zenon DEF ChargeArrives, CallReserve, ReserveReturns, ChargeReplyLost
<1>3. UNCHANGED <<main, accepted, handler>>
  BY <1>1, Zenon DEF processVars, handlerVars
<1>4. DataOK /\ Flow
  BY Split
<1>5. DataOK'
  BY <1>1, <1>2, <1>3, <1>4 DEF DataOK, To, ChargeState, ReserveState
<1>6. Flow'
  BY <1>1, <1>2, <1>3, <1>4 DEF DataOK, Flow, FlowOf, To
<1>7. expired' \in [Order -> BOOLEAN]
  BY <1>1, Split, Zenon DEF BoolOK
<1> QED BY <1>1, <1>5, <1>6, <1>7, PeerStep

(* Reserve and Release at inventory-svc: a Reserve that is executed was    *)
(* not executed before.                                                    *)
LEMMA InventoryStep ==
  ASSUME IInv, NEW o \in Order, Reserve(o) \/ ReserveLost(o) \/ Release(o)
  PROVE  IInv'
<1>1. /\ UNCHANGED <<processVars, handlerVars>>
      /\ UNCHANGED <<expired, charge, stream, restarts>>
  BY Zenon DEF Reserve, ReserveLost, Release
<1>2. \/ /\ reserve[o] = "sent" /\ To(reserve, o, "OK")
         /\ To(store, o, store[o] + 1) /\ To(executed, o, executed[o] + 1)
      \/ /\ reserve[o] \in {"sent", "OK"} /\ charge[o] = "reserving" /\ To(reserve, o, "failed")
         /\ UNCHANGED <<store, executed>>
      \/ store[o] > 0 /\ To(store, o, store[o] - 1) /\ UNCHANGED <<reserve, executed>>
  BY Zenon DEF Reserve, ReserveLost, Release
<1>3. UNCHANGED <<main, accepted, handler>>
  BY <1>1, Zenon DEF processVars, handlerVars
<1>4. DataOK /\ Flow
  BY Split
<1>5. DataOK'
  BY <1>1, <1>2, <1>3, <1>4 DEF DataOK, To, ReserveState
<1>6. Flow'
  <2> SUFFICES ASSUME NEW x \in Order PROVE FlowOf(x)'
    BY DEF Flow
  <2>1. FlowOf(x)
    BY <1>4 DEF Flow
  <2>2. CASE x = o
    <3>1. executed[o] \in Nat /\ o \in DOMAIN executed /\ o \in DOMAIN reserve
      BY <1>4 DEF DataOK
    <3>2. CASE reserve[o] = "sent" /\ To(reserve, o, "OK") /\ To(executed, o, executed[o] + 1)
      <4>1. executed[o] = 0 /\ charge[o] \notin {"none", "sent", "bank"}
        BY <2>1, <2>2, <3>2 DEF FlowOf
      <4>2. executed'[o] = 1 /\ reserve'[o] = "OK"
        BY <3>1, <3>2, <4>1 DEF To
      <4>3. handler'[o] \in {"new", "reading"} => charge'[o] = "none"
        BY <1>1, <1>3, <2>1, <2>2 DEF FlowOf
      <4> QED BY <1>1, <2>2, <4>1, <4>2, <4>3 DEF FlowOf
    <3>3. CASE /\ reserve[o] \in {"sent", "OK"} /\ charge[o] = "reserving"
               /\ To(reserve, o, "failed") /\ UNCHANGED executed
      BY <1>1, <1>3, <2>1, <2>2, <3>1, <3>3 DEF FlowOf, To
    <3>4. CASE UNCHANGED <<reserve, executed>>
      BY <1>1, <1>3, <2>1, <2>2, <3>4 DEF FlowOf
    <3> QED BY <1>2, <3>2, <3>3, <3>4
  <2>3. CASE x # o
    BY <1>1, <1>2, <1>3, <1>4, <2>1, <2>3 DEF DataOK, FlowOf, To
  <2> QED BY <2>2, <2>3
<1>7. expired' \in [Order -> BOOLEAN]
  BY <1>1, Split, Zenon DEF BoolOK
<1> QED BY <1>1, <1>5, <1>6, <1>7, PeerStep

(* A restart of either loses calls in progress, and undoes none. *)
LEMMA PeersRestartStep == ASSUME IInv, PaymentsRestart \/ InventoryRestart PROVE IInv'
<1>1. /\ UNCHANGED <<processVars, handlerVars>>
      /\ UNCHANGED <<expired, stream, executed>>
      /\ restarts < MaxRestarts /\ restarts' = restarts + 1
  BY Zenon DEF PaymentsRestart, InventoryRestart
<1>2. \/ /\ charge' = [o \in Order |-> IF charge[o] \in {"bank", "reserving"} THEN "lost" ELSE charge[o]]
         /\ UNCHANGED <<reserve, store>>
      \/ /\ store' = [o \in Order |-> 0]
         /\ reserve' = [o \in Order |-> IF reserve[o] = "sent" THEN "failed" ELSE reserve[o]]
         /\ UNCHANGED charge
  BY Zenon DEF PaymentsRestart, InventoryRestart
<1>3. UNCHANGED <<main, accepted, handler>>
  BY <1>1, Zenon DEF processVars, handlerVars
<1>4. DataOK /\ Flow
  BY Split
<1>5. restarts' \in 0 .. MaxRestarts
  BY <1>1, <1>4, RestartsAssumption DEF DataOK
<1>6. DataOK'
  BY <1>1, <1>2, <1>3, <1>4, <1>5 DEF DataOK, ChargeState, ReserveState
<1>7. Flow'
  BY <1>1, <1>2, <1>3, <1>4 DEF DataOK, Flow, FlowOf
<1>8. expired' \in [Order -> BOOLEAN]
  BY <1>1, Split, Zenon DEF BoolOK
<1> QED BY <1>1, <1>6, <1>7, <1>8, PeerStep

-----------------------------------------------------------------------------
(* orders-svc: handleCreate *)

(* A handler goes on.  It has the authorization of an executed Reserve, or *)
(* has not called Charge yet.                                              *)
LEMMA HandlerStep ==
  ASSUME IInv, NEW o \in Order, NEW h \in {"reading", "charging", "authorized"},
         To(handler, o, h), handler[o] \notin Answer,
         accepted' = accepted \cup {o}, late' \subseteq late \cup {o},
         main' = main, main \in {"serve", "draining"},
         UNCHANGED <<counted, cancelled, reserve, expired, store, stream, restarts, executed>>,
         \/ h = "reading" /\ handler[o] = "new" /\ charge' = charge
         \/ h = "charging" /\ handler[o] = "reading" /\ To(charge, o, "sent")
         \/ h = "authorized" /\ charge[o] = "AUTHORIZED" /\ charge' = charge
  PROVE  IInv'
<1>1. DataOK /\ Flow /\ BoolOK
  BY Split
<1>2. BoolOK'
  BY <1>1, Zenon DEF BoolOK
<1>3. Books' /\ CountOK' /\ LateOK'
  BY MoveBooks DEF To
<1>4. DataOK'
  BY <1>1 DEF DataOK, To, HandlerState, ChargeState
<1>5. Flow'
  <2> SUFFICES ASSUME NEW x \in Order PROVE FlowOf(x)'
    BY DEF Flow
  <2>1. FlowOf(x)
    BY <1>1 DEF Flow
  <2>2. CASE x = o
    BY <1>1, <2>1, <2>2 DEF DataOK, FlowOf, To
  <2>3. CASE x # o
    BY <1>1, <2>1, <2>3 DEF DataOK, FlowOf, To
  <2> QED BY <2>2, <2>3
<1> QED BY <1>2, <1>3, <1>4, <1>5, Assemble

(* A handler in flight belongs to a process that serves or drains. *)
LEMMA InFlight ==
  ASSUME IInv, NEW o \in Order, handler[o] \in {"reading", "charging", "authorized"}
  PROVE  /\ o \in Serving /\ o \in accepted /\ handler[o] \notin Answer
         /\ main \in {"serve", "draining"}
BY Split DEF Books, Serving, Answer

(* A request is accepted once. *)
LEMMA RequestStep == ASSUME IInv, NEW o \in Order, Request(o) PROVE IInv'
<1>1. /\ handler[o] = "new" /\ main = "serve" /\ main' = main
      /\ accepted' = accepted \cup {o} /\ To(handler, o, "reading")
      /\ UNCHANGED <<cancelled, counted, late>>
  BY Zenon DEF Request, Accept
<1>2. UNCHANGED <<charge, reserve, expired, store, stream, restarts, executed>>
  BY Zenon DEF Request, otherVars
<1>3. handler[o] \notin Answer /\ late' \subseteq late \cup {o} /\ main \in {"serve", "draining"}
  BY <1>1 DEF Answer
<1> QED BY <1>1, <1>2, <1>3, HandlerStep

(* Charge is called by a handler that has not called it before. *)
LEMMA CallChargeStep == ASSUME IInv, NEW o \in Order, CallCharge(o) PROVE IInv'
<1>1. /\ handler[o] = "reading" /\ To(handler, o, "charging") /\ To(charge, o, "sent")
      /\ late' = late \/ late' = late \cup {o}
      /\ UNCHANGED <<reserve, expired, store, stream, restarts, executed>>
  BY Zenon DEF CallCharge
<1>2. UNCHANGED <<main, cancelled, counted, accepted>>
  BY Zenon DEF CallCharge, processVars
<1>3. /\ handler[o] \notin Answer /\ main \in {"serve", "draining"}
      /\ accepted' = accepted \cup {o} /\ late' \subseteq late \cup {o}
  BY <1>1, <1>2, InFlight
<1> QED BY <1>1, <1>2, <1>3, HandlerStep

(* A handler returns; only one that was authorized creates and publishes. *)
LEMMA AnswerStep ==
  ASSUME IInv, NEW o \in Order, NEW c \in Answer, AnswerWith(o, c),
         handler[o] \in {"reading", "charging", "authorized"},
         c = "200 created" => handler[o] = "authorized",
         stream' = stream \/ (handler[o] = "authorized" /\ stream' = stream \cup {o}),
         UNCHANGED <<charge, reserve, expired, store, restarts, executed>>
  PROVE  IInv'
<1>1. DataOK /\ Flow /\ BoolOK
  BY Split
<1>2. /\ handler' = [handler EXCEPT ![o] = c] /\ late' = late \ {o}
      /\ counted' = [counted EXCEPT ![c] = @ + 1]
      /\ UNCHANGED <<main, accepted, cancelled>>
  BY DEF AnswerWith, Record, To
<1>3. o \in Serving
  BY InFlight
<1>4. Books' /\ CountOK' /\ LateOK'
  BY <1>2, <1>3, AnswerBooks
<1>5. BoolOK'
  BY <1>1, <1>2, Zenon DEF BoolOK
<1>6. DataOK'
  BY <1>1, <1>2 DEF DataOK, HandlerState
<1>7. c \notin {"new", "reading", "authorized"}
  BY DEF Answer
<1>8. Flow'
  <2> SUFFICES ASSUME NEW x \in Order PROVE FlowOf(x)'
    BY DEF Flow
  <2>1. FlowOf(x)
    BY <1>1 DEF Flow
  <2>2. CASE x = o
    BY <1>1, <1>2, <1>7, <2>1, <2>2 DEF DataOK, FlowOf
  <2>3. CASE x # o
    BY <1>1, <1>2, <2>1, <2>3 DEF DataOK, FlowOf
  <2> QED BY <2>2, <2>3
<1> QED BY <1>4, <1>5, <1>6, <1>8, Assemble

(* The four statuses handleCreate answers. *)
LEMMA Answers ==
  /\ "200 created" \in Answer /\ "400 bad request" \in Answer
  /\ "402 declined" \in Answer /\ "502 unavailable" \in Answer
BY DEF Answer

(* An order is refused, or its Charge has failed. *)
LEMMA RefuseStep == ASSUME IInv, NEW o \in Order, BadRequest(o) \/ ChargeFails(o) PROVE IInv'
<1>1. UNCHANGED <<charge, reserve, expired, store, stream, restarts, executed>>
  BY Zenon DEF BadRequest, ChargeFails, otherVars
<1>2. \/ handler[o] = "reading" /\ AnswerWith(o, "400 bad request")
      \/ handler[o] = "charging" /\ AnswerWith(o, "502 unavailable")
  BY Zenon DEF BadRequest, ChargeFails
<1> QED BY <1>1, <1>2, AnswerStep, Answers

(* Charge returns: only AUTHORIZED leads on. *)
LEMMA ChargeReturnsStep == ASSUME IInv, NEW o \in Order, ChargeReturns(o) PROVE IInv'
<1>1. handler[o] = "charging"
  BY Zenon DEF ChargeReturns
<1>2. UNCHANGED <<charge, reserve, expired, store, stream, restarts, executed>>
  BY Zenon DEF ChargeReturns, otherVars
<1>3. CASE AnswerWith(o, "402 declined")
  BY <1>1, <1>2, <1>3, AnswerStep, Answers
<1>4. CASE charge[o] = "AUTHORIZED" /\ To(handler, o, "authorized") /\ UNCHANGED <<processVars, late>>
  <2>1. UNCHANGED <<main, cancelled, counted, accepted, late>>
    BY <1>4, Zenon DEF processVars
  <2>2. /\ handler[o] \notin Answer /\ main \in {"serve", "draining"}
        /\ accepted' = accepted \cup {o} /\ late' \subseteq late \cup {o}
    BY <1>1, <2>1, InFlight
  <2> QED BY <1>2, <1>4, <2>1, <2>2, HandlerStep
<1> QED BY <1>3, <1>4, Zenon DEF ChargeReturns

(* The order is created, and published or not. *)
LEMMA CreateStep == ASSUME IInv, NEW o \in Order, Create(o) PROVE IInv'
<1>1. /\ handler[o] = "authorized" /\ AnswerWith(o, "200 created")
      /\ UNCHANGED <<charge, reserve, expired, store, restarts, executed>>
  BY Zenon DEF Create
<1>2. stream' = stream \/ stream' = stream \cup {o}
  BY Zenon DEF Create
<1> QED BY <1>1, <1>2, AnswerStep, Answers

-----------------------------------------------------------------------------
(* orders-svc: main *)

(* Steps of main and its signals, which no handler notices. *)
LEMMA MainStaysStep == ASSUME IInv, OrdersMain \/ OrdersEnvironment PROVE IInv'
<1>1. UNCHANGED <<handlerVars, otherVars>> /\ UNCHANGED <<counted, accepted>>
  BY Zenon DEF OrdersMain, OrdersEnvironment, InitTracing, Connect, Shutdown, ShutdownReturns,
               MainStep, Signal, Restart
<1>2. cancelled' \in BOOLEAN
  BY Split, Zenon DEF BoolOK, OrdersMain, OrdersEnvironment, InitTracing, Connect, Shutdown,
                      ShutdownReturns, MainStep, Signal, Restart
<1>3. \/ main = "tracing" /\ main' = "connect"
      \/ main = "connect" /\ main' = "serve"
      \/ main = "serve" /\ main' = "draining"
      \/ Serving = {} /\ main' = "closing"
      \/ main = "down" /\ main' = "tracing"
      \/ main' = main
  BY Zenon DEF OrdersMain, OrdersEnvironment, InitTracing, Connect, Shutdown, ShutdownReturns,
               MainStep, Signal, Restart, Gone
<1>4. UNCHANGED <<handler, late, charge, reserve, expired, store, stream, restarts, executed>>
  BY <1>1, Zenon DEF handlerVars, otherVars
<1>5. DataOK /\ Flow /\ BoolOK /\ Books
  BY Split
<1>6. main' \in MainState
  BY <1>3, <1>5 DEF DataOK, MainState, Starting
<1>7. DataOK' /\ Flow'
  BY <1>1, <1>4, <1>5, <1>6 DEF DataOK, Flow, FlowOf
<1>8. BoolOK'
  BY <1>2, <1>4, <1>5, Zenon DEF BoolOK
<1>9. Serving # {} => main' \in {"serve", "draining"}
  BY <1>3, <1>5 DEF Books
<1>10. Books' /\ CountOK' /\ LateOK'
  BY <1>1, <1>4, <1>9, QuietBooks
<1> QED BY <1>7, <1>8, <1>10, Assemble

(* The process ends: its handlers are cut off, its books are closed. *)
LEMMA EndStep == ASSUME IInv, OrdersEnds \/ DrainTimeout \/ OrdersFails PROVE IInv'
<1>1. End
  BY Zenon DEF OrdersEnds, DrainTimeout, OrdersFails, Close, ShutdownTimeout, SetupFails, ServeFails, Kill
<1>2. PICK how \in [Order -> {"killed", "dropped"}] : CutOff(how)
  <2>1. CASE OrdersEnds
    BY <2>1 DEF OrdersEnds
  <2>2. CASE DrainTimeout
    BY <2>2 DEF DrainTimeout
  <2>3. CASE OrdersFails
    BY <2>3 DEF OrdersFails
  <2> QED BY <2>1, <2>2, <2>3
<1>3. /\ main' = "down" /\ counted' = NothingCounted /\ accepted' = {}
      /\ cancelled' \in BOOLEAN
  BY <1>1, Zenon DEF End
<1>4. /\ handler' = [o \in Order |-> IF o \in Serving THEN how[o] ELSE handler[o]]
      /\ late' = {}
      /\ UNCHANGED <<charge, reserve, expired, store, stream, restarts, executed>>
  BY <1>2, Zenon DEF CutOff, otherVars
<1>5. DataOK /\ Flow /\ BoolOK
  BY Split
<1>6. handler' \in [Order -> HandlerState]
  BY <1>4, <1>5 DEF DataOK, HandlerState
<1>7. DataOK'
  BY <1>3, <1>4, <1>5, <1>6 DEF DataOK, MainState
<1>8. BoolOK'
  BY <1>3, <1>4, <1>5, Zenon DEF BoolOK
<1>9. \A o \in Order : handler'[o] \in {"killed", "dropped"} \/ handler'[o] = handler[o]
  BY <1>4
<1>10. Flow'
  BY <1>4, <1>5, <1>9 DEF Flow, FlowOf
<1>11. Serving' = {}
  BY <1>4 DEF Serving
<1>12. \A c : AnsweredWith(c)' = {}
  BY <1>3 DEF AnsweredWith
<1>13. Counted'
  BY <1>3, <1>12, FS_EmptySet DEF Counted, NothingCounted
<1>14. Books' /\ LateOK'
  BY <1>3, <1>4, <1>11, <1>13 DEF Books, LateOK
<1>15. CountOK'
  <2>1. 0 \in 0 .. Cardinality(Order)
    BY OrderAssumption, FS_CardinalityType
  <2> QED BY <1>3, <2>1 DEF CountOK, NothingCounted
<1> QED BY <1>7, <1>8, <1>10, <1>14, <1>15, Assemble

-----------------------------------------------------------------------------
(* The inductive invariant holds in every reachable state. *)
THEOREM OrderFlowInvariant == Spec => []IInv
<1>1. IInv /\ [Next]_vars => IInv'
  <2> SUFFICES ASSUME IInv, [Next]_vars PROVE IInv'
    OBVIOUS
  <2>1. CASE UNCHANGED vars
    <3>1. UNCHANGED <<processVars, handlerVars, otherVars>>
      BY <2>1, Zenon DEF vars
    <3>2. /\ UNCHANGED <<main, accepted, handler>>
          /\ UNCHANGED <<charge, reserve, expired, store, stream, restarts, executed>>
      BY <3>1, Zenon DEF processVars, handlerVars, otherVars
    <3>3. DataOK' /\ Flow'
      BY <3>2, Split DEF DataOK, Flow, FlowOf
    <3>4. expired' \in [Order -> BOOLEAN]
      BY <3>2, Split, Zenon DEF BoolOK
    <3> QED BY <3>1, <3>3, <3>4, PeerStep
  <2>2. CASE Next
    BY <2>2, RequestStep, RefuseStep, CallChargeStep, DeadlineStep, CreateStep, ChargeReturnsStep,
       PaymentsStep, InventoryStep, PeersRestartStep, MainStaysStep, EndStep, Zenon
       DEF Next, Orders, Payments
  <2> QED BY <2>1, <2>2
<1> QED BY InitIInv, <1>1, PTL DEF Spec

(* The state stays well typed; no counter of the RED middleware exceeds    *)
(* the number of requests.                                                 *)
THEOREM OrderFlowTypeOK == Spec => []TypeOK
<1>1. IInv => TypeOK
  BY DEF IInv
<1> QED BY OrderFlowInvariant, <1>1, PTL

(* Whatever is lost, late or restarted, no order is reserved twice at      *)
(* inventory-svc, and one that handleCreate creates or publishes was       *)
(* reserved.                                                               *)
THEOREM ReservedOnceHolds == Spec => []ReservedOnce
<1>1. IInv => ReservedOnce
  BY DEF IInv, Flow, FlowOf, ReservedOnce
<1> QED BY OrderFlowInvariant, <1>1, PTL

(* When obs.Serve has returned without an error, every request that was    *)
(* accepted is answered and counted once under its status.                 *)
THEOREM CleanExitHolds == Spec => []CleanExit
<1>1. IInv => CleanExit
  <2> SUFFICES ASSUME IInv, main = "closing" PROVE
                 /\ \A o \in accepted : Answered(o)
                 /\ \A c \in Answer : counted[c] = Cardinality({o \in accepted : handler[o] = c})
    BY DEF CleanExit
  <2>1. Serving = {}
    BY DEF IInv, Books
  <2>2. \A o \in accepted : Answered(o)
    BY <2>1 DEF IInv, Books, Answered
  <2> QED BY <2>2 DEF IInv, Books, Counted, AnsweredWith
<1> QED BY OrderFlowInvariant, <1>1, PTL
=============================================================================
