------------------------- MODULE PublishBrakeProofs -------------------------
(***************************************************************************)
(* NewOrdersHeld for every set of orders, every number of edits, faults    *)
(* and events.                                                             *)
(*                                                                         *)
(* An order may be checked long after it arrived, so the proof has to know *)
(* that the pause in which it arrived is still on (HeldInPause) and that   *)
(* handleCreate cannot have published it before the check (PublishedLast). *)
(***************************************************************************)
EXTENDS PublishBrake, TLAPS

(* Orders are remembered as held only while publishing is paused. *)
HeldInPause == held # {} => paused

(* An order that was held has arrived and never gets to js.PublishMsg. *)
HeldOnTheWay == \A o \in held : order[o] \in {"charging", "authorized", "done"}

(* Publishing is the last thing handleCreate does. *)
PublishedLast == \A o \in Order : order[o] # "done" => o \notin stream

IInv ==
  /\ TypeOK
  /\ HeldInPause
  /\ HeldOnTheWay
  /\ PublishedLast
  /\ NewOrdersHeld

-----------------------------------------------------------------------------
(* The conjuncts of TypeOK on what SMT may reason about; paused, the only  *)
(* Boolean, is kept apart.                                                 *)
DataOK ==
  /\ flags \in Text \cup {"unset", "absent"}
  /\ mount \in Text \cup {NoFile} /\ got \in Text \cup {NoFile}
  /\ events \in 0 .. MaxEvents
  /\ watcher \in {"start", "first store", "watch", "select", "store", "dead", "ended"}
  /\ order \in [Order -> {"new", "charging", "authorized", "publishing", "done"}]
  /\ stream \subseteq Order /\ held \subseteq Order
  /\ edits \in 0 .. MaxEdits /\ faults \in 0 .. MaxFaults

(* The two parts are the type invariant. *)
LEMMA TypeSplit == TypeOK <=> DataOK /\ paused \in BOOLEAN
BY Zenon DEF TypeOK, DataOK

(* The first of them, for the proofs to cite. *)
LEMMA DataHolds == IInv => DataOK
BY TypeSplit, Zenon DEF IInv

(* The parts of the invariant after a step. *)
LEMMA Assemble ==
  ASSUME DataOK', paused' \in BOOLEAN, HeldInPause', HeldOnTheWay', PublishedLast', NewOrdersHeld'
  PROVE  IInv'
<1>1. TypeOK'
  BY Zenon DEF TypeOK, DataOK
<1> QED BY <1>1, Zenon DEF IInv

(* No order has arrived yet. *)
LEMMA InitIInv == Init => IInv
<1> SUFFICES ASSUME Init PROVE IInv
  OBVIOUS
<1>1. DataOK
  <2>1. /\ events \in 0 .. MaxEvents /\ edits \in 0 .. MaxEdits /\ faults \in 0 .. MaxFaults
    BY BoundsAssumption DEF Init
  <2>2. flags \in {"true", "false"} /\ mount = flags /\ got = NoFile
    BY DEF Init
  <2>3. order \in [Order -> {"new", "charging", "authorized", "publishing", "done"}]
    BY DEF Init
  <2>4. watcher = "start" /\ stream = {} /\ held = {}
    BY DEF Init
  <2> QED BY <2>1, <2>2, <2>3, <2>4 DEF DataOK, Text
<1>2. paused \in BOOLEAN
  BY Zenon DEF Init
<1>3. HeldInPause /\ HeldOnTheWay /\ PublishedLast /\ NewOrdersHeld
  BY DEF Init, HeldInPause, HeldOnTheWay, PublishedLast, NewOrdersHeld
<1> QED BY <1>1, <1>2, <1>3, TypeSplit DEF IInv

(* The watcher and the requests are the only ones to touch what the        *)
(* invariant is about.                                                     *)
LEMMA OtherSteps ==
  ASSUME IInv, DataOK', UNCHANGED <<paused, order, stream, held>>
  PROVE  IInv'
<1>1. paused' \in BOOLEAN
  BY Zenon DEF IInv, TypeOK
<1>2. HeldInPause' /\ HeldOnTheWay' /\ PublishedLast' /\ NewOrdersHeld'
  BY DEF IInv, HeldInPause, HeldOnTheWay, PublishedLast, NewOrdersHeld
<1> QED BY <1>1, <1>2, Assemble

(* The ConfigMap changes. *)
LEMMA EditStep == ASSUME IInv, NEW f \in Text \cup {"unset", "absent"}, EditFlags(f) PROVE IInv'
<1>1. DataOK'
  <2>1. DataOK
    BY DataHolds
  <2>2. edits' \in 0 .. MaxEdits
    <3>1. edits \in 0 .. MaxEdits /\ edits < MaxEdits /\ edits' = edits + 1
      BY <2>1, Zenon DEF DataOK, EditFlags
    <3> QED BY <3>1, BoundsAssumption
  <2> QED BY <2>1, <2>2, Zenon DEF DataOK, EditFlags
<1> QED BY <1>1, OtherSteps DEF EditFlags

(* kubelet projects the ConfigMap; the file holds what the key may hold. *)
LEMMA KubeletStep == ASSUME IInv, NEW seen \in BOOLEAN, KubeletSync(seen) PROVE IInv'
<1>1. /\ flags # "absent" /\ mount' = FileOf(flags)
      /\ events' = events \/ (events < MaxEvents /\ events' = events + 1)
      /\ faults' = faults \/ (faults < MaxFaults /\ faults' = faults + 1)
      /\ UNCHANGED <<flags, watcher, got, paused, order, stream, edits, held>>
  BY Zenon DEF KubeletSync
<1>2. mount' \in Text \cup {NoFile}
  BY <1>1, TypeSplit DEF IInv, DataOK, FileOf
<1>3. DataOK'
  <2>1. DataOK
    BY DataHolds
  <2>2. events' \in 0 .. MaxEvents /\ faults' \in 0 .. MaxFaults
    <3>1. events \in 0 .. MaxEvents /\ faults \in 0 .. MaxFaults
      BY <2>1, Zenon DEF DataOK
    <3> QED BY <1>1, <3>1, BoundsAssumption
  <2> QED BY <1>1, <1>2, <2>1, <2>2, Zenon DEF DataOK
<1> QED BY <1>1, <1>3, OtherSteps

(* Steps of the watcher that store nothing. *)
LEMMA ReadStep ==
  ASSUME IInv, FirstRead \/ AddWatch \/ OnEvent \/ OnTick \/ WatchFails \/ ContextDone
  PROVE  IInv'
<1>1. /\ watcher' \in {"first store", "select", "store", "dead", "ended"}
      /\ got' = got \/ got' = mount
      /\ events' = events \/ (events > 0 /\ events' = events - 1)
      /\ faults' = faults \/ (faults < MaxFaults /\ faults' = faults + 1)
      /\ UNCHANGED <<flags, mount, paused, order, stream, edits, held>>
  BY Zenon DEF FirstRead, AddWatch, OnEvent, OnTick, WatchFails, ContextDone, ReadFile
<1>2. DataOK'
  <2>1. DataOK
    BY DataHolds
  <2>2. events' \in 0 .. MaxEvents /\ faults' \in 0 .. MaxFaults
    <3>1. events \in 0 .. MaxEvents /\ faults \in 0 .. MaxFaults
      BY <2>1, Zenon DEF DataOK
    <3>2. events' = events \/ (events > 0 /\ events' = events - 1)
      BY <1>1, Zenon
    <3>3. faults' = faults \/ (faults < MaxFaults /\ faults' = faults + 1)
      BY <1>1, Zenon
    <3>4. events' \in 0 .. MaxEvents
      BY <3>1, <3>2, BoundsAssumption
    <3>5. faults' \in 0 .. MaxFaults
      BY <3>1, <3>3, BoundsAssumption
    <3> QED BY <3>4, <3>5
  <2>3. got' \in Text \cup {NoFile}
    BY <1>1, <2>1, Zenon DEF DataOK
  <2>4. watcher' \in {"start", "first store", "watch", "select", "store", "dead", "ended"}
    BY <1>1
  <2> QED BY <1>1, <2>1, <2>2, <2>3, <2>4, Zenon DEF DataOK
<1> QED BY <1>1, <1>2, OtherSteps

(* The store to publishingPaused: it begins a pause, in which nothing is   *)
(* held yet, goes on with one, or ends it.                                 *)
LEMMA StoreStep == ASSUME IInv, FirstStore \/ StoreRead PROVE IInv'
<1>1. /\ watcher' \in {"watch", "select"}
      /\ paused' = ~Enabled(got)
      /\ held' = IF paused' THEN held ELSE {}
      /\ UNCHANGED <<flags, mount, events, got, order, stream, edits, faults>>
  BY Zenon DEF FirstStore, StoreRead, Store
<1>2. paused' \in BOOLEAN
  BY <1>1, Zenon
<1>3. /\ held' \subseteq held
      /\ held' # {} => paused'
  BY <1>1, Zenon
<1>4. DataOK'
  BY <1>1, <1>3, TypeSplit DEF IInv, DataOK
<1>5. HeldInPause' /\ HeldOnTheWay' /\ PublishedLast' /\ NewOrdersHeld'
  BY <1>1, <1>3 DEF IInv, HeldInPause, HeldOnTheWay, PublishedLast, NewOrdersHeld
<1> QED BY <1>2, <1>4, <1>5, Assemble

-----------------------------------------------------------------------------
(* handleCreate *)

(* An order that arrives in a pause is held: it was not published before. *)
LEMMA ArriveStep == ASSUME IInv, NEW o \in Order, Arrive(o) PROVE IInv'
<1>1. /\ order[o] = "new" /\ order' = [order EXCEPT ![o] = "charging"]
      /\ held' = held \/ (held' = held \cup {o} /\ paused)
      /\ UNCHANGED <<flags, mount, events, watcher, got, paused, stream, edits, faults>>
  BY Zenon DEF Arrive, Goto
<1>2. DataOK' /\ paused' \in BOOLEAN
  BY <1>1, TypeSplit DEF IInv, DataOK
<1>3. held' # {} => paused'
  BY <1>1, Zenon DEF IInv, HeldInPause
<1>4. HeldOnTheWay' /\ PublishedLast' /\ NewOrdersHeld'
  BY <1>1, TypeSplit DEF IInv, DataOK, HeldOnTheWay, PublishedLast, NewOrdersHeld
<1> QED BY <1>2, <1>3, <1>4, Assemble DEF HeldInPause

(* A held order that is checked finds publishing paused. *)
LEMMA RequestStep ==
  ASSUME IInv, NEW o \in Order, Charged(o) \/ CheckPaused(o) \/ Publish(o)
  PROVE  IInv'
<1>1. /\ \/ order[o] = "charging" /\ order' = [order EXCEPT ![o] = "authorized"] /\ stream' = stream
         \/ order[o] = "charging" /\ order' = [order EXCEPT ![o] = "done"] /\ stream' = stream
         \/ order[o] = "authorized" /\ order' = [order EXCEPT ![o] = "done"] /\ stream' = stream
         \/ ~paused /\ order[o] = "authorized" /\ order' = [order EXCEPT ![o] = "publishing"] /\ stream' = stream
         \/ order[o] = "publishing" /\ order' = [order EXCEPT ![o] = "done"] /\ stream' \in {stream, stream \cup {o}}
      /\ UNCHANGED <<flags, mount, events, watcher, got, paused, edits, faults, held>>
  BY Zenon DEF Charged, CheckPaused, Publish, Goto
<1>2. ~paused => o \notin held
  BY Zenon DEF IInv, HeldInPause
<1>3. DataOK' /\ paused' \in BOOLEAN
  BY <1>1, TypeSplit DEF IInv, DataOK
<1>4. HeldOnTheWay' /\ PublishedLast' /\ NewOrdersHeld'
  BY <1>1, <1>2, TypeSplit DEF IInv, DataOK, HeldOnTheWay, PublishedLast, NewOrdersHeld
<1>5. HeldInPause'
  BY <1>1, Zenon DEF IInv, HeldInPause
<1> QED BY <1>3, <1>4, <1>5, Assemble

(* A restart forgets the pause, and with it what was held. *)
LEMMA RestartStep == ASSUME IInv, Restart PROVE IInv'
<1>1. /\ faults' = faults \/ (faults < MaxFaults /\ faults' = faults + 1)
      /\ events' = 0 /\ watcher' = "start" /\ got' = NoFile /\ held' = {}
      /\ order' = [o \in Order |-> IF order[o] = "new" THEN "new" ELSE "done"]
      /\ UNCHANGED <<flags, mount, stream, edits>>
  BY Zenon DEF Restart
<1>2. paused' \in BOOLEAN
  BY Zenon DEF Restart
<1>3. DataOK'
  <2>1. DataOK
    BY DataHolds
  <2>2. events' \in 0 .. MaxEvents /\ faults' \in 0 .. MaxFaults
    <3>1. events \in 0 .. MaxEvents /\ faults \in 0 .. MaxFaults
      BY <2>1, Zenon DEF DataOK
    <3> QED BY <1>1, <3>1, BoundsAssumption
  <2>3. order' \in [Order -> {"new", "charging", "authorized", "publishing", "done"}]
    BY <1>1
  <2> QED BY <1>1, <2>1, <2>2, <2>3 DEF DataOK
<1>4. HeldInPause' /\ HeldOnTheWay' /\ PublishedLast' /\ NewOrdersHeld'
  BY <1>1, TypeSplit DEF IInv, DataOK, HeldInPause, HeldOnTheWay, PublishedLast, NewOrdersHeld
<1> QED BY <1>2, <1>3, <1>4, Assemble

-----------------------------------------------------------------------------
(* The inductive invariant holds in every reachable state. *)
THEOREM BrakeInvariant == Spec => []IInv
<1>1. IInv /\ [Next]_vars => IInv'
  <2> SUFFICES ASSUME IInv, [Next]_vars PROVE IInv'
    OBVIOUS
  <2>1. CASE UNCHANGED vars
    <3>1. DataOK'
      BY <2>1, TypeSplit DEF IInv, DataOK, vars
    <3> QED BY <2>1, <3>1, OtherSteps DEF vars
  <2>2. CASE Next
    BY <2>2, EditStep, KubeletStep, ReadStep, StoreStep, ArriveStep, RequestStep, RestartStep
       DEF Next, Watcher
  <2> QED BY <2>1, <2>2
<1> QED BY InitIInv, <1>1, PTL DEF Spec

(* The state stays well typed. *)
THEOREM BrakeTypeOK == Spec => []TypeOK
<1>1. IInv => TypeOK
  BY DEF IInv
<1> QED BY BrakeInvariant, <1>1, PTL

(* An order that arrived in a pause is neither published nor about to be   *)
(* while the pause lasts, however long its Charge takes, whatever the      *)
(* watcher reads and whoever restarts.                                     *)
THEOREM NewOrdersHeldHolds == Spec => []NewOrdersHeld
<1>1. IInv => NewOrdersHeld
  BY DEF IInv
<1> QED BY BrakeInvariant, <1>1, PTL
=============================================================================
