--------------------------- MODULE BrakeLoopProofs ---------------------------
(***************************************************************************)
(* QueueStopsGrowing for every finite set of clients, every set of alerts  *)
(* and every bound.  What it rests on, IInv, is that the loop stays well   *)
(* typed: the operator and orders-svc agree on what the shared ConfigMap   *)
(* may hold, and the operator never patches an HPA in this loop.           *)
(***************************************************************************)
EXTENDS BrakeLoop, FiniteSetTheorems, TLAPS

Target == {"", "orders-svc", "payments-svc", "inventory-svc", "orders-svc-flags"}
FlagState == {"absent", "unset", "true", "false"}

(* orders-svc *)
BrakeOK ==
  /\ mount \in Brake!Text \cup {Brake!NoFile} /\ got \in Brake!Text \cup {Brake!NoFile}
  /\ watcher \in {"start", "first store", "watch", "select", "store", "dead", "ended"}
  /\ order \in [Order -> {"new", "charging", "authorized", "publishing", "done"}]
  /\ stream \subseteq Order

(* The operator: its cache knows no HPA. *)
OperatorOK ==
  /\ cached.flags \in FlagState /\ DOMAIN cached.hpa \subseteq {}
  /\ run \in [Worker -> [pc : Op!Pc, target : Target, to : Nat]]

CountersOK ==
  /\ events \in 0 .. MaxEvents /\ faults \in 0 .. MaxFaults
  /\ syncs \in 0 .. MaxSyncs /\ backlog \in 0 .. MaxBacklog

BoolOK ==
  /\ paused \in BOOLEAN /\ up \in BOOLEAN
  /\ cooling \in [Worker -> BOOLEAN] /\ firing \in [Worker -> BOOLEAN]

IInv == flags \in FlagState /\ BrakeOK /\ OperatorOK /\ CountersOK /\ BoolOK

-----------------------------------------------------------------------------
(* The parts add up to the type invariants of both components. *)
LEMMA InvImpliesTypeOK == IInv => TypeOK
<1> SUFFICES ASSUME IInv PROVE TypeOK
  OBVIOUS
<1>1. flags \in FlagState /\ BrakeOK /\ OperatorOK /\ CountersOK /\ BoolOK
  BY Zenon DEF IInv
<1>2. flags \in Brake!Text \cup {"unset", "absent"}
  BY <1>1 DEF FlagState, Brake!Text
<1>3. 0 \in 0 .. 0 /\ {} \subseteq Order
  OBVIOUS
<1>4. Brake!TypeOK
  BY <1>1, <1>2, <1>3, Zenon DEF BrakeOK, CountersOK, BoolOK, Brake!TypeOK
<1>5. DOMAIN << >> = {} /\ "stable" \in Op!RolloutState
  BY DEF Op!RolloutState
<1>6. \A w \in Worker : run[w].pc \in Op!Pc /\ run[w].to \in Nat
  BY <1>1 DEF OperatorOK
<1>7. flags \in Op!FlagState /\ cached.flags \in Op!FlagState
  BY <1>1 DEF OperatorOK, FlagState, Op!FlagState
<1>8. Op!RemediesTypeOK
  BY <1>1, <1>5, <1>6, <1>7, Zenon DEF OperatorOK, CountersOK, Op!RemediesTypeOK
<1>9. Op!TypeOK
  BY <1>1, <1>3, <1>8, Zenon DEF BoolOK, Op!TypeOK, Op!Fingerprint
<1> QED BY <1>1, <1>4, <1>9, Zenon DEF TypeOK, CountersOK

(* The loop starts with the flag on, which both components accept. *)
LEMMA InitIInv == Init => IInv
<1> SUFFICES ASSUME Init PROVE IInv
  OBVIOUS
<1>1. Op!Init /\ Op!RemediesInit /\ Brake!Init /\ syncs = 0 /\ backlog = 0
  BY Zenon DEF Init, Op!Init
<1>2. /\ flags \in {"true", "false"} /\ mount = flags /\ events = 0 /\ watcher = "start"
      /\ got = Brake!NoFile /\ order = [o \in Order |-> "new"] /\ stream = {} /\ faults = 0
  BY <1>1, Zenon DEF Brake!Init
<1>3. BrakeOK
  BY <1>2 DEF BrakeOK, Brake!Text
<1>4. cached = [hpa |-> << >>, flags |-> flags] /\ run = [w \in Worker |-> Op!IdleRun]
  BY <1>1, Zenon DEF Op!RemediesInit
<1>5. flags \in FlagState
  BY <1>2 DEF FlagState
<1>6. cached.flags = flags /\ DOMAIN cached.hpa \subseteq {}
  BY <1>4
<1>7. run \in [Worker -> [pc : Op!Pc, target : Target, to : Nat]]
  BY <1>4 DEF Op!IdleRun, Op!Pc, Op!NoTarget, Target
<1>8. CountersOK
  BY <1>1, <1>2, BacklogAssumption, BoundsAssumption DEF CountersOK
<1>9. BoolOK
  BY <1>1, Zenon DEF BoolOK, Brake!Init, Op!Init, Op!Fingerprint
<1> QED BY <1>3, <1>5, <1>6, <1>7, <1>8, <1>9 DEF IInv, OperatorOK

(* The parts of the invariant. *)
LEMMA Parts == IInv => flags \in FlagState /\ BrakeOK /\ OperatorOK /\ CountersOK /\ BoolOK
BY Zenon DEF IInv

-----------------------------------------------------------------------------
(* orders-svc and the worker: the operator's state is as before. *)
LEMMA OrdersSide ==
  ASSUME IInv, flags' = flags, UNCHANGED operatorVars, BrakeOK', CountersOK', paused' \in BOOLEAN
  PROVE  IInv'
<1>1. UNCHANGED <<cached, run, up, cooling, firing>>
  BY Zenon DEF operatorVars
<1>2. BoolOK'
  BY <1>1, Parts, Zenon DEF BoolOK
<1>3. OperatorOK'
  BY <1>1, Parts, Zenon DEF OperatorOK
<1> QED BY <1>2, <1>3, Parts, Zenon DEF IInv

(* A client's next request begins a new handleCreate. *)
LEMMA RequestStep == ASSUME IInv, NEW o \in Order, Request(o) PROVE IInv'
<1>1. /\ order' = [order EXCEPT ![o] = "charging"] /\ stream' = stream \ {o}
      /\ UNCHANGED operatorVars
      /\ UNCHANGED <<flags, mount, events, watcher, got, paused, faults, syncs, backlog>>
  BY Zenon DEF Request
<1>2. BrakeOK'
  BY <1>1, Parts DEF BrakeOK
<1>3. CountersOK'
  BY <1>1, Parts, Zenon DEF CountersOK
<1>4. paused' \in BOOLEAN
  BY <1>1, Parts, Zenon DEF BoolOK
<1> QED BY <1>1, <1>2, <1>3, <1>4, OrdersSide

(* handleCreate up to the check of the flag. *)
LEMMA HandleStep == ASSUME IInv, NEW o \in Order, Handle(o) PROVE IInv'
<1>1. PICK to \in {"authorized", "publishing", "done"} : order' = [order EXCEPT ![o] = to]
  BY Zenon DEF Handle, Brake!Charged, Brake!CheckPaused, Brake!Goto
<1>2. /\ UNCHANGED operatorVars
      /\ UNCHANGED <<flags, mount, events, watcher, got, paused, stream, faults, syncs, backlog>>
  BY Zenon DEF Handle, Brake!Charged, Brake!CheckPaused
<1>3. BrakeOK'
  BY <1>1, <1>2, Parts DEF BrakeOK
<1>4. CountersOK'
  BY <1>2, Parts, Zenon DEF CountersOK
<1>5. paused' \in BOOLEAN
  BY <1>2, Parts, Zenon DEF BoolOK
<1> QED BY <1>2, <1>3, <1>4, <1>5, OrdersSide

(* An event is queued only where the queue has room. *)
LEMMA PublishStep == ASSUME IInv, NEW o \in Order, Publish(o) PROVE IInv'
<1>1. /\ order' = [order EXCEPT ![o] = "done"]
      /\ stream' = stream \/ stream' = stream \cup {o}
      /\ backlog < MaxBacklog /\ (backlog' = backlog \/ backlog' = backlog + 1)
      /\ UNCHANGED operatorVars
      /\ UNCHANGED <<flags, mount, events, watcher, got, paused, faults, syncs>>
  BY Zenon DEF Publish, Brake!Publish, Brake!Goto
<1>2. BrakeOK'
  BY <1>1, Parts DEF BrakeOK
<1>3. CountersOK'
  BY <1>1, Parts, BacklogAssumption DEF CountersOK
<1>4. paused' \in BOOLEAN
  BY <1>1, Parts, Zenon DEF BoolOK
<1> QED BY <1>1, <1>2, <1>3, <1>4, OrdersSide

(* The worker settles a message that is there. *)
LEMMA SettleStep == ASSUME IInv, Settle PROVE IInv'
<1>1. /\ backlog > 0 /\ backlog' = backlog - 1 /\ UNCHANGED brakeVars /\ UNCHANGED operatorVars
      /\ UNCHANGED <<flags, faults, syncs>>
  BY Zenon DEF Settle
<1>2. UNCHANGED <<mount, events, watcher, got, paused, order, stream>>
  BY <1>1, Zenon DEF brakeVars
<1>3. BrakeOK'
  BY <1>2, Parts, Zenon DEF BrakeOK
<1>4. CountersOK'
  BY <1>1, <1>2, Parts, BacklogAssumption DEF CountersOK
<1>5. paused' \in BOOLEAN
  BY <1>2, Parts, Zenon DEF BoolOK
<1> QED BY <1>1, <1>3, <1>4, <1>5, OrdersSide

(* The watcher, kubelet and the restarts of orders-svc. *)
LEMMA FollowStep ==
  ASSUME IInv, Follow \/ ((Brake!WatchFails \/ Brake!ContextDone) /\ UNCHANGED <<operatorVars, syncs, backlog>>)
  PROVE IInv'
<1>1. /\ UNCHANGED operatorVars /\ UNCHANGED <<flags, mount, order, stream, syncs, backlog>>
      /\ got' = got \/ got' = mount
      /\ events' = events \/ (events > 0 /\ events' = events - 1)
      /\ faults' = faults \/ (faults < MaxFaults /\ faults' = faults + 1)
  BY Zenon DEF Follow, Brake!Watcher, Brake!FirstRead, Brake!FirstStore, Brake!AddWatch, Brake!OnEvent,
               Brake!StoreRead, Brake!OnTick, Brake!WatchFails, Brake!ContextDone, Brake!ReadFile, Brake!Store
<1>2. watcher' \in {"first store", "watch", "select", "store", "dead", "ended"}
  BY Zenon DEF Follow, Brake!Watcher, Brake!FirstRead, Brake!FirstStore, Brake!AddWatch, Brake!OnEvent,
               Brake!StoreRead, Brake!OnTick, Brake!WatchFails, Brake!ContextDone, Brake!ReadFile, Brake!Store
<1>3. paused' \in BOOLEAN
  <2>1. paused' = paused \/ paused' = ~Brake!Enabled(got)
    BY Zenon DEF Follow, Brake!Watcher, Brake!FirstRead, Brake!FirstStore, Brake!AddWatch, Brake!OnEvent,
                 Brake!StoreRead, Brake!OnTick, Brake!WatchFails, Brake!ContextDone, Brake!ReadFile, Brake!Store
  <2> QED BY <2>1, Parts, Zenon DEF BoolOK
<1>4. BrakeOK'
  BY <1>1, <1>2, Parts DEF BrakeOK
<1>5. CountersOK'
  BY <1>1, Parts, BoundsAssumption DEF CountersOK
<1> QED BY <1>1, <1>3, <1>4, <1>5, OrdersSide

(* What kubelet projects is a text the watcher knows. *)
LEMMA KubeletStep == ASSUME IInv, Kubelet PROVE IInv'
<1>1. /\ UNCHANGED operatorVars
      /\ UNCHANGED <<flags, watcher, got, paused, order, stream, syncs, backlog>>
      /\ flags # "absent" /\ mount' = Brake!FileOf(flags)
      /\ events' = events \/ (events < MaxEvents /\ events' = events + 1)
      /\ faults' = faults \/ (faults < MaxFaults /\ faults' = faults + 1)
  BY Zenon DEF Kubelet, Brake!KubeletSync
<1>2. mount' \in Brake!Text \cup {Brake!NoFile}
  BY <1>1, Parts DEF FlagState, Brake!FileOf, Brake!Text
<1>3. BrakeOK'
  BY <1>1, <1>2, Parts, Zenon DEF BrakeOK
<1>4. CountersOK'
  BY <1>1, Parts, BoundsAssumption DEF CountersOK
<1>5. paused' \in BOOLEAN
  BY <1>1, Parts, Zenon DEF BoolOK
<1> QED BY <1>1, <1>3, <1>4, <1>5, OrdersSide

(* A restart of orders-svc ends its handlers. *)
LEMMA OrdersRestartStep ==
  ASSUME IInv, Brake!Restart, UNCHANGED <<operatorVars, syncs, backlog>> PROVE IInv'
<1>1. /\ faults' = faults \/ (faults < MaxFaults /\ faults' = faults + 1)
      /\ events' = 0 /\ watcher' = "start" /\ got' = Brake!NoFile
      /\ order' = [o \in Order |-> IF order[o] = "new" THEN "new" ELSE "done"]
      /\ UNCHANGED operatorVars /\ UNCHANGED <<flags, mount, stream, syncs, backlog>>
  BY Zenon DEF Brake!Restart
<1>2. order' \in [Order -> {"new", "charging", "authorized", "publishing", "done"}]
  BY <1>1
<1>3. BrakeOK'
  BY <1>1, <1>2, Parts DEF BrakeOK
<1>4. CountersOK'
  BY <1>1, Parts, BoundsAssumption DEF CountersOK
<1>5. paused' \in BOOLEAN
  BY Zenon DEF Brake!Restart
<1> QED BY <1>1, <1>3, <1>4, <1>5, OrdersSide

-----------------------------------------------------------------------------
(* The operator, AlertManager and Argo CD: orders-svc is as before. *)
LEMMA OperatorSide ==
  ASSUME IInv, UNCHANGED brakeVars, flags' \in FlagState, OperatorOK',
         faults' \in 0 .. MaxFaults, syncs' \in 0 .. MaxSyncs, backlog' = backlog,
         up' \in BOOLEAN, cooling' \in [Worker -> BOOLEAN], firing' \in [Worker -> BOOLEAN]
  PROVE  IInv'
<1>1. UNCHANGED <<mount, events, watcher, got, paused, order, stream>>
  BY Zenon DEF brakeVars
<1>2. BrakeOK'
  BY <1>1, Parts, Zenon DEF BrakeOK
<1>3. CountersOK'
  BY <1>1, Parts, Zenon DEF CountersOK
<1>4. BoolOK'
  BY <1>1, Parts, Zenon DEF BoolOK
<1> QED BY <1>2, <1>3, <1>4, Zenon DEF IInv

(* The counters and Booleans where nothing says otherwise. *)
LEMMA Kept ==
  IInv => /\ faults \in 0 .. MaxFaults /\ syncs \in 0 .. MaxSyncs
          /\ up \in BOOLEAN /\ cooling \in [Worker -> BOOLEAN] /\ firing \in [Worker -> BOOLEAN]
BY Parts, Zenon DEF CountersOK, BoolOK

(* A fault that is still allowed keeps the count within its bound. *)
LEMMA OneFault == ASSUME IInv, faults < MaxFaults, faults' = faults + 1 PROVE faults' \in 0 .. MaxFaults
BY Kept, BoundsAssumption

(* A call of Apply goes on, returns or fails. *)
LEMMA GoEffect ==
  ASSUME IInv, NEW w \in Worker, NEW p \in Op!Pc, Op!Go(w, p), cached' = cached
  PROVE  OperatorOK'
BY Parts DEF OperatorOK, Op!Go

(* An alert starts the remedy that the classifier says. *)
LEMMA DispatchStep ==
  ASSUME IInv, NEW f \in Worker, Op!Dispatch(f), UNCHANGED <<brakeVars, syncs, backlog>> PROVE IInv'
<1> DEFINE d == Op!DecisionOf(f)
<1>1. /\ d.kind # "NoRemedy"
      /\ run' = [run EXCEPT ![f] = [pc |-> Op!FirstStep(d.kind), target |-> d.target, to |-> 0]]
      /\ UNCHANGED <<flags, cached, faults>>
  BY DEF Op!Dispatch, Op!Apply
<1>2. UNCHANGED <<up, firing>> /\ cooling' = [cooling EXCEPT ![f] = TRUE]
  BY Zenon DEF Op!Dispatch
<1>3. d.kind \in {"NoRemedy", "Rollback", "ScaleUp", "CircuitBreak"} /\ d.target \in Target
  BY DEF Op!DecisionOf, Op!Classify, Op!Decide, Op!NoTarget, Target,
         Op!EmailWorkerBurns, Op!OrdersBurn, Op!PaymentsBurn, Op!InventoryBurns
<1>4. Op!FirstStep(d.kind) \in Op!Pc
  BY <1>1, <1>3 DEF Op!FirstStep, Op!Pc
<1>5. OperatorOK'
  BY <1>1, <1>3, <1>4, Parts DEF OperatorOK
<1>6. cooling' \in [Worker -> BOOLEAN]
  BY <1>2, Kept
<1>7. up' \in BOOLEAN /\ firing' \in [Worker -> BOOLEAN] /\ faults' \in 0 .. MaxFaults /\ syncs' \in 0 .. MaxSyncs
  BY <1>1, <1>2, Kept, Zenon
<1>8. UNCHANGED brakeVars /\ backlog' = backlog /\ flags' \in FlagState
  BY <1>1, Parts, Zenon
<1> QED BY <1>5, <1>6, <1>7, <1>8, OperatorSide

(* A step of a remedy in flight.  There is no HPA to read or to patch. *)
LEMMA ProgressStep ==
  ASSUME IInv, NEW f \in Worker, Op!RemedyStep(f), UNCHANGED <<brakeVars, syncs, backlog>> PROVE IInv'
<1>1. Op!Progress(f) /\ UNCHANGED <<up, cooling, firing>>
  BY Zenon DEF Op!RemedyStep, Op!operatorVars
<1>2. ~Op!ScaleGet(f)
  BY Parts DEF OperatorOK, Op!ScaleGet
<1>3. ~Op!ScalePatch(f)
  <2>1. DOMAIN << >> = {}
    OBVIOUS
  <2> QED BY <2>1 DEF Op!ScalePatch, Op!ScalePatchLegal
<1>4. CASE Op!Return(f)
  <2>1. run' = [run EXCEPT ![f] = Op!IdleRun] /\ UNCHANGED <<flags, cached, faults>>
    BY <1>4, Zenon DEF Op!Return
  <2>2. Op!IdleRun \in [pc : Op!Pc, target : Target, to : Nat]
    BY DEF Op!IdleRun, Op!Pc, Op!NoTarget, Target
  <2>3. OperatorOK'
    BY <2>1, <2>2, Parts DEF OperatorOK
  <2>4. flags' \in FlagState /\ faults' \in 0 .. MaxFaults
    BY <2>1, Parts, Kept, Zenon
  <2> QED BY <1>1, <2>3, <2>4, Kept, OperatorSide, Zenon
<1>5. CASE Op!FlagsGet(f)
  <2>1. UNCHANGED <<flags, cached, faults>>
    BY <1>5, Zenon DEF Op!FlagsGet
  <2>2. PICK p \in {"flagsCreate", "flagsPatch", "return"} : Op!Go(f, p)
    BY <1>5 DEF Op!FlagsGet
  <2>3. p \in Op!Pc
    BY DEF Op!Pc
  <2>4. OperatorOK'
    BY <2>1, <2>2, <2>3, GoEffect
  <2>5. flags' \in FlagState /\ faults' \in 0 .. MaxFaults
    BY <2>1, Parts, Kept, Zenon
  <2> QED BY <1>1, <2>4, <2>5, Kept, OperatorSide, Zenon
<1>6. CASE Op!ScaleGetMissing(f) \/ Op!ScalePatchRefused(f) \/ Op!FlagsCreate(f) \/ Op!FlagsCreateRefused(f)
             \/ Op!FlagsPatch(f) \/ Op!FlagsPatchRefused(f) \/ Op!AbortRollout(f) \/ Op!AbortRefused(f)
  <2>1. /\ Op!Go(f, "return") /\ UNCHANGED <<cached, faults>>
        /\ flags' = flags \/ flags' = "false"
    BY <1>6, Zenon DEF Op!ScaleGetMissing, Op!ScalePatchRefused, Op!FlagsCreate, Op!FlagsCreateRefused,
         Op!FlagsPatch, Op!FlagsPatchRefused, Op!AbortRollout, Op!AbortRefused, Op!Refused, Op!FlagsWrite
  <2>2. "return" \in Op!Pc /\ "false" \in FlagState
    BY DEF Op!Pc, FlagState
  <2>3. OperatorOK'
    BY <2>1, <2>2, GoEffect
  <2>4. flags' \in FlagState /\ faults' \in 0 .. MaxFaults
    BY <2>1, <2>2, Parts, Kept, Zenon
  <2> QED BY <1>1, <2>3, <2>4, Kept, OperatorSide, Zenon
<1> QED BY <1>1, <1>2, <1>3, <1>4, <1>5, <1>6, Zenon DEF Op!Progress

(* A failed API call ends the remedy. *)
LEMMA FailsStep ==
  ASSUME IInv, NEW f \in Worker, Op!RemedyFails(f), UNCHANGED <<brakeVars, syncs, backlog>> PROVE IInv'
<1>1. /\ faults < MaxFaults /\ faults' = faults + 1 /\ Op!Go(f, "return")
      /\ UNCHANGED <<flags, cached>> /\ UNCHANGED <<up, cooling, firing>>
  BY Zenon DEF Op!RemedyFails, Op!CallFails, Op!operatorVars
<1>2. "return" \in Op!Pc
  BY DEF Op!Pc
<1>3. OperatorOK'
  BY <1>1, <1>2, GoEffect
<1>4. flags' \in FlagState /\ faults' \in 0 .. MaxFaults
  BY <1>1, Parts, OneFault
<1> QED BY <1>1, <1>3, <1>4, Kept, OperatorSide, Zenon

(* A cooldown ends. *)
LEMMA CooldownEndsStep ==
  ASSUME IInv, NEW f \in Worker, Op!CooldownEnds(f), UNCHANGED <<brakeVars, syncs, backlog>> PROVE IInv'
<1>1. UNCHANGED Op!remedyVars /\ UNCHANGED <<up, firing>> /\ cooling' = [cooling EXCEPT ![f] = FALSE]
  BY Zenon DEF Op!CooldownEnds
<1>2. UNCHANGED <<flags, cached, run, faults>>
  BY <1>1, Zenon DEF Op!remedyVars
<1>3. cooling' \in [Worker -> BOOLEAN]
  BY <1>1, Kept
<1>4. OperatorOK'
  BY <1>2, Parts, Zenon DEF OperatorOK
<1>5. flags' \in FlagState /\ faults' \in 0 .. MaxFaults
  BY <1>2, Parts, Kept, Zenon
<1> QED BY <1>1, <1>3, <1>4, <1>5, Kept, OperatorSide, Zenon

(* The cache after a sync or a restart has no HPA either. *)
LEMMA CacheEffect ==
  ASSUME IInv, cached' = [hpa |-> << >>, flags |-> flags], run' = run PROVE OperatorOK'
<1>1. cached'.flags = flags /\ DOMAIN cached'.hpa \subseteq {}
  OBVIOUS
<1> QED BY <1>1, Parts DEF OperatorOK

(* The cache, a crash and a restart of the operator. *)
LEMMA ProcessStep ==
  ASSUME IInv, OperatorProcess PROVE IInv'
<1>1. UNCHANGED <<brakeVars, syncs, backlog>>
  BY Zenon DEF OperatorProcess
<1>2. CASE Op!CacheSync
  <2>1. /\ cached' = [hpa |-> << >>, flags |-> flags] /\ UNCHANGED <<flags, run, faults>>
        /\ UNCHANGED <<up, cooling, firing>>
    BY <1>2, Zenon DEF Op!CacheSync, Op!Sync, Op!operatorVars
  <2>2. flags' \in FlagState /\ faults' \in 0 .. MaxFaults
    BY <2>1, Parts, Kept, Zenon
  <2>3. OperatorOK'
    BY <2>1, CacheEffect
  <2> QED BY <1>1, <2>1, <2>2, <2>3, Kept, OperatorSide, Zenon
<1>3. CASE Op!Crash
  <2>1. /\ faults < MaxFaults /\ faults' = faults + 1 /\ run' = [w \in Worker |-> Op!IdleRun]
        /\ UNCHANGED <<flags, cached>>
    BY <1>3, Zenon DEF Op!Crash
  <2>2. Op!IdleRun \in [pc : Op!Pc, target : Target, to : Nat]
    BY DEF Op!IdleRun, Op!Pc, Op!NoTarget, Target
  <2>3. OperatorOK'
    BY <2>1, <2>2, Parts DEF OperatorOK
  <2>4. flags' \in FlagState /\ faults' \in 0 .. MaxFaults
    BY <2>1, Parts, OneFault
  <2>5. up' \in BOOLEAN /\ UNCHANGED <<cooling, firing>>
    BY <1>3, Zenon DEF Op!Crash
  <2> QED BY <1>1, <2>3, <2>4, <2>5, Kept, OperatorSide, Zenon
<1>4. CASE Op!Restart
  <2>1. cached' = [hpa |-> << >>, flags |-> flags] /\ UNCHANGED <<flags, run, faults>>
    BY <1>4, Zenon DEF Op!Restart
  <2>2. flags' \in FlagState /\ faults' \in 0 .. MaxFaults
    BY <2>1, Parts, Kept, Zenon
  <2>3. OperatorOK'
    BY <2>1, CacheEffect
  <2>4. up' \in BOOLEAN /\ firing' = firing /\ cooling' = [f \in Worker |-> FALSE]
    BY <1>4, Zenon DEF Op!Restart, Op!Fingerprint
  <2>5. cooling' \in [Worker -> BOOLEAN]
    BY <2>4
  <2> QED BY <1>1, <2>2, <2>3, <2>4, <2>5, Kept, OperatorSide, Zenon
<1> QED BY <1>2, <1>3, <1>4, Zenon DEF OperatorProcess

(* Argo CD writes the flag back. *)
LEMMA GitOpsStep == ASSUME IInv, GitOps PROVE IInv'
<1>1. /\ UNCHANGED brakeVars /\ backlog' = backlog /\ flags' = "true"
      /\ UNCHANGED <<cached, run, faults>> /\ UNCHANGED <<up, cooling, firing>>
      /\ syncs' = syncs \/ (syncs < MaxSyncs /\ syncs' = syncs + 1)
  BY Zenon DEF GitOps, Op!GitOpsSync
<1>2. syncs' \in 0 .. MaxSyncs
  BY <1>1, Kept, BoundsAssumption
<1>3. OperatorOK'
  BY <1>1, Parts, Zenon DEF OperatorOK
<1>4. flags' \in FlagState
  BY <1>1 DEF FlagState
<1> QED BY <1>1, <1>2, <1>3, <1>4, Kept, OperatorSide, Zenon

(* An alert begins or ceases to fire. *)
LEMMA AlertingStep == ASSUME IInv, NEW f \in Worker, Alerting(f) PROVE IInv'
<1>1. /\ UNCHANGED <<brakeVars, syncs, backlog>> /\ UNCHANGED Op!remedyVars /\ UNCHANGED <<up, cooling>>
      /\ firing' = [firing EXCEPT ![f] = ~@]
  BY Zenon DEF Alerting, Op!Alerting
<1>2. UNCHANGED <<flags, cached, run, faults>>
  BY <1>1, Zenon DEF Op!remedyVars
<1>3. firing' \in [Worker -> BOOLEAN]
  BY <1>1, Kept
<1>4. OperatorOK'
  BY <1>2, Parts, Zenon DEF OperatorOK
<1>5. flags' \in FlagState /\ faults' \in 0 .. MaxFaults
  BY <1>2, Parts, Kept, Zenon
<1> QED BY <1>1, <1>3, <1>4, <1>5, Kept, OperatorSide, Zenon

-----------------------------------------------------------------------------
(* The inductive invariant holds in every reachable state. *)
THEOREM LoopInvariant == Spec => []IInv
<1>1. IInv /\ [Next]_vars => IInv'
  <2> SUFFICES ASSUME IInv, [Next]_vars PROVE IInv'
    OBVIOUS
  <2>1. CASE UNCHANGED vars
    <3>1. /\ UNCHANGED operatorVars
          /\ UNCHANGED <<flags, mount, events, watcher, got, paused, order, stream, faults, syncs, backlog>>
      BY <2>1, Zenon DEF vars, brakeVars
    <3>2. BrakeOK' /\ CountersOK' /\ paused' \in BOOLEAN
      BY <3>1, Parts, Zenon DEF BrakeOK, CountersOK, BoolOK
    <3> QED BY <3>1, <3>2, OrdersSide
  <2>2. CASE \E o \in Order : Request(o) \/ Handle(o) \/ Publish(o)
    BY <2>2, RequestStep, HandleStep, PublishStep, Zenon
  <2>3. CASE Follow \/ Kubelet \/ OrdersFaults \/ Settle
    <3>1. CASE OrdersFaults
      <4>1. UNCHANGED <<operatorVars, syncs, backlog>> /\ (Brake!Restart \/ Brake!WatchFails \/ Brake!ContextDone)
        BY <3>1, Zenon DEF OrdersFaults
      <4> QED BY <4>1, FollowStep, OrdersRestartStep
    <3> QED BY <2>3, <3>1, FollowStep, KubeletStep, SettleStep
  <2>4. CASE \E f \in Worker : Operator(f) \/ Alerting(f)
    BY <2>4, DispatchStep, ProgressStep, FailsStep, CooldownEndsStep, AlertingStep, Zenon DEF Operator
  <2>5. CASE OperatorProcess \/ GitOps
    BY <2>5, ProcessStep, GitOpsStep, Zenon
  <2> QED BY <2>1, <2>2, <2>3, <2>4, <2>5, Zenon DEF Next
<1> QED BY InitIInv, <1>1, PTL DEF Spec

(* In the composed system too each component's state keeps its type,       *)
(* although both write the ConfigMap or the bound on faults, and the queue *)
(* never holds fewer than no messages.                                     *)
LEMMA LoopTypeOK == Spec => []TypeOK
BY LoopInvariant, InvImpliesTypeOK, PTL

-----------------------------------------------------------------------------
(* What a step does not do while publishing is paused. *)
NotGrowing == backlog' + Cardinality(InFlight') <= backlog + Cardinality(InFlight)

(* The numbers that are compared. *)
LEMMA Countable == IInv => backlog \in Nat /\ IsFiniteSet(InFlight) /\ Cardinality(InFlight) \in Nat
<1> SUFFICES ASSUME IInv PROVE backlog \in Nat /\ IsFiniteSet(InFlight) /\ Cardinality(InFlight) \in Nat
  OBVIOUS
<1>1. backlog \in Nat
  BY Parts, BacklogAssumption DEF CountersOK
<1>2. IsFiniteSet(InFlight)
  BY OrderAssumption, FS_Subset DEF InFlight
<1> QED BY <1>1, <1>2, FS_CardinalityType

(* Steps that neither check nor publish an order. *)
LEMMA NothingChecked ==
  ASSUME IInv, InFlight' = InFlight, backlog' = backlog \/ backlog' = backlog - 1
  PROVE  NotGrowing
BY Countable DEF NotGrowing

(* A new request is not in flight, and one that is checked in the pause    *)
(* does not get there.                                                     *)
LEMMA HandlerNotGrowing ==
  ASSUME IInv, paused, NEW o \in Order, Request(o) \/ Handle(o)
  PROVE  NotGrowing
<1>1. /\ backlog' = backlog
      /\ order[o] \in {"new", "done", "charging", "authorized"}
  BY Zenon DEF Request, Handle, Brake!Charged, Brake!CheckPaused
<1>2. PICK to \in {"charging", "authorized", "done"} : order' = [order EXCEPT ![o] = to]
  BY Zenon DEF Request, Handle, Brake!Charged, Brake!CheckPaused, Brake!Goto
<1>3. order \in [Order -> {"new", "charging", "authorized", "publishing", "done"}]
  BY Parts, Zenon DEF BrakeOK
<1>4. InFlight' = InFlight
  BY <1>1, <1>2, <1>3 DEF InFlight
<1> QED BY <1>1, <1>4, NothingChecked

(* An order that was checked before the pause moves into the queue. *)
LEMMA PublishNotGrowing ==
  ASSUME IInv, NEW o \in Order, Publish(o)
  PROVE  NotGrowing
<1>1. /\ order[o] = "publishing" /\ order' = [order EXCEPT ![o] = "done"]
      /\ backlog' = backlog \/ backlog' = backlog + 1
  BY Zenon DEF Publish, Brake!Publish, Brake!Goto
<1>2. order \in [Order -> {"new", "charging", "authorized", "publishing", "done"}]
  BY Parts, Zenon DEF BrakeOK
<1>3. o \in InFlight /\ InFlight' = InFlight \ {o}
  BY <1>1, <1>2 DEF InFlight
<1>4. Cardinality(InFlight') = Cardinality(InFlight) - 1
  BY <1>3, Countable, FS_RemoveElement
<1> QED BY <1>1, <1>4, Countable DEF NotGrowing

(* Everybody else leaves the handlers alone, and a restart ends the pause. *)
LEMMA OthersNotGrowing ==
  ASSUME IInv, paused',
         \/ Follow \/ Kubelet \/ OrdersFaults \/ Settle \/ OperatorProcess \/ GitOps
         \/ \E f \in Worker : Operator(f) \/ Alerting(f)
         \/ UNCHANGED vars
  PROVE  NotGrowing
<1>1. ~Brake!Restart
  BY Zenon DEF Brake!Restart
<1>2. order' = order /\ (backlog' = backlog \/ backlog' = backlog - 1)
  <2>1. CASE Follow \/ Kubelet \/ OrdersFaults
    BY <1>1, <2>1, Zenon DEF Follow, Kubelet, OrdersFaults, Brake!KubeletSync, Brake!Watcher, Brake!FirstRead,
       Brake!FirstStore, Brake!AddWatch, Brake!OnEvent, Brake!StoreRead, Brake!OnTick, Brake!WatchFails,
       Brake!ContextDone, Brake!ReadFile, Brake!Store
  <2>2. CASE Settle \/ OperatorProcess \/ GitOps
    BY <2>2, Zenon DEF Settle, OperatorProcess, GitOps, brakeVars
  <2>3. CASE \E f \in Worker : Operator(f) \/ Alerting(f)
    BY <2>3, Zenon DEF Operator, Alerting, brakeVars
  <2>4. CASE UNCHANGED vars
    BY <2>4, Zenon DEF vars, brakeVars
  <2> QED BY <2>1, <2>2, <2>3, <2>4, Zenon
<1>3. InFlight' = InFlight
  BY <1>2 DEF InFlight
<1> QED BY <1>2, <1>3, NothingChecked

(* However many clients there are and whatever fails, from the moment the  *)
(* flag is stored until it is taken back the queue can only take in the    *)
(* orders that handleCreate had checked before.                            *)
THEOREM QueueStopsGrowingHolds == Spec => QueueStopsGrowing
<1>1. IInv /\ [Next]_vars
        => [paused /\ paused' => backlog' + Cardinality(InFlight') <= backlog + Cardinality(InFlight)]_vars
  <2> SUFFICES ASSUME IInv, [Next]_vars, paused, paused' PROVE NotGrowing
    BY Zenon DEF NotGrowing
  <2>1. CASE \E o \in Order : Request(o) \/ Handle(o) \/ Publish(o)
    BY <2>1, HandlerNotGrowing, PublishNotGrowing, Zenon
  <2> QED BY <2>1, OthersNotGrowing, Zenon DEF Next
<1> QED BY LoopInvariant, <1>1, PTL DEF Spec, QueueStopsGrowing
=============================================================================
