--------------------------- MODULE OperatorProofs ---------------------------
(***************************************************************************)
(* TypeOK and BumpsByStep for every set of alerts and HPAs, every step,    *)
(* every number of faults and edits.                                       *)
(*                                                                         *)
(* ScaleUp.Apply reads the informer cache and patches without a            *)
(* resourceVersion, so what makes a patch right is never checked: it is    *)
(* that the cache is fresh, for the HPA in question, whenever the cooldown *)
(* lets an alert through (Fresh), and stays so until the patch.            *)
(***************************************************************************)
EXTENDS Operator, TLAPS

Target == {NoTarget, "orders-svc", "payments-svc", "inventory-svc", "orders-svc-flags"}

HpaSpec == [min : Nat, max : Nat]

IsHpaMap(h) == DOMAIN h \subseteq Hpa /\ h \in [DOMAIN h -> HpaSpec]

Bump == [from : Nat, to : Nat, max : Nat]

DataOK ==
  /\ IsHpaMap(hpa) /\ flags \in FlagState /\ rollout \in RolloutState
  /\ IsHpaMap(cached.hpa) /\ cached.flags \in FlagState
  /\ run \in [Worker -> [pc : Pc, target : Target, to : Nat]]
  /\ bumps \in Seq(Bump)

CountersOK == faults \in 0 .. MaxFaults /\ edits \in 0 .. MaxEdits

BoolOK == up \in BOOLEAN /\ cooling \in [Fingerprint -> BOOLEAN] /\ firing \in [Fingerprint -> BOOLEAN]

(* A remedy runs in a process that is up and keeps its alert out. *)
InCooldown(f) == up /\ cooling[f]
Admits(f) == up /\ ~cooling[f]

Guarded == \A f \in Fingerprint : run[f].pc # "idle" => InCooldown(f)

(* ScaleUp.Apply runs for the alerts that the classifier says. *)
Scales(f) == run[f].pc \in {"scaleGet", "scalePatch"}
TargetOf(f) == DecisionOf(f).target

ScalesItsTarget ==
  \A f \in Fingerprint : Scales(f) => f \in RemedyAlert("ScaleUp") /\ run[f].target = TargetOf(f)

(* The cached copy of an HPA is what the API server has. *)
Cached(t) == t \in DOMAIN Declared => cached.hpa[t] = hpa[t]

Fresh ==
  /\ DOMAIN hpa = DOMAIN Declared /\ DOMAIN cached.hpa = DOMAIN Declared
  /\ \A f \in RemedyAlert("ScaleUp") :
       /\ Admits(f) \/ run[f].pc = "scaleGet" => Cached(TargetOf(f))
       /\ run[f].pc = "scalePatch" =>
            /\ TargetOf(f) \in DOMAIN hpa
            /\ run[f].to = Bumped(hpa[TargetOf(f)]) /\ run[f].to > hpa[TargetOf(f)].min

BumpsRight ==
  \A i \in 1 .. Len(bumps) :
    /\ bumps[i].to = Bumped([min |-> bumps[i].from, max |-> bumps[i].max])
    /\ bumps[i].to > bumps[i].from

(* One alert per HPA, as in k8s/prometheus/rules, and no automated sync. *)
OneWriter ==
  /\ ~SelfHeal
  /\ \A f, g \in RemedyAlert("ScaleUp") : TargetOf(f) = TargetOf(g) => f = g

Alone == OneWriter /\ edits = 0

IInv ==
  /\ DataOK /\ CountersOK /\ BoolOK
  /\ Guarded /\ ScalesItsTarget
  /\ Alone => Fresh /\ BumpsRight

-----------------------------------------------------------------------------
(* The operators the steps are built from. *)

(* Classify answers any labels with a kind and a target it knows. *)
LEMMA ClassifyType == ASSUME NEW l PROVE Classify(l) \in Decision
BY DEF Classify, Decide, Decision, Kind, EmailWorkerBurns, OrdersBurn, PaymentsBurn, InventoryBurns, NoTarget

(* So does the decision about each alert. *)
LEMMA DecisionType ==
  ASSUME NEW f PROVE DecisionOf(f).kind \in Kind /\ DecisionOf(f).target \in Target
BY ClassifyType DEF DecisionOf, Decision, Target

(* The step is positive, whatever was configured. *)
LEMMA StepType == Step \in Nat \ {0}
BY RemediesAssumption DEF Step, DefaultStep

(* A bumped floor is a number of replicas. *)
LEMMA BumpedType == ASSUME NEW s \in HpaSpec PROVE Bumped(s) \in Nat
BY StepType DEF Bumped, HpaSpec

(* The floor and the ceiling are all that counts. *)
LEMMA BumpedSame ==
  ASSUME NEW s \in HpaSpec PROVE Bumped(s) = Bumped([min |-> s.min, max |-> s.max])
BY DEF Bumped, HpaSpec

(* Registry.Apply starts each remedy with its own first call. *)
LEMMA FirstStepType ==
  ASSUME NEW k \in Kind, k # "NoRemedy"
  PROVE  /\ FirstStep(k) \in Pc \ {"idle", "scalePatch"}
         /\ FirstStep(k) = "scaleGet" => k = "ScaleUp"
BY DEF FirstStep, Kind, Pc

(* Go moves one call, and changes nothing else about it. *)
LEMMA GoEffect ==
  ASSUME DataOK, NEW w \in Worker, NEW p \in Pc, Go(w, p)
  PROVE  /\ run' \in [Worker -> [pc : Pc, target : Target, to : Nat]]
         /\ run'[w].pc = p /\ run'[w].target = run[w].target /\ run'[w].to = run[w].to
         /\ \A v \in Worker : v # w => run'[v] = run[v]
BY DEF DataOK, Go

(* Cooldowns change only with the two variables they are read from. *)
LEMMA SameCooldowns ==
  ASSUME UNCHANGED <<up, cooling>>
  PROVE  \A f : (InCooldown(f)' <=> InCooldown(f)) /\ (Admits(f)' <=> Admits(f))
BY Zenon DEF InCooldown, Admits

(* The parts of the invariant that hold whoever else writes. *)
LEMMA Parts == IInv => DataOK /\ CountersOK /\ BoolOK /\ Guarded /\ ScalesItsTarget
BY Zenon DEF IInv

(* The cache starts as a copy, and nothing runs. *)
LEMMA InitIInv == Init => IInv
<1> SUFFICES ASSUME Init PROVE IInv
  OBVIOUS
<1>1. /\ hpa = Declared /\ flags \in {"absent", "true"} /\ rollout \in {"stable", "canary"}
      /\ cached = [hpa |-> hpa, flags |-> flags] /\ run = [w \in Worker |-> IdleRun]
      /\ faults = 0 /\ edits = 0 /\ bumps = << >>
  BY Zenon DEF Init, RemediesInit
<1>2. BoolOK
  BY Zenon DEF Init, BoolOK
<1>3. CountersOK
  BY <1>1, RemediesAssumption, EditsAssumption DEF CountersOK
<1>4. cached.hpa = Declared /\ cached.flags = flags
  BY <1>1
<1>5. IsHpaMap(hpa) /\ IsHpaMap(cached.hpa)
  BY <1>1, <1>4, RemediesAssumption DEF IsHpaMap, HpaSpec
<1>6. run \in [Worker -> [pc : Pc, target : Target, to : Nat]]
  BY <1>1 DEF IdleRun, Pc, Target
<1>7. bumps \in Seq(Bump) /\ Len(bumps) = 0
  BY <1>1
<1>8. flags \in FlagState /\ cached.flags \in FlagState /\ rollout \in RolloutState
  BY <1>1, <1>4 DEF FlagState, RolloutState
<1>9. DataOK
  BY <1>5, <1>6, <1>7, <1>8 DEF DataOK
<1>10. \A f \in Fingerprint : run[f].pc = "idle"
  BY <1>1 DEF IdleRun, Fingerprint
<1>11. Guarded /\ ScalesItsTarget
  BY <1>10 DEF Guarded, ScalesItsTarget, Scales
<1>12. Fresh
  BY <1>1, <1>4, <1>10 DEF Fresh, Cached, RemedyAlert
<1>13. BumpsRight
  BY <1>7 DEF BumpsRight
<1> QED BY <1>2, <1>3, <1>9, <1>11, <1>12, <1>13 DEF IInv

-----------------------------------------------------------------------------
(* Calls that write no HPA *)

(* Of a call that neither reads nor patches an HPA after the step, and of  *)
(* the calls that do not take part in it, there is nothing to show.        *)
LEMMA OtherCallStep ==
  ASSUME IInv, NEW w \in Worker, run[w].pc # "idle",
         run' \in [Worker -> [pc : Pc, target : Target, to : Nat]],
         run'[w].pc \notin {"scaleGet", "scalePatch"},
         \A v \in Worker : v # w => run'[v] = run[v],
         flags' \in FlagState, rollout' \in RolloutState, CountersOK',
         UNCHANGED <<hpa, cached, bumps>>, UNCHANGED operatorVars
  PROVE  IInv'
<1>1. UNCHANGED <<up, cooling, firing, edits>>
  BY Zenon DEF operatorVars
<1>2. \A f : (InCooldown(f)' <=> InCooldown(f)) /\ (Admits(f)' <=> Admits(f))
  BY <1>1, SameCooldowns
<1>3. DataOK /\ BoolOK /\ Guarded /\ ScalesItsTarget
  BY Parts
<1>4. BoolOK'
  BY <1>1, <1>3, Zenon DEF BoolOK
<1>5. DataOK'
  BY <1>3 DEF DataOK, IsHpaMap
<1>6. Guarded'
  BY <1>2, <1>3 DEF Guarded, Fingerprint
<1>7. ScalesItsTarget'
  BY <1>3 DEF ScalesItsTarget, Scales, Fingerprint
<1>8. ASSUME Alone' PROVE Fresh' /\ BumpsRight'
  <2>1. Fresh /\ BumpsRight
    BY <1>1, <1>8 DEF IInv, Alone
  <2>2. Fresh'
    BY <1>2, <2>1 DEF Fresh, Cached, RemedyAlert, Fingerprint
  <2>3. BumpsRight'
    BY <2>1 DEF BumpsRight
  <2> QED BY <2>2, <2>3
<1> QED BY <1>4, <1>5, <1>6, <1>7, <1>8 DEF IInv

(* The same for a call that only moves on. *)
LEMMA GoStep ==
  ASSUME IInv, NEW w \in Worker, NEW p \in Pc \ {"scaleGet", "scalePatch"}, run[w].pc # "idle", Go(w, p),
         flags' \in FlagState, rollout' \in RolloutState, CountersOK',
         UNCHANGED <<hpa, cached, bumps>>, UNCHANGED operatorVars
  PROVE  IInv'
BY Parts, GoEffect, OtherCallStep

(* Counters that do not move stay within their bounds. *)
LEMMA SameCounters == ASSUME IInv, UNCHANGED <<faults, edits>> PROVE CountersOK'
BY Parts DEF CountersOK

(* A call that finds its object missing, or is refused, ends its remedy. *)
LEMMA RefusedStep ==
  ASSUME IInv, NEW w \in Worker, run[w].pc # "idle", UNCHANGED operatorVars,
         ScaleGetMissing(w) \/ ScalePatchRefused(w) \/ FlagsCreateRefused(w) \/ FlagsPatchRefused(w)
           \/ AbortRefused(w)
  PROVE  IInv'
<1>1. Go(w, "return") /\ UNCHANGED <<hpa, flags, rollout, cached, faults, bumps>>
  BY Zenon DEF ScaleGetMissing, ScalePatchRefused, FlagsCreateRefused, FlagsPatchRefused, AbortRefused, Refused
<1>2. CountersOK'
  BY <1>1, SameCounters DEF operatorVars
<1>3. flags' \in FlagState /\ rollout' \in RolloutState
  BY <1>1, Parts DEF DataOK
<1>4. "return" \in Pc \ {"scaleGet", "scalePatch"}
  BY DEF Pc
<1> QED BY <1>1, <1>2, <1>3, <1>4, GoStep

(* CircuitBreak.Apply writes "false" and no HPA. *)
LEMMA FlagsStep ==
  ASSUME IInv, NEW w \in Worker, run[w].pc # "idle", UNCHANGED operatorVars,
         FlagsGet(w) \/ FlagsCreate(w) \/ FlagsPatch(w)
  PROVE  IInv'
<1>1. PICK p \in {"flagsCreate", "flagsPatch", "return"} : Go(w, p)
  BY DEF FlagsGet, FlagsCreate, FlagsPatch, FlagsWrite
<1>2. UNCHANGED <<hpa, rollout, cached, faults, bumps>> /\ (flags' = flags \/ flags' = "false")
  BY Zenon DEF FlagsGet, FlagsCreate, FlagsPatch, FlagsWrite
<1>3. CountersOK'
  BY <1>2, SameCounters DEF operatorVars
<1>4. flags' \in FlagState /\ rollout' \in RolloutState
  BY <1>2, Parts DEF DataOK, FlagState
<1>5. p \in Pc \ {"scaleGet", "scalePatch"}
  BY DEF Pc
<1> QED BY <1>1, <1>2, <1>3, <1>4, <1>5, GoStep

(* Rollback.Apply aborts a canary and writes no HPA. *)
LEMMA AbortStep ==
  ASSUME IInv, NEW w \in Worker, run[w].pc # "idle", UNCHANGED operatorVars, AbortRollout(w)
  PROVE  IInv'
<1>1. /\ Go(w, "return") /\ UNCHANGED <<hpa, flags, cached, faults, bumps>>
      /\ rollout' = rollout \/ rollout' = "aborting"
  BY Zenon DEF AbortRollout
<1>2. CountersOK'
  BY <1>1, SameCounters DEF operatorVars
<1>3. flags' \in FlagState /\ rollout' \in RolloutState
  BY <1>1, Parts DEF DataOK, RolloutState
<1>4. "return" \in Pc \ {"scaleGet", "scalePatch"}
  BY DEF Pc
<1> QED BY <1>1, <1>2, <1>3, <1>4, GoStep

(* Apply returns to dispatch. *)
LEMMA ReturnStep ==
  ASSUME IInv, NEW w \in Worker, UNCHANGED operatorVars, Return(w) PROVE IInv'
<1>1. /\ run[w].pc = "return" /\ run' = [run EXCEPT ![w] = IdleRun]
      /\ UNCHANGED <<hpa, flags, rollout, cached, faults, bumps>>
  BY Zenon DEF Return
<1>2. CountersOK'
  BY <1>1, SameCounters DEF operatorVars
<1>3. DataOK
  BY Parts
<1>4. /\ run' \in [Worker -> [pc : Pc, target : Target, to : Nat]]
      /\ run'[w].pc = "idle" /\ \A v \in Worker : v # w => run'[v] = run[v]
  BY <1>1, <1>3 DEF DataOK, IdleRun, Pc, Target
<1>5. flags' \in FlagState /\ rollout' \in RolloutState
  BY <1>1, <1>3 DEF DataOK
<1> QED BY <1>1, <1>2, <1>4, <1>5, OtherCallStep

(* An API call fails, and Apply with it. *)
LEMMA CallFailsStep ==
  ASSUME IInv, NEW w \in Worker, UNCHANGED operatorVars, CallFails(w) PROVE IInv'
<1>1. /\ run[w].pc \in {"scaleGet", "scalePatch", "flagsGet", "flagsCreate", "flagsPatch", "abort"}
      /\ faults < MaxFaults /\ faults' = faults + 1 /\ Go(w, "return")
      /\ UNCHANGED <<hpa, flags, rollout, cached, bumps>>
  BY Zenon DEF CallFails
<1>2. edits' = edits
  BY DEF operatorVars
<1>3. CountersOK'
  BY <1>1, <1>2, Parts, RemediesAssumption DEF CountersOK
<1>4. flags' \in FlagState /\ rollout' \in RolloutState
  BY <1>1, Parts DEF DataOK
<1>5. "return" \in Pc \ {"scaleGet", "scalePatch"} /\ run[w].pc # "idle"
  BY <1>1 DEF Pc
<1> QED BY <1>1, <1>3, <1>4, <1>5, GoStep

-----------------------------------------------------------------------------
(* ScaleUp.Apply *)

(* Get: what is read from the cache is what the API server has. *)
LEMMA ScaleGetStep ==
  ASSUME IInv, NEW w \in Worker, UNCHANGED operatorVars, ScaleGet(w) PROVE IInv'
<1> DEFINE t == run[w].target
           to == Bumped(cached.hpa[t])
<1>1. /\ run[w].pc = "scaleGet" /\ t \in DOMAIN cached.hpa
      /\ run' = [run EXCEPT ![w].pc = IF to <= cached.hpa[t].min THEN "return" ELSE "scalePatch",
                            ![w].to = to]
      /\ UNCHANGED <<hpa, flags, rollout, cached, faults, bumps>>
  BY DEF ScaleGet
<1>2. DataOK /\ BoolOK /\ Guarded /\ ScalesItsTarget
  BY Parts
<1>3. cached.hpa[t] \in HpaSpec /\ to \in Nat
  BY <1>1, <1>2, BumpedType DEF DataOK, IsHpaMap
<1>4. PICK p \in {"return", "scalePatch"} : /\ run' = [run EXCEPT ![w].pc = p, ![w].to = to]
                                            /\ p = "scalePatch" => ~(to <= cached.hpa[t].min)
  BY <1>1
<1>5. /\ run' \in [Worker -> [pc : Pc, target : Target, to : Nat]]
      /\ run'[w].pc = p /\ run'[w].target = t /\ run'[w].to = to
      /\ \A v \in Worker : v # w => run'[v] = run[v]
  BY <1>2, <1>3, <1>4 DEF DataOK, Pc
<1>6. UNCHANGED <<up, cooling, firing, edits>>
  BY Zenon DEF operatorVars
<1>7. \A f : (InCooldown(f)' <=> InCooldown(f)) /\ (Admits(f)' <=> Admits(f))
  BY <1>6, SameCooldowns
<1>8. BoolOK'
  BY <1>2, <1>6, Zenon DEF BoolOK
<1>9. CountersOK'
  BY <1>1, <1>6, SameCounters
<1>10. DataOK'
  BY <1>1, <1>2, <1>5 DEF DataOK, IsHpaMap
<1>11. Guarded'
  BY <1>1, <1>2, <1>5, <1>7 DEF Guarded, Fingerprint
<1>12. w \in RemedyAlert("ScaleUp") /\ t = TargetOf(w)
  BY <1>1, <1>2 DEF ScalesItsTarget, Scales, Fingerprint
<1>13. ScalesItsTarget'
  BY <1>2, <1>5, <1>12 DEF ScalesItsTarget, Scales, Fingerprint
<1>14. ASSUME Alone' PROVE Fresh' /\ BumpsRight'
  <2>1. Fresh /\ BumpsRight
    BY <1>6, <1>14 DEF IInv, Alone
  <2>2. t \in DOMAIN hpa /\ cached.hpa[t] = hpa[t] /\ to = Bumped(hpa[t])
    BY <1>1, <1>12, <2>1 DEF Fresh, Cached
  <2>3. ASSUME NEW f \in RemedyAlert("ScaleUp"), Admits(f)' \/ run'[f].pc = "scaleGet"
        PROVE  Cached(TargetOf(f))'
    <3>1. Admits(f) \/ run[f].pc = "scaleGet"
      BY <1>5, <1>7, <2>3 DEF RemedyAlert, Fingerprint
    <3> QED BY <1>1, <2>1, <3>1 DEF Fresh, Cached
  <2>4. ASSUME NEW f \in RemedyAlert("ScaleUp"), run'[f].pc = "scalePatch"
        PROVE  /\ TargetOf(f) \in DOMAIN hpa'
               /\ run'[f].to = Bumped(hpa'[TargetOf(f)]) /\ run'[f].to > hpa'[TargetOf(f)].min
    <3>1. CASE f = w
      <4>1. to > hpa[t].min
        BY <1>3, <1>4, <1>5, <2>2, <2>4, <3>1 DEF HpaSpec
      <4> QED BY <1>1, <1>5, <1>12, <2>2, <3>1, <4>1
    <3>2. CASE f # w
      BY <1>1, <1>5, <2>1, <2>4, <3>2 DEF Fresh, RemedyAlert, Fingerprint
    <3> QED BY <3>1, <3>2
  <2>5. Fresh'
    BY <1>1, <2>1, <2>3, <2>4 DEF Fresh
  <2>6. BumpsRight'
    BY <1>1, <2>1 DEF BumpsRight
  <2> QED BY <2>5, <2>6
<1> QED BY <1>8, <1>9, <1>10, <1>11, <1>13, <1>14 DEF IInv

(* Patch: the floor is still the one that was read; the cache is not       *)
(* fresh any more, but the alert is in its cooldown, and no other alert    *)
(* scales this HPA.                                                        *)
LEMMA ScalePatchStep ==
  ASSUME IInv, NEW w \in Worker, UNCHANGED operatorVars, ScalePatch(w) PROVE IInv'
<1> DEFINE t == run[w].target
           b == [from |-> hpa[t].min, to |-> run[w].to, max |-> hpa[t].max]
<1>1. /\ run[w].pc = "scalePatch" /\ t \in DOMAIN hpa
      /\ hpa' = [hpa EXCEPT ![t].min = run[w].to]
      /\ bumps' = Append(bumps, b)
      /\ Go(w, "return")
      /\ UNCHANGED <<flags, rollout, cached, faults>>
  BY DEF ScalePatch, ScalePatchLegal
<1>2. DataOK /\ BoolOK /\ Guarded /\ ScalesItsTarget
  BY Parts
<1>3. /\ run' \in [Worker -> [pc : Pc, target : Target, to : Nat]]
      /\ run'[w].pc = "return" /\ \A v \in Worker : v # w => run'[v] = run[v]
  BY <1>1, <1>2, GoEffect DEF Pc
<1>4. run[w].to \in Nat /\ hpa[t] \in HpaSpec /\ b \in Bump
  BY <1>1, <1>2 DEF DataOK, IsHpaMap, HpaSpec, Bump
<1>5. /\ IsHpaMap(hpa') /\ DOMAIN hpa' = DOMAIN hpa
      /\ \A u \in DOMAIN hpa : u # t => hpa'[u] = hpa[u]
  BY <1>1, <1>2, <1>4 DEF DataOK, IsHpaMap, HpaSpec
<1>6. bumps' \in Seq(Bump)
  BY <1>1, <1>2, <1>4 DEF DataOK
<1>7. UNCHANGED <<up, cooling, firing, edits>>
  BY Zenon DEF operatorVars
<1>8. \A f : (InCooldown(f)' <=> InCooldown(f)) /\ (Admits(f)' <=> Admits(f))
  BY <1>7, SameCooldowns
<1>9. BoolOK'
  BY <1>2, <1>7, Zenon DEF BoolOK
<1>10. CountersOK'
  BY <1>1, <1>7, SameCounters
<1>11. DataOK'
  BY <1>1, <1>2, <1>3, <1>5, <1>6 DEF DataOK, IsHpaMap
<1>12. Guarded'
  BY <1>1, <1>2, <1>3, <1>8 DEF Guarded, Fingerprint
<1>13. w \in RemedyAlert("ScaleUp") /\ t = TargetOf(w)
  BY <1>1, <1>2 DEF ScalesItsTarget, Scales, Fingerprint
<1>14. ScalesItsTarget'
  BY <1>2, <1>3 DEF ScalesItsTarget, Scales, Fingerprint
<1>15. ~Admits(w)
  <2>1. InCooldown(w)
    BY <1>1, <1>2 DEF Guarded, Fingerprint
  <2> QED BY <2>1, Zenon DEF InCooldown, Admits
<1>16. ASSUME Alone' PROVE Fresh' /\ BumpsRight'
  <2>1. Fresh /\ BumpsRight /\ OneWriter
    BY <1>7, <1>16 DEF IInv, Alone
  <2>2. ASSUME NEW f \in RemedyAlert("ScaleUp"), f # w PROVE TargetOf(f) # t
    BY <1>13, <2>1, <2>2 DEF OneWriter
  <2>3. ASSUME NEW f \in RemedyAlert("ScaleUp"), Admits(f)' \/ run'[f].pc = "scaleGet"
        PROVE  Cached(TargetOf(f))'
    <3>1. f # w
      BY <1>3, <1>8, <1>15, <2>3
    <3>2. Admits(f) \/ run[f].pc = "scaleGet"
      BY <1>3, <1>8, <2>3, <3>1 DEF RemedyAlert, Fingerprint
    <3>3. Cached(TargetOf(f)) /\ TargetOf(f) # t /\ DOMAIN hpa = DOMAIN Declared
      BY <2>1, <2>2, <3>1, <3>2 DEF Fresh
    <3> QED BY <1>1, <1>5, <3>3 DEF Cached
  <2>4. ASSUME NEW f \in RemedyAlert("ScaleUp"), run'[f].pc = "scalePatch"
        PROVE  /\ TargetOf(f) \in DOMAIN hpa'
               /\ run'[f].to = Bumped(hpa'[TargetOf(f)]) /\ run'[f].to > hpa'[TargetOf(f)].min
    <3>1. f # w
      BY <1>3, <2>4
    <3>2. run'[f] = run[f]
      BY <1>3, <3>1 DEF RemedyAlert, Fingerprint
    <3> QED BY <1>5, <2>1, <2>2, <2>4, <3>1, <3>2 DEF Fresh
  <2>5. Fresh'
    BY <1>1, <1>5, <2>1, <2>3, <2>4 DEF Fresh
  <2>6. b.to = Bumped([min |-> b.from, max |-> b.max]) /\ b.to > b.from
    <3>1. run[w].to = Bumped(hpa[t]) /\ run[w].to > hpa[t].min
      BY <1>1, <1>13, <2>1 DEF Fresh
    <3> QED BY <1>4, <3>1, BumpedSame
  <2>7. ASSUME NEW i \in 1 .. Len(bumps')
        PROVE  bumps'[i] = b \/ (i \in 1 .. Len(bumps) /\ bumps'[i] = bumps[i])
    BY <1>1, <1>2, <1>4 DEF DataOK
  <2>8. BumpsRight'
    BY <2>1, <2>6, <2>7 DEF BumpsRight
  <2> QED BY <2>5, <2>8
<1> QED BY <1>9, <1>10, <1>11, <1>12, <1>14, <1>16 DEF IInv

(* Any step of a remedy in flight. *)
LEMMA RemedyStepStep == ASSUME IInv, NEW f \in Fingerprint, RemedyStep(f) PROVE IInv'
<1>1. UNCHANGED operatorVars /\ Progress(f)
  BY Zenon DEF RemedyStep
<1>2. CASE Return(f)
  BY <1>1, <1>2, ReturnStep DEF Fingerprint
<1>3. CASE ScaleGet(f) \/ ScalePatch(f)
  BY <1>1, <1>3, ScaleGetStep, ScalePatchStep DEF Fingerprint
<1>4. CASE FlagsGet(f) \/ FlagsCreate(f) \/ FlagsPatch(f)
  <2>1. run[f].pc # "idle"
    BY <1>4 DEF FlagsGet, FlagsCreate, FlagsPatch
  <2> QED BY <1>1, <1>4, <2>1, FlagsStep DEF Fingerprint
<1>5. CASE AbortRollout(f)
  <2>1. run[f].pc # "idle"
    BY <1>5 DEF AbortRollout
  <2> QED BY <1>1, <1>5, <2>1, AbortStep DEF Fingerprint
<1>6. CASE ScaleGetMissing(f) \/ ScalePatchRefused(f) \/ FlagsCreateRefused(f)
             \/ FlagsPatchRefused(f) \/ AbortRefused(f)
  <2>1. run[f].pc # "idle"
    BY <1>6 DEF ScaleGetMissing, ScalePatchRefused, FlagsCreateRefused, FlagsPatchRefused, AbortRefused
  <2> QED BY <1>1, <1>6, <2>1, RefusedStep DEF Fingerprint
<1> QED BY <1>1, <1>2, <1>3, <1>4, <1>5, <1>6 DEF Progress

-----------------------------------------------------------------------------
(* The webhook and the process *)

(* The cooldown lets the alert through: the cache is fresh for its HPA. *)
LEMMA DispatchStep == ASSUME IInv, NEW f \in Fingerprint, Dispatch(f) PROVE IInv'
<1> DEFINE d == DecisionOf(f)
<1>1. /\ d.kind # "NoRemedy" /\ run[f].pc = "idle"
      /\ run' = [run EXCEPT ![f] = [pc |-> FirstStep(d.kind), target |-> d.target, to |-> 0]]
      /\ UNCHANGED <<hpa, flags, rollout, cached, faults, bumps, firing, edits>>
  BY DEF Dispatch, Apply
<1>2. /\ Admits(f) /\ up' = up /\ cooling' = [cooling EXCEPT ![f] = TRUE] /\ firing' = firing
  BY Zenon DEF Dispatch, Admits
<1>3. DataOK /\ BoolOK /\ Guarded /\ ScalesItsTarget
  BY Parts
<1>4. /\ cooling' \in [Fingerprint -> BOOLEAN] /\ cooling'[f]
      /\ \A g \in Fingerprint : g # f => cooling'[g] = cooling[g]
  BY <1>2, <1>3 DEF BoolOK
<1>5. BoolOK'
  BY <1>2, <1>3, <1>4, Zenon DEF BoolOK
<1>6. InCooldown(f)' /\ ~Admits(f)'
  BY <1>2, <1>4, Zenon DEF InCooldown, Admits
<1>7. \A g \in Fingerprint : g # f => (InCooldown(g)' <=> InCooldown(g)) /\ (Admits(g)' <=> Admits(g))
  BY <1>2, <1>4, Zenon DEF InCooldown, Admits
<1>8. d.kind \in Kind /\ d.target \in Target
  BY DecisionType
<1>9. FirstStep(d.kind) \in Pc \ {"idle", "scalePatch"} /\ (FirstStep(d.kind) = "scaleGet" => d.kind = "ScaleUp")
  BY <1>1, <1>8, FirstStepType
<1>10. /\ run' \in [Worker -> [pc : Pc, target : Target, to : Nat]]
       /\ run'[f].pc = FirstStep(d.kind) /\ run'[f].target = d.target
       /\ \A g \in Fingerprint : g # f => run'[g] = run[g]
  BY <1>1, <1>3, <1>8, <1>9 DEF DataOK, Fingerprint
<1>11. DataOK'
  BY <1>1, <1>3, <1>10 DEF DataOK, IsHpaMap
<1>12. CountersOK'
  BY <1>1, SameCounters
<1>13. Guarded'
  BY <1>3, <1>6, <1>7, <1>10 DEF Guarded
<1>14. ScalesItsTarget'
  BY <1>3, <1>9, <1>10 DEF ScalesItsTarget, Scales, RemedyAlert, TargetOf
<1>15. ASSUME Alone' PROVE Fresh' /\ BumpsRight'
  <2>1. Fresh /\ BumpsRight
    BY <1>1, <1>15 DEF IInv, Alone
  <2>2. ASSUME NEW g \in RemedyAlert("ScaleUp"), Admits(g)' \/ run'[g].pc = "scaleGet"
        PROVE  Cached(TargetOf(g))'
    <3>1. Admits(g) \/ run[g].pc = "scaleGet"
      BY <1>2, <1>7, <1>10, <2>2 DEF RemedyAlert
    <3> QED BY <1>1, <2>1, <3>1 DEF Fresh, Cached
  <2>3. ASSUME NEW g \in RemedyAlert("ScaleUp"), run'[g].pc = "scalePatch"
        PROVE  /\ TargetOf(g) \in DOMAIN hpa'
               /\ run'[g].to = Bumped(hpa'[TargetOf(g)]) /\ run'[g].to > hpa'[TargetOf(g)].min
    <3>1. run'[g] = run[g]
      BY <1>9, <1>10, <2>3 DEF RemedyAlert
    <3> QED BY <1>1, <2>1, <2>3, <3>1 DEF Fresh
  <2>4. Fresh'
    BY <1>1, <2>1, <2>2, <2>3 DEF Fresh
  <2>5. BumpsRight'
    BY <1>1, <2>1 DEF BumpsRight
  <2> QED BY <2>4, <2>5
<1> QED BY <1>5, <1>11, <1>12, <1>13, <1>14, <1>15 DEF IInv

(* The cache is refilled, or known to be fresh, and no call is touched. *)
LEMMA FreshCacheStep ==
  ASSUME IInv, UNCHANGED <<hpa, flags, rollout, run, faults, bumps, edits>>,
         cached' = [hpa |-> hpa, flags |-> flags], BoolOK', Guarded'
  PROVE  IInv'
<1>1. DataOK /\ ScalesItsTarget
  BY Parts
<1>2. cached'.hpa = hpa /\ cached'.flags = flags
  OBVIOUS
<1>3. DataOK'
  BY <1>1, <1>2 DEF DataOK, IsHpaMap
<1>4. CountersOK'
  BY SameCounters
<1>5. ScalesItsTarget'
  BY <1>1 DEF ScalesItsTarget, Scales
<1>6. ASSUME Alone' PROVE Fresh' /\ BumpsRight'
  <2>1. Fresh /\ BumpsRight
    BY <1>6 DEF IInv, Alone
  <2>2. \A t : Cached(t)'
    BY <1>2 DEF Cached
  <2>3. Fresh'
    BY <1>2, <2>1, <2>2 DEF Fresh
  <2>4. BumpsRight'
    BY <2>1 DEF BumpsRight
  <2> QED BY <2>3, <2>4
<1> QED BY <1>3, <1>4, <1>5, <1>6 DEF IInv

(* The informer catches up. *)
LEMMA CacheSyncStep == ASSUME IInv, CacheSync PROVE IInv'
<1>1. /\ UNCHANGED <<hpa, flags, rollout, run, faults, bumps>>
      /\ cached' = [hpa |-> hpa, flags |-> flags]
      /\ UNCHANGED <<up, cooling, firing, edits>>
  BY Zenon DEF CacheSync, Sync, operatorVars
<1>2. BoolOK'
  BY <1>1, Parts, Zenon DEF BoolOK
<1>3. Guarded'
  BY <1>1, Parts, SameCooldowns DEF Guarded
<1> QED BY <1>1, <1>2, <1>3, FreshCacheStep

(* A cooldown ends only when the cache has caught up. *)
LEMMA CooldownEndsStep == ASSUME IInv, NEW f \in Fingerprint, CooldownEnds(f) PROVE IInv'
<1>1. UNCHANGED remedyVars
  BY Zenon DEF CooldownEnds
<1>2. /\ run[f].pc = "idle" /\ cached = [hpa |-> hpa, flags |-> flags]
      /\ UNCHANGED <<hpa, flags, rollout, cached, run, faults, bumps>>
      /\ UNCHANGED <<up, firing, edits>> /\ cooling' = [cooling EXCEPT ![f] = FALSE]
  BY <1>1, Zenon DEF CooldownEnds, remedyVars
<1>3. BoolOK /\ Guarded
  BY Parts
<1>4. cooling' \in [Fingerprint -> BOOLEAN] /\ \A g \in Fingerprint : g # f => cooling'[g] = cooling[g]
  BY <1>2, <1>3 DEF BoolOK
<1>5. BoolOK'
  BY <1>2, <1>3, <1>4, Zenon DEF BoolOK
<1>6. \A g \in Fingerprint : g # f => (InCooldown(g) => InCooldown(g)')
  BY <1>2, <1>4, Zenon DEF InCooldown
<1>7. Guarded'
  BY <1>2, <1>3, <1>6 DEF Guarded
<1> QED BY <1>2, <1>5, <1>7, FreshCacheStep

(* A process that is not up runs nothing. *)
LEMMA RestartStep == ASSUME IInv, Restart PROVE IInv'
<1>1. /\ UNCHANGED <<hpa, flags, rollout, run, faults, bumps, edits>>
      /\ cached' = [hpa |-> hpa, flags |-> flags]
  BY Zenon DEF Restart
<1>2. cooling' = [f \in Fingerprint |-> FALSE]
  BY Zenon DEF Restart
<1>3. cooling' \in [Fingerprint -> BOOLEAN]
  BY <1>2
<1>4. BoolOK'
  BY <1>3, Parts, Zenon DEF BoolOK, Restart
<1>5. \A f : ~InCooldown(f)
  BY Zenon DEF Restart, InCooldown
<1>6. \A f \in Fingerprint : run[f].pc = "idle"
  BY <1>5, Parts DEF Guarded
<1>7. Guarded'
  BY <1>1, <1>6 DEF Guarded
<1> QED BY <1>1, <1>4, <1>7, FreshCacheStep

(* A crash leaves nothing that could rely on the cache. *)
LEMMA CrashStep == ASSUME IInv, Crash PROVE IInv'
<1>1. /\ faults < MaxFaults /\ faults' = faults + 1 /\ run' = [w \in Worker |-> IdleRun]
      /\ UNCHANGED <<hpa, flags, rollout, cached, bumps, edits>>
  BY Zenon DEF Crash
<1>2. BoolOK'
  BY Parts, Zenon DEF BoolOK, Crash
<1>3. \A f : ~Admits(f)'
  BY Zenon DEF Admits, Crash
<1>4. \A f \in Fingerprint : run'[f].pc = "idle"
  BY <1>1 DEF Fingerprint, IdleRun
<1>5. Guarded' /\ ScalesItsTarget'
  BY <1>4 DEF Guarded, ScalesItsTarget, Scales
<1>6. run' \in [Worker -> [pc : Pc, target : Target, to : Nat]]
  BY <1>1 DEF IdleRun, Pc, Target
<1>7. DataOK'
  BY <1>1, <1>6, Parts DEF DataOK, IsHpaMap
<1>8. CountersOK'
  BY <1>1, Parts, RemediesAssumption DEF CountersOK
<1>9. ASSUME Alone' PROVE Fresh' /\ BumpsRight'
  <2>1. Fresh /\ BumpsRight
    BY <1>1, <1>9 DEF IInv, Alone
  <2>2. Fresh'
    BY <1>1, <1>3, <1>4, <2>1 DEF Fresh, RemedyAlert
  <2>3. BumpsRight'
    BY <1>1, <2>1 DEF BumpsRight
  <2> QED BY <2>2, <2>3
<1> QED BY <1>2, <1>5, <1>7, <1>8, <1>9 DEF IInv

-----------------------------------------------------------------------------
(* The environment *)

(* Whoever else writes leaves the operator's own state alone, and BumpsByStep *)
(* either does not speak of the state any more or is about what was not    *)
(* written.                                                                *)
LEMMA OutsideStep ==
  ASSUME IInv, UNCHANGED <<cached, run, bumps, up, cooling>>,
         IsHpaMap(hpa'), flags' \in FlagState, rollout' \in RolloutState,
         CountersOK', firing' \in [Fingerprint -> BOOLEAN],
         Alone' => Alone /\ hpa' = hpa
  PROVE  IInv'
<1>1. DataOK /\ BoolOK /\ Guarded /\ ScalesItsTarget
  BY Parts
<1>2. BoolOK'
  BY <1>1, Zenon DEF BoolOK
<1>3. \A f : (InCooldown(f)' <=> InCooldown(f)) /\ (Admits(f)' <=> Admits(f))
  BY SameCooldowns
<1>4. DataOK'
  BY <1>1 DEF DataOK, IsHpaMap
<1>5. Guarded'
  BY <1>1, <1>3 DEF Guarded
<1>6. ScalesItsTarget'
  BY <1>1 DEF ScalesItsTarget, Scales
<1>7. ASSUME Alone' PROVE Fresh' /\ BumpsRight'
  <2>1. Fresh /\ BumpsRight /\ hpa' = hpa
    BY <1>7 DEF IInv
  <2>2. Fresh'
    BY <1>3, <2>1 DEF Fresh, Cached
  <2>3. BumpsRight'
    BY <2>1 DEF BumpsRight
  <2> QED BY <2>2, <2>3
<1> QED BY <1>2, <1>4, <1>5, <1>6, <1>7 DEF IInv

(* An alert begins or ceases to fire. *)
LEMMA AlertingStep == ASSUME IInv, NEW f \in Fingerprint, Alerting(f) PROVE IInv'
<1>1. UNCHANGED remedyVars /\ UNCHANGED <<up, cooling, edits>>
  BY Zenon DEF Alerting
<1>2. UNCHANGED <<hpa, flags, rollout, cached, run, faults, bumps>>
  BY <1>1, Zenon DEF remedyVars
<1>3. firing' \in [Fingerprint -> BOOLEAN]
  BY Parts DEF BoolOK, Alerting
<1>4. IsHpaMap(hpa') /\ flags' \in FlagState /\ rollout' \in RolloutState
  BY <1>2, Parts DEF DataOK
<1>5. CountersOK'
  BY <1>1, <1>2, SameCounters
<1> QED BY <1>1, <1>2, <1>3, <1>4, <1>5, OutsideStep DEF Alone

(* argo-rollouts *)
LEMMA RolloutStep ==
  ASSUME IInv, RolloutController, UNCHANGED operatorVars PROVE IInv'
<1>1. rollout' = "stable" /\ UNCHANGED <<hpa, flags, cached, run, faults, bumps>>
  BY Zenon DEF RolloutController
<1>2. UNCHANGED <<up, cooling, firing, edits>>
  BY Zenon DEF operatorVars
<1>3. firing' \in [Fingerprint -> BOOLEAN]
  BY <1>2, Parts, Zenon DEF BoolOK
<1>4. IsHpaMap(hpa') /\ flags' \in FlagState /\ rollout' \in RolloutState
  BY <1>1, Parts DEF DataOK, RolloutState
<1>5. CountersOK'
  BY <1>1, <1>2, SameCounters
<1> QED BY <1>1, <1>2, <1>3, <1>4, <1>5, OutsideStep DEF Alone

(* People who edit objects are not alone any more. *)
LEMMA EditCounted ==
  ASSUME IInv, Edit, faults' = faults
  PROVE  CountersOK' /\ ~Alone' /\ UNCHANGED <<up, cooling>> /\ firing' \in [Fingerprint -> BOOLEAN]
<1>1. edits < MaxEdits /\ edits' = edits + 1
  BY Zenon DEF Edit
<1>2. UNCHANGED <<up, cooling>> /\ firing' \in [Fingerprint -> BOOLEAN]
  BY Parts, Zenon DEF Edit, BoolOK
<1>3. CountersOK' /\ edits' # 0
  BY <1>1, Parts, EditsAssumption DEF CountersOK
<1> QED BY <1>2, <1>3 DEF Alone

(* Edits of the flag and the Rollout. *)
LEMMA EditStep ==
  ASSUME IInv, LiftBrake \/ DeleteFlags \/ Deploy PROVE IInv'
<1>1. Edit /\ UNCHANGED <<hpa, cached, run, faults, bumps>>
  BY Zenon DEF LiftBrake, DeleteFlags, Deploy
<1>2. flags' \in {flags, "unset", "absent"} /\ rollout' \in {rollout, "canary", "absent"}
  BY DEF LiftBrake, DeleteFlags, Deploy
<1>3. IsHpaMap(hpa') /\ flags' \in FlagState /\ rollout' \in RolloutState
  BY <1>1, <1>2, Parts DEF DataOK, FlagState, RolloutState
<1> QED BY <1>1, <1>3, EditCounted, OutsideStep

(* Edits of an HPA: a new floor, or a deletion. *)
LEMMA EditHpaStep == ASSUME IInv, NEW t \in Hpa, EditHpa(t) PROVE IInv'
<1>1. Edit /\ UNCHANGED <<flags, rollout, cached, run, faults, bumps>> /\ t \in DOMAIN hpa
  BY Zenon DEF EditHpa
<1>2. IsHpaMap(hpa) /\ flags \in FlagState /\ rollout \in RolloutState
  BY Parts DEF DataOK
<1>3. IsHpaMap(hpa')
  <2>1. CASE \E m \in 1 .. hpa[t].max : hpa' = [hpa EXCEPT ![t].min = m]
    BY <1>1, <1>2, <2>1 DEF IsHpaMap, HpaSpec
  <2>2. CASE hpa' = Restrict(hpa, DOMAIN hpa \ {t})
    BY <1>2, <2>2 DEF IsHpaMap, Restrict
  <2> QED BY <2>1, <2>2, Zenon DEF EditHpa
<1> QED BY <1>1, <1>2, <1>3, EditCounted, OutsideStep

(* Argo CD: with selfHeal the operator is not the only writer. *)
LEMMA GitOpsStep == ASSUME IInv, GitOpsSync PROVE IInv'
<1>1. /\ SelfHeal /\ hpa' = Declared /\ flags' = "true"
      /\ UNCHANGED <<rollout, cached, run, faults, bumps, up, cooling, edits>>
  BY Zenon DEF GitOpsSync
<1>2. ~Alone'
  BY <1>1, Zenon DEF Alone, OneWriter
<1>3. firing' \in [Fingerprint -> BOOLEAN]
  BY Parts, Zenon DEF GitOpsSync, BoolOK
<1>4. IsHpaMap(hpa')
  BY <1>1, RemediesAssumption DEF IsHpaMap, HpaSpec
<1>5. flags' \in FlagState /\ rollout' \in RolloutState
  BY <1>1, Parts DEF DataOK, FlagState
<1>6. CountersOK'
  BY <1>1, SameCounters
<1> QED BY <1>1, <1>2, <1>3, <1>4, <1>5, <1>6, OutsideStep

-----------------------------------------------------------------------------
(* The inductive invariant holds in every reachable state. *)
THEOREM OperatorInvariant == Spec => []IInv
<1>1. IInv /\ [Next]_vars => IInv'
  <2> SUFFICES ASSUME IInv, [Next]_vars PROVE IInv'
    OBVIOUS
  <2>1. CASE UNCHANGED vars
    <3>1. UNCHANGED remedyVars /\ UNCHANGED <<up, cooling, firing, edits>>
      BY <2>1, Zenon DEF vars
    <3>2. UNCHANGED <<hpa, flags, rollout, cached, run, faults, bumps>>
      BY <3>1, Zenon DEF remedyVars
    <3>3. firing' \in [Fingerprint -> BOOLEAN]
      BY <3>1, Parts, Zenon DEF BoolOK
    <3>4. IsHpaMap(hpa') /\ flags' \in FlagState /\ rollout' \in RolloutState
      BY <3>2, Parts DEF DataOK
    <3>5. CountersOK'
      BY <3>1, <3>2, SameCounters
    <3> QED BY <3>1, <3>2, <3>3, <3>4, <3>5, OutsideStep DEF Alone
  <2>2. CASE \E f \in Fingerprint : RemedyFails(f)
    BY <2>2, CallFailsStep DEF RemedyFails, Fingerprint
  <2>3. CASE \E f \in Fingerprint : Dispatch(f) \/ RemedyStep(f) \/ CooldownEnds(f)
    BY <2>3, DispatchStep, RemedyStepStep, CooldownEndsStep, Zenon
  <2>4. CASE CacheSync \/ Crash \/ Restart \/ (RolloutController /\ UNCHANGED operatorVars)
    BY <2>4, CacheSyncStep, CrashStep, RestartStep, RolloutStep, Zenon
  <2>5. CASE Environment
    BY <2>5, AlertingStep, EditStep, EditHpaStep, GitOpsStep, Zenon DEF Environment
  <2> QED BY <2>1, <2>2, <2>3, <2>4, <2>5, Zenon DEF Next
<1> QED BY InitIInv, <1>1, PTL DEF Spec

(* The state of the operator and of what it writes stays well typed: no    *)
(* patch brings an HPA out of shape, whoever else edits it.                *)
THEOREM OperatorTypeOK == Spec => []TypeOK
<1>1. IInv => TypeOK
  <2> SUFFICES ASSUME IInv PROVE TypeOK
    OBVIOUS
  <2>1. DataOK /\ CountersOK /\ BoolOK
    BY Parts
  <2>2. RemediesTypeOK
    BY <2>1 DEF DataOK, CountersOK, IsHpaMap, HpaSpec, RemediesTypeOK
  <2> QED BY <2>1, <2>2, Zenon DEF CountersOK, BoolOK, TypeOK
<1> QED BY OperatorInvariant, <1>1, PTL

(* As long as the operator is the only writer of the HPAs, and no two      *)
(* alerts scale the same one, every patch of ScaleUp.Apply raises the      *)
(* floor by one capped step, although it is computed from a cached object, *)
(* after calls that fail and restarts that forget the cooldown.            *)
THEOREM BumpsByStepHolds == ASSUME OneWriter PROVE Spec => []BumpsByStep
<1>1. IInv => BumpsByStep
  BY OneWriter DEF IInv, Alone, BumpsRight, BumpsByStep
<1> QED BY OperatorInvariant, <1>1, PTL
=============================================================================
