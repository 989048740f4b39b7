------------------------------ MODULE Remedies ------------------------------
(***************************************************************************)
(* The three remedies (operator/internal/remedy) as processes that talk to *)
(* the Kubernetes API.  Get of a typed object is answered by the informer  *)
(* cache of the manager's client, which lags the API server; Create and    *)
(* Patch go to the API server, may fail, and may take effect although the  *)
(* caller sees an error.  Patches carry no resourceVersion, so the API     *)
(* server does not notice that they were computed from an old object.      *)
(***************************************************************************)
EXTENDS Integers, Sequences, Functions, Classifier

CONSTANTS Worker,         \* goroutines that may be inside Registry.Apply
          Hpa,            \* names of the HorizontalPodAutoscalers
          ConfiguredStep, \* ScaleUp.Step; zero or less means "default"
          Declared,       \* Declared[t]: minReplicas and maxReplicas in Git
          MaxFaults       \* bound on failed API calls and process crashes

ASSUME RemediesAssumption ==
  /\ ConfiguredStep \in Int /\ MaxFaults \in Nat
  /\ DOMAIN Declared \subseteq Hpa
  /\ Declared \in [DOMAIN Declared -> [min : Nat, max : Nat]]

DefaultStep == 2
Step == IF ConfiguredStep <= 0 THEN DefaultStep ELSE ConfiguredStep

VARIABLES
  hpa,      \* API server: HPA name -> [min, max]; partial, an HPA may be missing
  flags,    \* API server: orders-svc-flags and its key publish_enabled
  rollout,  \* API server: the Rollout orders-svc
  cached,   \* informer cache: its copies of hpa and flags
  run,      \* run[w]: a call of Apply
  faults,   \* how many faults have happened
  bumps     \* history: the minReplicas patches that took effect, in order

api == <<hpa, flags, rollout>>
remedyVars == <<hpa, flags, rollout, cached, run, faults, bumps>>

FlagState    == {"absent", "unset", "true", "false"}
RolloutState == {"absent", "stable", "canary", "aborting"}
Pc == {"idle", "scaleGet", "scalePatch", "flagsGet", "flagsCreate", "flagsPatch",
       "abort", "return"}

IdleRun == [pc |-> "idle", target |-> NoTarget, to |-> 0]

RemediesInit ==
  /\ hpa = Declared
  /\ flags \in {"absent", "true"}
  /\ rollout \in {"stable", "canary"}
  /\ cached = [hpa |-> hpa, flags |-> flags]
  /\ run = [w \in Worker |-> IdleRun]
  /\ faults = 0
  /\ bumps = << >>

(* Registry.Apply: look up the remedy of the decision's kind and run it. *)
FirstStep(kind) ==
  CASE kind = "ScaleUp"      -> "scaleGet"
    [] kind = "CircuitBreak" -> "flagsGet"
    [] kind = "Rollback"     -> "abort"

Apply(w, d) ==
  /\ run[w].pc = "idle"
  /\ d.kind # "NoRemedy"
  /\ run' = [run EXCEPT ![w] = [pc |-> FirstStep(d.kind), target |-> d.target, to |-> 0]]
  /\ UNCHANGED <<hpa, flags, rollout, cached, faults, bumps>>

Go(w, pc) == run' = [run EXCEPT ![w].pc = pc]

(* The caller of Apply gets its result; dispatch only logs an error. *)
Return(w) ==
  /\ run[w].pc = "return"
  /\ run' = [run EXCEPT ![w] = IdleRun]
  /\ UNCHANGED <<hpa, flags, rollout, cached, faults, bumps>>

-----------------------------------------------------------------------------
(* Calls of the API server (external).  A call that is legal takes effect, *)
(* one that is not is refused; either way a fault may hide the outcome or  *)
(* prevent it (also when the request's context is cancelled).              *)

CallFails(w) ==
  /\ run[w].pc \in {"scaleGet", "scalePatch", "flagsGet", "flagsCreate", "flagsPatch", "abort"}
  /\ faults < MaxFaults
  /\ faults' = faults + 1
  /\ Go(w, "return")
  /\ UNCHANGED <<hpa, flags, rollout, cached, bumps>>

Refused(w, legal) ==
  /\ ~legal
  /\ Go(w, "return")
  /\ UNCHANGED <<hpa, flags, rollout, cached, faults, bumps>>

(* The informer catches up with the API server. *)
Sync ==
  /\ cached # [hpa |-> hpa, flags |-> flags]
  /\ cached' = [hpa |-> hpa, flags |-> flags]
  /\ UNCHANGED <<hpa, flags, rollout, run, faults, bumps>>

-----------------------------------------------------------------------------
(* ScaleUp.Apply *)

(* Mutant of Bumped: without the cap. *)
BumpedUncapped(spec) == spec.min + Step

Bumped(spec) == IF spec.min + Step > spec.max THEN spec.max ELSE spec.min + Step

ScaleGetMissing(w) ==
  /\ run[w].pc = "scaleGet" /\ run[w].target \notin DOMAIN cached.hpa
  /\ Go(w, "return")
  /\ UNCHANGED <<hpa, flags, rollout, cached, faults, bumps>>

ScaleGet(w) ==
  LET t == run[w].target IN
  /\ run[w].pc = "scaleGet" /\ t \in DOMAIN cached.hpa
  /\ LET to == Bumped(cached.hpa[t])
     IN  run' = [run EXCEPT ![w].pc = IF to <= cached.hpa[t].min THEN "return" ELSE "scalePatch",
                            ![w].to = to]
  /\ UNCHANGED <<hpa, flags, rollout, cached, faults, bumps>>

(* The API server validates minReplicas <= maxReplicas. *)
ScalePatchLegal(w) ==
  run[w].target \in DOMAIN hpa /\ run[w].to <= hpa[run[w].target].max

ScalePatch(w) ==
  LET t == run[w].target IN
  /\ run[w].pc = "scalePatch" /\ ScalePatchLegal(w)
  /\ hpa' = [hpa EXCEPT ![t].min = run[w].to]
  /\ bumps' = Append(bumps, [from |-> hpa[t].min, to |-> run[w].to, max |-> hpa[t].max])
  /\ Go(w, "return")
  /\ UNCHANGED <<flags, rollout, cached, faults>>

ScalePatchRefused(w) == run[w].pc = "scalePatch" /\ Refused(w, ScalePatchLegal(w))

-----------------------------------------------------------------------------
(* CircuitBreak.Apply *)

(* Mutant of FlagsGet: NotFound is taken for an error, nothing is created. *)
FlagsGetNoCreate(w) ==
  /\ run[w].pc = "flagsGet"
  /\ Go(w, IF cached.flags \in {"absent", "false"} THEN "return" ELSE "flagsPatch")
  /\ UNCHANGED <<hpa, flags, rollout, cached, faults, bumps>>

FlagsGet(w) ==
  /\ run[w].pc = "flagsGet"
  /\ Go(w, CASE cached.flags = "absent" -> "flagsCreate"
             [] cached.flags = "false"  -> "return"
             [] OTHER                   -> "flagsPatch")
  /\ UNCHANGED <<hpa, flags, rollout, cached, faults, bumps>>

(* Mutant of FlagsWrite: a value nobody else knows. *)
FlagsWriteOff(w) ==
  /\ flags' = "off"
  /\ Go(w, "return")
  /\ UNCHANGED <<hpa, rollout, cached, faults, bumps>>

FlagsWrite(w) ==
  /\ flags' = "false"
  /\ Go(w, "return")
  /\ UNCHANGED <<hpa, rollout, cached, faults, bumps>>

FlagsCreate(w)        == run[w].pc = "flagsCreate" /\ flags = "absent" /\ FlagsWrite(w)
FlagsCreateRefused(w) == run[w].pc = "flagsCreate" /\ Refused(w, flags = "absent")
FlagsPatch(w)         == run[w].pc = "flagsPatch" /\ flags # "absent" /\ FlagsWrite(w)
FlagsPatchRefused(w)  == run[w].pc = "flagsPatch" /\ Refused(w, flags # "absent")

-----------------------------------------------------------------------------
(* Rollback.Apply: one patch of status.abort, without a Get.  On a Rollout *)
(* that has no canary in progress it has no effect.                        *)

(* Mutant of AbortRollout: the patch goes to the main resource, where the  *)
(* API server drops status.                                                *)
AbortRolloutMain(w) ==
  /\ run[w].pc = "abort" /\ rollout # "absent"
  /\ Go(w, "return")
  /\ UNCHANGED <<hpa, flags, rollout, cached, faults, bumps>>

AbortRollout(w) ==
  /\ run[w].pc = "abort" /\ rollout # "absent"
  /\ rollout' = IF rollout = "canary" THEN "aborting" ELSE rollout
  /\ Go(w, "return")
  /\ UNCHANGED <<hpa, flags, cached, faults, bumps>>

AbortRefused(w) == run[w].pc = "abort" /\ Refused(w, rollout # "absent")

(* argo-rollouts (external) takes the canary down. *)
RolloutController ==
  /\ rollout = "aborting"
  /\ rollout' = "stable"
  /\ UNCHANGED <<hpa, flags, cached, run, faults, bumps>>

-----------------------------------------------------------------------------
Progress(w) ==
  \/ ScaleGet(w) \/ ScaleGetMissing(w) \/ ScalePatch(w) \/ ScalePatchRefused(w)
  \/ FlagsGet(w)
  \/ FlagsCreate(w) \/ FlagsCreateRefused(w)
  \/ FlagsPatch(w) \/ FlagsPatchRefused(w)
  \/ AbortRollout(w) \/ AbortRefused(w)
  \/ Return(w)

(* A write whose reply is lost is ScalePatch, FlagsWrite or AbortRollout   *)
(* with an error as result, and dispatch treats both results alike.        *)

RemediesTypeOK ==
  /\ DOMAIN hpa \subseteq Hpa
  /\ \A t \in DOMAIN hpa : hpa[t].min \in Nat /\ hpa[t].max \in Nat
  /\ flags \in FlagState
  /\ rollout \in RolloutState
  /\ cached.flags \in FlagState /\ DOMAIN cached.hpa \subseteq Hpa
  /\ \A w \in Worker : run[w].pc \in Pc /\ run[w].to \in Nat
  /\ faults \in 0 .. MaxFaults
=============================================================================
