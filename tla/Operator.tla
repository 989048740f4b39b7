------------------------------ MODULE Operator ------------------------------
(***************************************************************************)
(* The remediation operator in its cluster: AlertManager re-sends alerts   *)
(* that fire, the webhook's cooldown lets one through per window, its      *)
(* remedy runs against the API server, while people, Argo CD and crashes   *)
(* interfere.                                                              *)
(*                                                                         *)
(* Time is abstracted: cooling[f] says that the cooldown of fingerprint f  *)
(* is running (module WebhookServer has the clock and shows that the       *)
(* windows are a cooldown apart).  Two assumptions about durations are     *)
(* made, both in the guard of CooldownEnds: a call of Apply and the lag of *)
(* the informer cache are shorter than the ten minutes of the cooldown.    *)
(* Hence one worker per fingerprint is enough.                             *)
(***************************************************************************)
EXTENDS Remedies

CONSTANTS LabelsOf,    \* LabelsOf[f]: the labels of the alert with fingerprint f
          MaxEdits,    \* bound on edits of the cluster's objects by people
          HpaEdits,    \* whether people also edit minReplicas
          SelfHeal     \* whether Argo CD's automated sync with selfHeal is on

ASSUME EditsAssumption == MaxEdits \in Nat /\ HpaEdits \in BOOLEAN /\ SelfHeal \in BOOLEAN

Fingerprint == Worker

VARIABLES up, cooling, firing, edits

vars == <<remedyVars, up, cooling, firing, edits>>
operatorVars == <<up, cooling, firing, edits>>

DecisionOf(f) == Classify(LabelsOf[f])
RemedyAlert(kind) == {f \in Fingerprint : DecisionOf(f).kind = kind}

Init ==
  /\ RemediesInit
  /\ up = TRUE
  /\ cooling = [f \in Fingerprint |-> FALSE]
  /\ firing = [f \in Fingerprint |-> FALSE]
  /\ edits = 0

-----------------------------------------------------------------------------
(* Mutant of Dispatch: the cooldown is not consulted. *)
DispatchAlways(f) ==
  /\ up /\ firing[f]
  /\ cooling' = [cooling EXCEPT ![f] = TRUE]
  /\ Apply(f, DecisionOf(f))
  /\ UNCHANGED <<up, firing, edits>>

(* handleAlert, Acquire, dispatch, for an alert that AlertManager (re-)sends. *)
Dispatch(f) ==
  /\ up /\ firing[f] /\ ~cooling[f]
  /\ cooling' = [cooling EXCEPT ![f] = TRUE]
  /\ Apply(f, DecisionOf(f))
  /\ UNCHANGED <<up, firing, edits>>

(* The remedy in flight. *)
RemedyStep(f) == up /\ Progress(f) /\ UNCHANGED operatorVars

RemedyFails(f) == up /\ CallFails(f) /\ UNCHANGED operatorVars

CacheSync == up /\ Sync /\ UNCHANGED operatorVars

CooldownEnds(f) ==
  /\ up /\ cooling[f]
  /\ run[f].pc = "idle"
  /\ cached = [hpa |-> hpa, flags |-> flags]
  /\ cooling' = [cooling EXCEPT ![f] = FALSE]
  /\ UNCHANGED <<remedyVars, up, firing, edits>>

(* The process dies with its in-memory cooldowns and its calls in flight. *)
Crash ==
  /\ up /\ faults < MaxFaults
  /\ up' = FALSE
  /\ faults' = faults + 1
  /\ run' = [w \in Worker |-> IdleRun]
  /\ UNCHANGED <<hpa, flags, rollout, cached, bumps, cooling, firing, edits>>

(* The new process lists the objects before its first Get returns. *)
Restart ==
  /\ ~up
  /\ up' = TRUE
  /\ cooling' = [f \in Fingerprint |-> FALSE]
  /\ cached' = [hpa |-> hpa, flags |-> flags]
  /\ UNCHANGED <<hpa, flags, rollout, run, faults, bumps, firing, edits>>

-----------------------------------------------------------------------------
(* The environment. *)

Alerting(f) ==
  /\ firing' = [firing EXCEPT ![f] = ~@]
  /\ UNCHANGED <<remedyVars, up, cooling, edits>>

Edit == edits < MaxEdits /\ edits' = edits + 1 /\ UNCHANGED <<up, cooling, firing>>

LiftBrake ==
  /\ Edit
  /\ flags \in {"true", "false"} /\ flags' = "unset"
  /\ UNCHANGED <<hpa, rollout, cached, run, faults, bumps>>

DeleteFlags ==
  /\ Edit
  /\ flags # "absent" /\ flags' = "absent"
  /\ UNCHANGED <<hpa, rollout, cached, run, faults, bumps>>

EditHpa(t) ==
  /\ HpaEdits /\ Edit
  /\ t \in DOMAIN hpa
  /\ \/ \E m \in 1 .. hpa[t].max : hpa' = [hpa EXCEPT ![t].min = m]
     \/ hpa' = Restrict(hpa, DOMAIN hpa \ {t})
  /\ UNCHANGED <<flags, rollout, cached, run, faults, bumps>>

Deploy ==
  /\ Edit
  /\ rollout' \in {"canary", "absent"}
  /\ UNCHANGED <<hpa, flags, cached, run, faults, bumps>>

(* Argo CD restores what Git declares, the flag included (external). *)
GitOpsSync ==
  /\ SelfHeal
  /\ hpa' = Declared /\ flags' = "true"
  /\ UNCHANGED <<rollout, cached, run, faults, bumps, up, cooling, firing, edits>>

-----------------------------------------------------------------------------
Environment ==
  \/ \E f \in Fingerprint : Alerting(f)
  \/ LiftBrake \/ DeleteFlags \/ Deploy \/ GitOpsSync
  \/ \E t \in Hpa : EditHpa(t)

Next ==
  \/ \E f \in Fingerprint : Dispatch(f) \/ RemedyStep(f) \/ RemedyFails(f) \/ CooldownEnds(f)
  \/ CacheSync \/ Crash \/ Restart
  \/ (RolloutController /\ UNCHANGED operatorVars)
  \/ Environment

(* AlertManager keeps re-sending (repeat_interval), goroutines and the     *)
(* informer make progress, a cooldown ends, the Deployment restarts its    *)
(* pod, argo-rollouts reconciles.  A cooldown is a timer: it ends also     *)
(* when others keep writing, hence strong fairness.                        *)
Fairness ==
  /\ \A f \in Fingerprint : /\ WF_vars(Dispatch(f))
                            /\ WF_vars(RemedyStep(f))
                            /\ SF_vars(CooldownEnds(f))
  /\ WF_vars(CacheSync)
  /\ WF_vars(Restart)
  /\ WF_vars(RolloutController /\ UNCHANGED operatorVars)

Spec == Init /\ [][Next]_vars
FairSpec == Spec /\ Fairness

-----------------------------------------------------------------------------
TypeOK ==
  /\ RemediesTypeOK
  /\ up \in BOOLEAN
  /\ cooling \in [Fingerprint -> BOOLEAN]
  /\ firing \in [Fingerprint -> BOOLEAN]
  /\ edits \in 0 .. MaxEdits

(* While an email-worker alert keeps firing, the brake is eventually on:   *)
(* no failed call, crash, ConfigMap that is missing or was deleted         *)
(* mid-incident, or stale cache that turns CircuitBreak.Apply into a no-op *)
(* or an AlreadyExists error keeps it off for good.                        *)
BrakeLands ==
  \A f \in RemedyAlert("CircuitBreak") : firing[f] ~> (flags = "false" \/ ~firing[f])

(* While a fast burn keeps firing, ScaleUp.Apply eventually has raised the *)
(* floor of the HPA to its ceiling, in steps that need not divide the      *)
(* distance; without the cap the API server would refuse the last one.     *)
(* People may edit or delete the HPA.  Stated for clusters without Argo    *)
(* CD's self-heal, which takes each bump back (GitOpsSync).                *)
FloorClimbs ==
  \A f \in RemedyAlert("ScaleUp") :
    LET t == DecisionOf(f).target
    IN  firing[f] ~> (~firing[f] \/ t \notin DOMAIN hpa \/ hpa[t].min = hpa[t].max)

(* While an orders alert keeps firing, a canary does not survive: also one *)
(* that is deployed while the cooldown of the last rollback runs.          *)
CanaryAborted ==
  \A f \in RemedyAlert("Rollback") :
    (firing[f] /\ rollout = "canary") ~> (rollout # "canary" \/ ~firing[f])

(* Each patch of ScaleUp.Apply that takes effect raises the floor, and by  *)
(* Step, capped (docs/runbooks/scale.md, lines 8-10), although it is       *)
(* computed from a cached object, after failed calls and restarts that forget the   *)
(* cooldown.  Stated as long as nobody else writes: the patch carries no   *)
(* resourceVersion and would overwrite an edit it has not seen.            *)
BumpsByStep ==
  edits = 0 => \A i \in 1 .. Len(bumps) :
                 /\ bumps[i].to = Bumped([min |-> bumps[i].from, max |-> bumps[i].max])
                 /\ bumps[i].to > bumps[i].from

(* remedy.go, lines 30-32: "a double-apply must converge to the same end state". *)
DoubleApplyConverges == Len(bumps) >= 2 => bumps[2].to = bumps[1].to
=============================================================================
