----------------------------- MODULE BrakeLoop -----------------------------
(***************************************************************************)
(* The closed loop around the email worker: orders-svc publishes events,   *)
(* the queue in front of the worker grows, the alert about it fires, the   *)
(* operator writes the brake into the ConfigMap, kubelet projects it, the  *)
(* watcher pauses publishing, and the worker drains the queue.             *)
(*                                                                         *)
(* The operator with its CircuitBreak remedy (Operator) and the way of the *)
(* flag into handleCreate (PublishBrake) take part with their own actions  *)
(* and share the ConfigMap.  The queue is counted; how a message is        *)
(* handled is the module EmailWorker.  Requests never end: every element   *)
(* of Order is a client that sends one after the other.                    *)
(***************************************************************************)
EXTENDS Naturals, Sequences, FiniteSets

CONSTANTS Order, Worker, LabelsOf, MaxFaults, MaxEvents,
          SelfHeal,    \* whether Argo CD syncs by itself, or people sync by hand
          MaxSyncs,    \* bound on syncs by hand
          Threshold,   \* num_pending above which the alert may fire (500)
          MaxBacklog   \* bound on the queue

ASSUME BacklogAssumption == Threshold \in Nat /\ MaxBacklog \in Nat /\ Threshold < MaxBacklog

ASSUME OrderAssumption == IsFiniteSet(Order)

ASSUME BoundsAssumption == MaxFaults \in Nat /\ MaxEvents \in Nat /\ MaxSyncs \in Nat

VARIABLES
  flags,                                                \* the shared ConfigMap
  mount, events, watcher, got, paused, order, stream,   \* PublishBrake
  cached, run, up, cooling, firing,                     \* Operator
  faults, syncs,
  backlog                                               \* messages the worker has not settled

brakeVars    == <<mount, events, watcher, got, paused, order, stream>>
operatorVars == <<cached, run, up, cooling, firing>>
vars == <<flags, brakeVars, operatorVars, faults, syncs, backlog>>

Brake == INSTANCE PublishBrake WITH MaxEdits <- 0, edits <- 0, held <- {}

Op == INSTANCE Operator WITH
        SelfHeal <- TRUE, Hpa <- {}, Declared <- << >>, ConfiguredStep <- 0, MaxEdits <- 0, HpaEdits <- FALSE,
        hpa <- << >>, rollout <- "stable", bumps <- << >>, edits <- 0

Init == Op!Init /\ Brake!Init /\ syncs = 0 /\ backlog = 0

-----------------------------------------------------------------------------
(* A client's next request arrives at handleCreate. *)
Request(o) ==
  /\ order[o] \in {"new", "done"}
  /\ order' = [order EXCEPT ![o] = "charging"]
  /\ stream' = stream \ {o}
  /\ UNCHANGED <<flags, mount, events, watcher, got, paused, operatorVars, faults, syncs, backlog>>

(* handleCreate up to the check of the pause flag. *)
Handle(o) ==
  /\ Brake!Charged(o) \/ Brake!CheckPaused(o)
  /\ UNCHANGED <<operatorVars, syncs, backlog>>

(* Mutant of Publish: a call whose reply is lost is made again. *)
PublishAgain(o) ==
  /\ order[o] = "publishing" /\ backlog < MaxBacklog
  /\ \/ Brake!Publish(o) /\ o \in stream'
     \/ UNCHANGED <<flags, mount, events, watcher, got, paused, order, stream, faults>>
  /\ backlog' = backlog + 1
  /\ UNCHANGED <<operatorVars, syncs>>

(* js.PublishMsg: the event is queued, unless the call fails. *)
Publish(o) ==
  /\ backlog < MaxBacklog
  /\ Brake!Publish(o)
  /\ backlog' = IF o \in stream' THEN backlog + 1 ELSE backlog
  /\ UNCHANGED <<operatorVars, syncs>>

(* Mutant of Follow: the watcher does not store what it reads. *)
FollowReads ==
  /\ Brake!FirstRead \/ Brake!AddWatch \/ Brake!OnEvent \/ Brake!OnTick
  /\ UNCHANGED <<operatorVars, syncs, backlog>>

(* watchCircuitBreak *)
Follow ==
  /\ Brake!Watcher \/ Brake!OnTick
  /\ UNCHANGED <<operatorVars, syncs, backlog>>

Kubelet == (\E seen \in BOOLEAN : Brake!KubeletSync(seen)) /\ UNCHANGED <<operatorVars, syncs, backlog>>

OrdersFaults == (Brake!Restart \/ Brake!WatchFails \/ Brake!ContextDone) /\ UNCHANGED <<operatorVars, syncs, backlog>>

-----------------------------------------------------------------------------
Operator(f) ==
  /\ Op!Dispatch(f) \/ Op!RemedyStep(f) \/ Op!RemedyFails(f) \/ Op!CooldownEnds(f)
  /\ UNCHANGED <<brakeVars, syncs, backlog>>

OperatorProcess ==
  /\ Op!CacheSync \/ Op!Crash \/ Op!Restart
  /\ UNCHANGED <<brakeVars, syncs, backlog>>

(* Argo CD applies what Git declares, publish_enabled "true". *)
GitOps ==
  /\ Op!GitOpsSync
  /\ IF SelfHeal THEN syncs' = syncs ELSE syncs < MaxSyncs /\ syncs' = syncs + 1
  /\ UNCHANGED <<brakeVars, backlog>>

(* EmailWorkerBacklogGrowing: it fires only on a deep queue, and stops as  *)
(* soon as the queue no longer grows or is short.                          *)
Alerting(f) ==
  /\ firing[f] \/ backlog > Threshold
  /\ Op!Alerting(f)
  /\ UNCHANGED <<brakeVars, syncs, backlog>>

(* The worker settles a message. *)
Settle ==
  /\ backlog > 0 /\ backlog' = backlog - 1
  /\ UNCHANGED <<flags, brakeVars, operatorVars, faults, syncs>>

-----------------------------------------------------------------------------
Next ==
  \/ \E o \in Order : Request(o) \/ Handle(o) \/ Publish(o)
  \/ Follow \/ Kubelet \/ OrdersFaults
  \/ \E f \in Worker : Operator(f) \/ Alerting(f)
  \/ OperatorProcess \/ GitOps \/ Settle

Spec == Init /\ [][Next]_vars

(* What the components assume on their own, and that the worker works.     *)
(* Clients, alerts and Argo CD are free.                                   *)
Fairness ==
  /\ WF_vars(Kubelet) /\ WF_vars(Follow)
  /\ SF_vars(Brake!OnTick /\ UNCHANGED <<operatorVars, syncs, backlog>>)
  /\ WF_vars(watcher = "ended" /\ Brake!Restart /\ UNCHANGED <<operatorVars, syncs, backlog>>)
  /\ \A f \in Worker :
       /\ WF_vars(Op!Dispatch(f) /\ UNCHANGED <<brakeVars, syncs, backlog>>)
       /\ WF_vars(Op!RemedyStep(f) /\ UNCHANGED <<brakeVars, syncs, backlog>>)
       /\ SF_vars(Op!CooldownEnds(f) /\ UNCHANGED <<brakeVars, syncs, backlog>>)
  /\ WF_vars(Op!CacheSync /\ UNCHANGED <<brakeVars, syncs, backlog>>)
  /\ WF_vars(Op!Restart /\ UNCHANGED <<brakeVars, syncs, backlog>>)
  /\ WF_vars(Settle)

FairSpec == Spec /\ Fairness

-----------------------------------------------------------------------------
(* The queue, and the state of the two components that share the flag. *)
TypeOK ==
  /\ Brake!TypeOK /\ Op!TypeOK
  /\ backlog \in 0 .. MaxBacklog /\ syncs \in 0 .. MaxSyncs

(* Orders that handleCreate has checked and not yet published. *)
InFlight == {o \in Order : order[o] = "publishing"}

(* "The email-worker queue stops growing" (docs/runbooks/circuit-break.md, *)
(* line 16): while publishing is paused no step, of whomever, adds to the  *)
(* queue and the orders that passed the check before the pause taken       *)
(* together.  Those are all that may still be published, also where a      *)
(* Charge of five seconds spans the beginning of the pause.                *)
QueueStopsGrowing ==
  [][paused /\ paused' => backlog' + Cardinality(InFlight') <= backlog + Cardinality(InFlight)]_vars

(* docs/runbooks/circuit-break.md, lines 16-17: "The email-worker queue    *)
(* stops growing, the worker catches up, the SLO returns to budget."  An   *)
(* alert that fires is over one day, or the queue is drained, however many *)
(* orders keep coming in: the whole chain from the webhook to the check in *)
(* handleCreate works.  A watcher that could not set up its watch is       *)
(* excepted.                                                               *)
WorkerCatchesUp ==
  \A f \in Worker : firing[f] ~> (~firing[f] \/ backlog = 0 \/ watcher = "dead")
=============================================================================
