---------------------------- MODULE WebhookServer ----------------------------
(***************************************************************************)
(* The AlertManager webhook of the remediation operator                    *)
(* (operator/internal/server/server.go): concurrent HTTP handlers that     *)
(* share the cooldown map of their pod, over the life of the pods.         *)
(*                                                                         *)
(* A handler reads the clock once, when the payload has been decoded, and  *)
(* uses that "now" for every alert of the payload, while a remedy that it  *)
(* runs in between may take arbitrarily long.  Each pass of its loop is    *)
(* one step: the shared state it touches is touched under Dedupe.mu.       *)
(* Remedies are opaque here (a remedy starts, a remedy returns); module    *)
(* Operator puts those of module Remedies in their place.                  *)
(***************************************************************************)
EXTENDS Dedupe, Classifier, Sequences

CONSTANTS Handler,    \* concurrently served requests
          Pod,        \* pods of the Deployment; a rolling update overlaps two
          Label,      \* the label sets alerts carry
          Payload,    \* the alert lists AlertManager may send
          MaxClock    \* bound on the clock, so that TLC's runs are finite

Alert == [fingerprint : Fingerprint \cup {NoFingerprint}, firing : BOOLEAN, labels : Label]

ASSUME PayloadAssumption == Payload \subseteq Seq(Alert)
ASSUME ClockAssumption == MaxClock \in Nat

VARIABLES
  clock,    \* wall clock
  pod,      \* pod[p]: "down", "serving", or "draining" (http.Server.Shutdown)
  seen,     \* seen[p]: the dedupe map of the pod's process
  handler,  \* handler[h]: a goroutine serving POST /alerts, or idle
  accepts   \* history: accepts[p], what this incarnation of p accepted, in order

vars == <<clock, pod, seen, handler, accepts>>

NoPod == "none"    \* an idle handler is not on a pod
PodState == {"down", "serving", "draining"}

(* One call of handleAlert; next is the index of its loop. *)
HandlerState == [pc : {"idle", "loop", "remedy"}, pod : Pod \cup {NoPod}, now : Nat,
                 payload : Seq(Alert), next : Nat \ {0}]

IdleHandler == [pc |-> "idle", pod |-> NoPod, now |-> 0, payload |-> << >>, next |-> 1]

Accept == [fingerprint : Fingerprint, decision : Decision, stamp : Nat, at : Nat]

Busy(h)    == handler[h].pc # "idle"
Current(h) == handler[h].payload[handler[h].next]
Looping(h) == handler[h].pc = "loop" /\ handler[h].next <= Len(handler[h].payload)

Init ==
  /\ clock = 0
  /\ pod = [p \in Pod |-> "down"]
  /\ seen = [p \in Pod |-> NewDedupe]
  /\ accepts = [p \in Pod |-> << >>]
  /\ handler = [h \in Handler |-> IdleHandler]

-----------------------------------------------------------------------------
(* The handler. *)

(* A payload that does not decode is answered 400 and changes nothing. *)
ReceiveBad(h, p) ==
  /\ ~Busy(h) /\ pod[p] = "serving"
  /\ UNCHANGED vars

(* Decode succeeds; now := time.Now(). *)
Receive(h, p, payload) ==
  /\ ~Busy(h) /\ pod[p] = "serving"
  /\ handler' = [handler EXCEPT ![h] = [pc |-> "loop", pod |-> p, now |-> clock,
                                        payload |-> payload, next |-> 1]]
  /\ UNCHANGED <<clock, pod, seen, accepts>>

Advance(h) == handler' = [handler EXCEPT ![h].next = @ + 1]

(* A resolved alert never reaches the dedupe map. *)
SkipResolved(h) ==
  /\ Looping(h) /\ ~Current(h).firing
  /\ Advance(h)
  /\ UNCHANGED <<clock, pod, seen, accepts>>

Allowed(h) == Acquires(seen[handler[h].pod], Current(h).fingerprint, handler[h].now)

(* Mutant of SkipCooldown: a refused alert is stamped too. *)
SkipCooldownStamps(h) ==
  /\ Looping(h) /\ Current(h).firing /\ ~Allowed(h)
  /\ Advance(h)
  /\ seen' = [seen EXCEPT ![handler[h].pod] = Stamp(@, Current(h).fingerprint, handler[h].now)]
  /\ UNCHANGED <<clock, pod, accepts>>

SkipCooldown(h) ==
  /\ Looping(h) /\ Current(h).firing /\ ~Allowed(h)
  /\ Advance(h)
  /\ UNCHANGED <<clock, pod, seen, accepts>>

(* Acquire returns true: the stamp is the handler's now, not the clock. *)
AcquireCurrent(h) ==
  LET p == handler[h].pod
      f == Current(h).fingerprint
  IN  /\ Looping(h) /\ Current(h).firing /\ Allowed(h)
      /\ seen' = [seen EXCEPT ![p] = AfterAcquire(@, f, handler[h].now)]
      /\ accepts' = [accepts EXCEPT ![p] =
           IF f = NoFingerprint THEN @
           ELSE Append(@, [fingerprint |-> f, decision |-> Classify(Current(h).labels),
                           stamp |-> handler[h].now, at |-> clock])]

(* dispatch: Classify says NoRemedy, the loop goes on. *)
DispatchNone(h) ==
  /\ AcquireCurrent(h)
  /\ Classify(Current(h).labels).kind = "NoRemedy"
  /\ Advance(h)
  /\ UNCHANGED <<clock, pod>>

(* dispatch: Registry.Apply starts to run, in the handler's goroutine. *)
DispatchRemedy(h) ==
  /\ AcquireCurrent(h)
  /\ Classify(Current(h).labels).kind # "NoRemedy"
  /\ handler' = [handler EXCEPT ![h].pc = "remedy"]
  /\ UNCHANGED <<clock, pod>>

(* Apply returns; an error is logged, and the stamp stays. *)
RemedyReturns(h) ==
  /\ handler[h].pc = "remedy"
  /\ handler' = [handler EXCEPT ![h].pc = "loop", ![h].next = @ + 1]
  /\ UNCHANGED <<clock, pod, seen, accepts>>

(* The payload is done: 202, whatever became of its remedies. *)
Reply(h) ==
  /\ handler[h].pc = "loop" /\ handler[h].next > Len(handler[h].payload)
  /\ handler' = [handler EXCEPT ![h] = IdleHandler]
  /\ UNCHANGED <<clock, pod, seen, accepts>>

-----------------------------------------------------------------------------
(* The process: New and Start, the signal, the end of the drain, a crash.  *)

StartPod(p) ==
  /\ pod[p] = "down"
  /\ pod' = [pod EXCEPT ![p] = "serving"]
  /\ seen' = [seen EXCEPT ![p] = NewDedupe]
  /\ accepts' = [accepts EXCEPT ![p] = << >>]
  /\ UNCHANGED <<clock, handler>>

(* ctx is cancelled: Shutdown closes the listener, handlers run on. *)
Shutdown(p) ==
  /\ pod[p] = "serving"
  /\ pod' = [pod EXCEPT ![p] = "draining"]
  /\ UNCHANGED <<clock, seen, handler, accepts>>

Dies(p) ==
  /\ pod' = [pod EXCEPT ![p] = "down"]
  /\ handler' = [h \in Handler |-> IF handler[h].pod = p THEN IdleHandler ELSE handler[h]]
  /\ UNCHANGED <<clock, seen, accepts>>

(* Shutdown returns when the handlers are done or its ten seconds are over. *)
DrainEnds(p) == pod[p] = "draining" /\ Dies(p)

(* The process is killed, or ListenAndServe fails and Start returns the error. *)
Crash(p) == pod[p] = "serving" /\ Dies(p)

Tick ==
  /\ clock < MaxClock
  /\ clock' = clock + 1
  /\ UNCHANGED <<pod, seen, handler, accepts>>

-----------------------------------------------------------------------------
HandlerStep(h) ==
  \/ \E p \in Pod : ReceiveBad(h, p)
  \/ \E p \in Pod : \E payload \in Payload : Receive(h, p, payload)
  \/ SkipResolved(h)
  \/ SkipCooldown(h)
  \/ DispatchNone(h)
  \/ DispatchRemedy(h)
  \/ RemedyReturns(h)
  \/ Reply(h)

PodStep(p) == StartPod(p) \/ Shutdown(p) \/ DrainEnds(p) \/ Crash(p)

Next == (\E h \in Handler : HandlerStep(h)) \/ (\E p \in Pod : PodStep(p)) \/ Tick

Spec == Init /\ [][Next]_vars

-----------------------------------------------------------------------------
TypeOK ==
  /\ clock \in Nat
  /\ pod \in [Pod -> PodState]
  /\ DOMAIN seen = Pod /\ \A p \in Pod : IsSeenMap(seen[p])
  /\ handler \in [Handler -> HandlerState]
  /\ accepts \in [Pod -> Seq(Accept)]

(* Two remedies for one fingerprint are kept apart by the cooldown: within *)
(* the life of a process, the later of two accepted alerts is acted on a   *)
(* full cooldown after the arrival of the request that carried the earlier *)
(* one.  Handlers that run with an old "now", entries that gcLocked drops  *)
(* on behalf of another fingerprint, and duplicates inside one payload are *)
(* what could break it (Acquire, gcLocked, handleAlert's single now).      *)
CooldownSpacing ==
  \A p \in Pod : \A i, j \in 1 .. Len(accepts[p]) :
    (i < j /\ accepts[p][i].fingerprint = accepts[p][j].fingerprint)
      => accepts[p][j].at >= accepts[p][i].stamp + Cooldown

(* The cooldown never starves a burning SLO: each firing alert a handler   *)
(* has gone past was accepted, by it or by another handler of the same     *)
(* process, less than a cooldown before its request arrived.  A refusal    *)
(* must therefore never prolong the window (Acquire returns before it      *)
(* stamps), and gcLocked or a restart must not leave a stamp without an    *)
(* accepted alert behind it.                                               *)
CoveredBy(p, f, now) ==
  \E i \in 1 .. Len(accepts[p]) :
    accepts[p][i].fingerprint = f /\ now - accepts[p][i].stamp < Cooldown

AlertsCovered ==
  \A h \in Handler : Busy(h) =>
    \A i \in 1 .. Len(handler[h].payload) :
      LET a == handler[h].payload[i]
      IN  (i < handler[h].next /\ a.firing /\ a.fingerprint # NoFingerprint)
            => CoveredBy(handler[h].pod, a.fingerprint, handler[h].now)
==============================================================================
