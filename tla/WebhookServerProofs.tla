------------------------- MODULE WebhookServerProofs -------------------------
(***************************************************************************)
(* CooldownSpacing and AlertsCovered for every number of handlers and      *)
(* pods, every payload, every cooldown.                                    *)
(*                                                                         *)
(* Neither is inductive.  Spacing needs to know where the evidence of an   *)
(* accepted alert is: its stamp is in the map, or its cooldown is over for *)
(* the clock and so for every "now" still in use (AcceptsRemembered).      *)
(* Coverage needs the converse, that every stamp stems from an accepted    *)
(* alert (StampsAccepted).                                                 *)
(***************************************************************************)
EXTENDS WebhookServer, TLAPS

(* A busy handler is on a live pod, and its "now" is in the past. *)
HandlersOnPods ==
  \A h \in Handler : Busy(h) =>
    /\ handler[h].pod \in Pod
    /\ pod[handler[h].pod] # "down"
    /\ handler[h].now <= clock

StampsAccepted ==
  \A p \in Pod : \A f \in DOMAIN seen[p] :
    \E i \in 1 .. Len(accepts[p]) :
      accepts[p][i].fingerprint = f /\ accepts[p][i].stamp = seen[p][f]

Remembered(p, e) ==
  \/ e.fingerprint \in DOMAIN seen[p] /\ seen[p][e.fingerprint] = e.stamp
  \/ e.stamp + Cooldown <= clock

AcceptsRemembered ==
  \A p \in Pod : \A i \in 1 .. Len(accepts[p]) : Remembered(p, accepts[p][i])

(* While its remedy runs, an alert is covered already. *)
RemedyCovered ==
  \A h \in Handler : handler[h].pc = "remedy" =>
    /\ handler[h].next <= Len(handler[h].payload)
    /\ Current(h).fingerprint # NoFingerprint
         => CoveredBy(handler[h].pod, Current(h).fingerprint, handler[h].now)

IInv ==
  /\ TypeOK
  /\ HandlersOnPods
  /\ StampsAccepted
  /\ AcceptsRemembered
  /\ RemedyCovered
  /\ CooldownSpacing
  /\ AlertsCovered

-----------------------------------------------------------------------------
(* The cooldown the server uses is a positive number, whatever was         *)
(* configured (server.New).                                                *)
LEMMA CooldownPositive == Cooldown \in Nat /\ Cooldown > 0
BY CooldownAssumption DEF Cooldown

(* Classify answers every label set with a kind and a target it knows. *)
LEMMA ClassifyDecides == \A l : Classify(l) \in Decision
BY DEF Classify, Decide, Decision, Kind, NoTarget

(* What a successful Acquire leaves in the map: the new stamp, and of the  *)
(* other entries those whose cooldown is not over.                         *)
LEMMA AcquireFacts ==
  ASSUME NEW s, IsSeenMap(s), NEW f \in Fingerprint, NEW now \in Nat,
         Acquires(s, f, now)
  PROVE  LET t == AfterAcquire(s, f, now)
         IN  /\ IsSeenMap(t)
             /\ f \in DOMAIN t /\ t[f] = now
             /\ \A g \in DOMAIN t : g # f => g \in DOMAIN s /\ t[g] = s[g]
             /\ \A g \in DOMAIN s : g \notin DOMAIN t => now - s[g] >= Cooldown
             /\ f \in DOMAIN s => now - s[f] >= Cooldown
<1> DEFINE u == Stamp(s, f, now)
           t == gcLocked(u, now)
<1>1. f # NoFingerprint
  BY FingerprintAssumption
<1>2. AfterAcquire(s, f, now) = t
  BY <1>1 DEF AfterAcquire
<1>3. /\ DOMAIN u = DOMAIN s \cup {f}
      /\ u[f] = now
      /\ \A g \in DOMAIN s : g # f => u[g] = s[g]
  BY DEF Stamp
<1>4. /\ DOMAIN t = {g \in DOMAIN u : now - u[g] < Cooldown}
      /\ \A g \in DOMAIN t : t[g] = u[g]
      /\ t \in [DOMAIN t -> {u[g] : g \in DOMAIN u}]
  BY DEF gcLocked, Fresh
<1>5. \A g \in DOMAIN s : s[g] \in Nat
  BY DEF IsSeenMap
<1>6. f \in DOMAIN t /\ t[f] = now
  BY <1>3, <1>4, CooldownPositive
<1>7. f \in DOMAIN s => now - s[f] >= Cooldown
  BY <1>1, <1>5, CooldownPositive DEF Acquires, Fresh
<1>8. \A g \in DOMAIN t : g # f => g \in DOMAIN s /\ t[g] = s[g]
  BY <1>3, <1>4
<1>9. \A g \in DOMAIN s : g \notin DOMAIN t => now - s[g] >= Cooldown
  BY <1>3, <1>4, <1>5, <1>6, CooldownPositive
<1>10. IsSeenMap(t)
  <2>1. DOMAIN t \subseteq Fingerprint
    BY <1>3, <1>4 DEF IsSeenMap
  <2>2. \A g \in DOMAIN t : t[g] \in Nat
    BY <1>5, <1>6, <1>8
  <2>3. t \in [DOMAIN t -> Nat]
    BY <1>4, <2>2
  <2> QED BY <2>1, <2>3 DEF IsSeenMap
<1> HIDE DEF t
<1> QED BY <1>2, <1>6, <1>7, <1>8, <1>9, <1>10

(* What is covered stays covered when the history grows at its end. *)
LEMMA CoveredByAppend ==
  ASSUME TypeOK, NEW p \in Pod, NEW e \in Accept,
         accepts' = [accepts EXCEPT ![p] = Append(@, e)]
  PROVE  \A q \in Pod, f \in Fingerprint, n \in Nat :
           CoveredBy(q, f, n) => CoveredBy(q, f, n)'
<1> SUFFICES ASSUME NEW q \in Pod, NEW f \in Fingerprint, NEW n \in Nat,
                    CoveredBy(q, f, n)
             PROVE  CoveredBy(q, f, n)'
  OBVIOUS
<1>1. accepts[q] \in Seq(Accept) /\ accepts[p] \in Seq(Accept)
  BY DEF TypeOK
<1>2. PICK i \in 1 .. Len(accepts[q]) :
        accepts[q][i].fingerprint = f /\ n - accepts[q][i].stamp < Cooldown
  BY DEF CoveredBy
<1>3. i \in 1 .. Len(accepts'[q]) /\ accepts'[q][i] = accepts[q][i]
  BY <1>1, <1>2 DEF TypeOK
<1> QED BY <1>2, <1>3 DEF CoveredBy

-----------------------------------------------------------------------------
(* An accepted alert enters the map and the history with proper values. *)
LEMMA AcquireType ==
  ASSUME TypeOK, HandlersOnPods, NEW h \in Handler, AcquireCurrent(h)
  PROVE  /\ DOMAIN seen' = Pod /\ \A p \in Pod : IsSeenMap(seen'[p])
         /\ accepts' \in [Pod -> Seq(Accept)]
<1> DEFINE p == handler[h].pod
           f == Current(h).fingerprint
           n == handler[h].now
           d == Classify(Current(h).labels)
<1>1. /\ Looping(h) /\ Allowed(h)
      /\ seen' = [seen EXCEPT ![p] = AfterAcquire(@, f, n)]
      /\ accepts' = [accepts EXCEPT ![p] =
           IF f = NoFingerprint THEN @
           ELSE Append(@, [fingerprint |-> f, decision |-> d, stamp |-> n, at |-> clock])]
  BY DEF AcquireCurrent
<1>2. handler[h] \in HandlerState /\ p \in Pod /\ n \in Nat /\ clock \in Nat
  BY <1>1 DEF TypeOK, HandlersOnPods, Looping, Busy, HandlerState
<1>3. Current(h) \in Alert
  BY <1>1, <1>2 DEF Looping, Current, HandlerState
<1>4. f \in Fingerprint \cup {NoFingerprint}
  BY <1>3 DEF Alert
<1>5. IsSeenMap(seen[p]) /\ accepts[p] \in Seq(Accept)
  BY <1>2 DEF TypeOK
<1>6. IsSeenMap(AfterAcquire(seen[p], f, n))
  <2>1. CASE f = NoFingerprint
    BY <2>1, <1>5 DEF AfterAcquire
  <2>2. CASE f \in Fingerprint
    <3>1. Acquires(seen[p], f, n)
      BY <1>1 DEF Allowed
    <3> QED BY <2>2, <3>1, <1>2, <1>5, AcquireFacts
  <2> QED BY <2>1, <2>2, <1>4
<1>7. DOMAIN seen' = Pod /\ \A q \in Pod : IsSeenMap(seen'[q])
  BY <1>1, <1>2, <1>6 DEF TypeOK
<1>8. f # NoFingerprint
        => [fingerprint |-> f, decision |-> d, stamp |-> n, at |-> clock] \in Accept
  BY <1>2, <1>4, ClassifyDecides DEF Accept
<1>9. accepts' \in [Pod -> Seq(Accept)]
  BY <1>1, <1>2, <1>5, <1>8 DEF TypeOK
<1> QED BY <1>7, <1>9

(* Steps keep the types, and busy handlers stay on live pods. *)
LEMMA TypeStep ==
  ASSUME TypeOK, HandlersOnPods, [Next]_vars
  PROVE  TypeOK' /\ HandlersOnPods'
<1> USE DEF TypeOK, HandlersOnPods, Busy
<1>1. ASSUME NEW h \in Handler, HandlerStep(h)
      PROVE  TypeOK' /\ HandlersOnPods'
  <2> handler[h] \in HandlerState /\ handler[h].next + 1 \in Nat \ {0}
    BY DEF HandlerState
  <2>1. CASE \E p \in Pod : ReceiveBad(h, p)
    BY <2>1 DEF ReceiveBad, vars
  <2>2. ASSUME NEW p \in Pod, NEW payload \in Payload, Receive(h, p, payload)
        PROVE  TypeOK' /\ HandlersOnPods'
    BY <2>2, PayloadAssumption DEF Receive, HandlerState
  <2>3. ASSUME Advance(h), Looping(h), UNCHANGED <<clock, pod>>
        PROVE  handler' \in [Handler -> HandlerState] /\ HandlersOnPods'
    <3>1. [handler[h] EXCEPT !.next = @ + 1] \in HandlerState
      BY DEF HandlerState
    <3>2. handler' = [handler EXCEPT ![h] = [handler[h] EXCEPT !.next = @ + 1]]
      BY <2>3 DEF Advance
    <3> QED BY <2>3, <3>1, <3>2 DEF Looping, HandlerState
  <2>4. CASE SkipResolved(h)
    BY <2>3, <2>4 DEF SkipResolved
  <2>5. CASE SkipCooldown(h)
    BY <2>3, <2>5 DEF SkipCooldown
  <2>6. CASE DispatchNone(h)
    <3>1. AcquireCurrent(h) /\ Advance(h) /\ UNCHANGED <<clock, pod>> /\ Looping(h)
      BY <2>6 DEF DispatchNone, AcquireCurrent
    <3> QED BY <3>1, <2>3, AcquireType
  <2>7. CASE DispatchRemedy(h)
    <3>1. AcquireCurrent(h) /\ UNCHANGED <<clock, pod>> /\ Looping(h)
      BY <2>7 DEF DispatchRemedy, AcquireCurrent
    <3>2. handler' \in [Handler -> HandlerState] /\ HandlersOnPods'
      BY <2>7, <3>1 DEF DispatchRemedy, Looping, HandlerState
    <3> QED BY <3>1, <3>2, AcquireType
  <2>8. CASE RemedyReturns(h)
    <3> DEFINE r == [handler[h] EXCEPT !.pc = "loop", !.next = @ + 1]
    <3>1. r \in HandlerState
      BY DEF HandlerState
    <3>2. handler' = [handler EXCEPT ![h] = r]
      BY <2>8 DEF RemedyReturns
    <3>3. r.pod = handler[h].pod /\ r.now = handler[h].now
      BY DEF HandlerState
    <3> HIDE DEF r
    <3> QED BY <2>8, <3>1, <3>2, <3>3 DEF RemedyReturns
  <2>9. CASE Reply(h)
    BY <2>9 DEF Reply, IdleHandler, HandlerState
  <2> QED BY <1>1, <2>1, <2>2, <2>4, <2>5, <2>6, <2>7, <2>8, <2>9 DEF HandlerStep
<1>2. ASSUME NEW p \in Pod, PodStep(p)
      PROVE  TypeOK' /\ HandlersOnPods'
  <2>1. CASE StartPod(p)
    <3>1. IsSeenMap(NewDedupe)
      BY DEF IsSeenMap, NewDedupe
    <3> QED BY <2>1, <3>1 DEF StartPod, PodState
  <2>2. CASE Shutdown(p)
    BY <2>2 DEF Shutdown, PodState
  <2>3. ASSUME Dies(p)
        PROVE  TypeOK' /\ HandlersOnPods'
    <3>1. IdleHandler \in HandlerState
      BY DEF IdleHandler, HandlerState
    <3> QED BY <2>3, <3>1 DEF Dies, PodState, IdleHandler, HandlerState
  <2> QED BY <1>2, <2>1, <2>2, <2>3 DEF PodStep, DrainEnds, Crash
<1>3. CASE Tick
  BY <1>3 DEF Tick, HandlerState
<1>4. CASE UNCHANGED vars
  BY <1>4 DEF vars
<1> QED BY <1>1, <1>2, <1>3, <1>4 DEF Next

-----------------------------------------------------------------------------
(* The heart of the argument.  When a handler acquires fingerprint f, every *)
(* earlier accepted alert of f is a cooldown old for its "now", hence for  *)
(* the clock; what gcLocked drops is a cooldown old as well.               *)
LEMMA AcquireStep ==
  ASSUME IInv, NEW h \in Handler, AcquireCurrent(h), clock' = clock
  PROVE  /\ StampsAccepted' /\ AcceptsRemembered' /\ CooldownSpacing'
         /\ \A q \in Pod, g \in Fingerprint, n \in Nat :
              CoveredBy(q, g, n) => CoveredBy(q, g, n)'
         /\ \A q \in Pod, g \in Fingerprint, n \in Nat :
              (q = handler[h].pod /\ g = Current(h).fingerprint /\ n = handler[h].now)
                => CoveredBy(q, g, n)'
<1> DEFINE p == handler[h].pod
           f == Current(h).fingerprint
           n == handler[h].now
           d == Classify(Current(h).labels)
           e == [fingerprint |-> f, decision |-> d, stamp |-> n, at |-> clock]
           s == seen[p]
           t == AfterAcquire(s, f, n)
           k == Len(accepts[p])
<1>1. /\ Looping(h) /\ Acquires(s, f, n)
      /\ seen' = [seen EXCEPT ![p] = t]
      /\ accepts' = [accepts EXCEPT ![p] = IF f = NoFingerprint THEN @ ELSE Append(@, e)]
  BY DEF AcquireCurrent, Allowed
<1>2. handler[h] \in HandlerState /\ p \in Pod /\ n \in Nat /\ clock \in Nat /\ n <= clock
  BY <1>1 DEF IInv, TypeOK, HandlersOnPods, Looping, Busy, HandlerState
<1>3. f \in Fingerprint \cup {NoFingerprint}
  <2>1. Current(h) \in Alert
    BY <1>1, <1>2 DEF Looping, Current, HandlerState
  <2> QED BY <2>1 DEF Alert
<1>4. CASE f = NoFingerprint
  <2>1. t = s
    BY <1>4 DEF AfterAcquire
  <2>2. \A q \in Pod : seen'[q] = seen[q] /\ accepts'[q] = accepts[q]
    BY <1>1, <1>2, <1>4, <2>1 DEF IInv, TypeOK
  <2>3. f \notin Fingerprint
    BY <1>4, FingerprintAssumption
  <2>4. StampsAccepted'
    BY <2>2 DEF IInv, StampsAccepted
  <2>5. AcceptsRemembered'
    BY <2>2 DEF IInv, AcceptsRemembered, Remembered
  <2>6. CooldownSpacing'
    BY <2>2 DEF IInv, CooldownSpacing
  <2>7. \A q \in Pod, g \in Fingerprint, m \in Nat : CoveredBy(q, g, m) => CoveredBy(q, g, m)'
    BY <2>2 DEF CoveredBy
  <2> QED BY <2>3, <2>4, <2>5, <2>6, <2>7
<1>5. CASE f \in Fingerprint
  <2>1. f # NoFingerprint
    BY <1>5, FingerprintAssumption
  <2>2. e \in Accept /\ e.fingerprint = f /\ e.stamp = n /\ e.at = clock
    BY <1>2, <1>5, ClassifyDecides DEF Accept
  <2>3. IsSeenMap(s) /\ accepts[p] \in Seq(Accept) /\ k \in Nat
    BY <1>2 DEF IInv, TypeOK
  <2>4. /\ f \in DOMAIN t /\ t[f] = n
        /\ \A g \in DOMAIN t : g # f => g \in DOMAIN s /\ t[g] = s[g]
        /\ \A g \in DOMAIN s : g \notin DOMAIN t => n - s[g] >= Cooldown
        /\ f \in DOMAIN s => n - s[f] >= Cooldown
    BY <1>1, <1>2, <1>5, <2>3, AcquireFacts
  <2> HIDE DEF t
  <2>5. accepts' = [accepts EXCEPT ![p] = Append(@, e)]
    BY <1>1, <2>1
  <2> HIDE DEF e
  <2>6. /\ Len(accepts'[p]) = k + 1
        /\ accepts'[p][k + 1] = e
        /\ \A i \in 1 .. k : accepts'[p][i] = accepts[p][i]
        /\ \A q \in Pod : q # p => accepts'[q] = accepts[q] /\ seen'[q] = seen[q]
        /\ seen'[p] = t
    BY <1>1, <1>2, <2>2, <2>3, <2>5 DEF IInv, TypeOK
  <2>7. \A i \in 1 .. k : accepts[p][i] \in Accept
    BY <2>3
  <2>8. \A g \in DOMAIN s : s[g] \in Nat
    BY <2>3 DEF IsSeenMap
  (* An earlier accepted alert is in the new map, or its cooldown is over. *)
  <2>9. ASSUME NEW i \in 1 .. k
        PROVE  /\ \/ /\ accepts[p][i].fingerprint # f
                     /\ accepts[p][i].fingerprint \in DOMAIN t
                     /\ t[accepts[p][i].fingerprint] = accepts[p][i].stamp
                  \/ accepts[p][i].stamp + Cooldown <= clock
               /\ accepts[p][i].fingerprint = f => accepts[p][i].stamp + Cooldown <= clock
    <3> DEFINE a == accepts[p][i]
    <3>1. a.fingerprint \in Fingerprint /\ a.stamp \in Nat
      BY <2>7 DEF Accept
    <3>2. \/ a.fingerprint \in DOMAIN s /\ s[a.fingerprint] = a.stamp
          \/ a.stamp + Cooldown <= clock
      BY <1>2 DEF IInv, AcceptsRemembered, Remembered
    <3> HIDE DEF a, s
    <3>3. CASE a.stamp + Cooldown <= clock
      BY <3>3 DEF a
    <3>4. CASE a.fingerprint \in DOMAIN s /\ s[a.fingerprint] = a.stamp
      <4>1. CASE a.fingerprint = f
        <5>1. n - a.stamp >= Cooldown
          BY <4>1, <3>4, <2>4
        <5>2. a.stamp + Cooldown <= clock
          BY <5>1, <3>1, <1>2, CooldownPositive
        <5> QED BY <4>1, <5>2 DEF a
      <4>2. CASE a.fingerprint # f /\ a.fingerprint \in DOMAIN t
        BY <4>2, <3>4, <2>4 DEF a
      <4>3. CASE a.fingerprint # f /\ a.fingerprint \notin DOMAIN t
        <5>1. n - a.stamp >= Cooldown
          BY <4>3, <3>4, <2>4
        <5>2. a.stamp + Cooldown <= clock
          BY <5>1, <3>1, <1>2, CooldownPositive
        <5> QED BY <4>3, <5>2 DEF a
      <4> QED BY <4>1, <4>2, <4>3
    <3> QED BY <3>2, <3>3, <3>4
  <2>10. StampsAccepted'
    <3> SUFFICES ASSUME NEW q \in Pod, NEW g \in DOMAIN seen'[q]
                 PROVE  \E i \in 1 .. Len(accepts'[q]) :
                          accepts'[q][i].fingerprint = g /\ accepts'[q][i].stamp = seen'[q][g]
      BY DEF StampsAccepted
    <3>1. CASE q # p
      BY <3>1, <2>6 DEF IInv, StampsAccepted
    <3>2. CASE q = p /\ g = f
      <4>1. k + 1 \in 1 .. Len(accepts'[q])
        BY <3>2, <2>3, <2>6
      <4> QED BY <3>2, <4>1, <2>2, <2>4, <2>6
    <3>3. CASE q = p /\ g # f
      <4>1. g \in DOMAIN s /\ t[g] = s[g]
        BY <3>3, <2>4, <2>6
      <4>2. PICK i \in 1 .. k : accepts[p][i].fingerprint = g /\ accepts[p][i].stamp = s[g]
        BY <4>1, <1>2 DEF IInv, StampsAccepted
      <4>3. i \in 1 .. Len(accepts'[q])
        BY <3>3, <4>2, <2>3, <2>6
      <4> QED BY <3>3, <4>1, <4>2, <4>3, <2>6
    <3> QED BY <3>1, <3>2, <3>3
  <2>11. AcceptsRemembered'
    <3> SUFFICES ASSUME NEW q \in Pod, NEW i \in 1 .. Len(accepts'[q])
                 PROVE  Remembered(q, accepts[q][i])'
      BY DEF AcceptsRemembered
    <3>1. CASE q # p
      BY <3>1, <2>6 DEF IInv, AcceptsRemembered, Remembered
    <3>2. CASE q = p /\ i = k + 1
      BY <3>2, <2>2, <2>4, <2>6 DEF Remembered
    <3>3. CASE q = p /\ i # k + 1
      <4>1. i \in 1 .. k
        BY <3>3, <2>3, <2>6
      <4> QED BY <3>3, <4>1, <2>6, <2>9 DEF Remembered
    <3> QED BY <3>1, <3>2, <3>3
  <2>12. CooldownSpacing'
    <3> SUFFICES ASSUME NEW q \in Pod, NEW i \in 1 .. Len(accepts'[q]),
                        NEW j \in 1 .. Len(accepts'[q]), i < j,
                        accepts'[q][i].fingerprint = accepts'[q][j].fingerprint
                 PROVE  accepts'[q][j].at >= accepts'[q][i].stamp + Cooldown
      BY DEF CooldownSpacing
    <3>1. CASE q # p
      BY <3>1, <2>6 DEF IInv, CooldownSpacing
    <3>2. CASE q = p /\ j = k + 1
      <4>1. i \in 1 .. k
        BY <3>2, <2>3, <2>6
      <4>2. accepts[p][i].stamp + Cooldown <= clock
        BY <3>2, <4>1, <2>2, <2>6, <2>9
      <4> QED BY <3>2, <4>1, <4>2, <2>2, <2>6, <2>7, <1>2, CooldownPositive DEF Accept
    <3>3. CASE q = p /\ j # k + 1
      <4>1. i \in 1 .. k /\ j \in 1 .. k
        BY <3>3, <2>3, <2>6
      <4> QED BY <3>3, <4>1, <2>6 DEF IInv, CooldownSpacing
    <3> QED BY <3>1, <3>2, <3>3
  <2>13. ASSUME NEW q \in Pod, NEW g \in Fingerprint, NEW m \in Nat,
                q = p, g = f, m = n
         PROVE  CoveredBy(q, g, m)'
    <3>1. k + 1 \in 1 .. Len(accepts'[p]) /\ n - e.stamp < Cooldown
      BY <1>2, <2>2, <2>3, <2>6, CooldownPositive
    <3>2. accepts'[p][k + 1].fingerprint = f /\ n - accepts'[p][k + 1].stamp < Cooldown
      BY <3>1, <2>2, <2>6
    <3> QED BY <2>13, <3>1, <3>2 DEF CoveredBy
  <2> QED BY <1>2, <2>2, <2>5, <2>10, <2>11, <2>12, <2>13, CoveredByAppend DEF IInv
<1> QED BY <1>3, <1>4, <1>5

-----------------------------------------------------------------------------
(* A step that leaves map and history alone keeps the facts about them. *)
LEMMA QuietStep ==
  ASSUME IInv, TypeOK', UNCHANGED <<seen, accepts>>, clock' >= clock
  PROVE  /\ StampsAccepted' /\ AcceptsRemembered' /\ CooldownSpacing'
         /\ \A q \in Pod, g \in Fingerprint, n \in Nat :
              CoveredBy(q, g, n) => CoveredBy(q, g, n)'
<1>1. StampsAccepted' /\ CooldownSpacing'
  BY DEF IInv, StampsAccepted, CooldownSpacing
<1>2. AcceptsRemembered'
  <2> SUFFICES ASSUME NEW p \in Pod, NEW i \in 1 .. Len(accepts[p])
               PROVE  Remembered(p, accepts[p][i])'
    BY DEF AcceptsRemembered
  <2>1. accepts[p][i] \in Accept
    BY DEF IInv, TypeOK
  <2>2. Remembered(p, accepts[p][i])
    BY DEF IInv, AcceptsRemembered
  <2> QED BY <2>1, <2>2, CooldownPositive DEF Remembered, Accept, IInv, TypeOK
<1> QED BY <1>1, <1>2 DEF CoveredBy

(* The values a busy handler works with. *)
LEMMA BusyHandler ==
  ASSUME TypeOK, HandlersOnPods, NEW h \in Handler, Busy(h)
  PROVE  /\ handler[h].pod \in Pod /\ handler[h].now \in Nat
         /\ handler[h].payload \in Seq(Alert) /\ handler[h].next \in Nat \ {0}
         /\ \A i \in 1 .. Len(handler[h].payload) :
              handler[h].payload[i].fingerprint # NoFingerprint
                => handler[h].payload[i].fingerprint \in Fingerprint
<1>1. handler[h] \in HandlerState /\ handler[h].pod \in Pod
  BY DEF TypeOK, HandlersOnPods
<1>2. handler[h].payload \in Seq(Alert)
  BY <1>1 DEF HandlerState
<1>3. \A i \in 1 .. Len(handler[h].payload) : handler[h].payload[i] \in Alert
  BY <1>2
<1> QED BY <1>1, <1>2, <1>3 DEF HandlerState, Alert

(* The two facts about coverage, for one handler and in a form whose parts *)
(* can be compared before and after a step.                                *)
Past(h, i) ==
  \/ i < handler[h].next /\ handler[h].payload[i].firing
  \/ i = handler[h].next /\ handler[h].pc = "remedy"

HandlerCovered(h) ==
  Busy(h) =>
    /\ handler[h].pc = "remedy" => handler[h].next <= Len(handler[h].payload)
    /\ \A i \in 1 .. Len(handler[h].payload) :
         \A q \in Pod, f \in Fingerprint, n \in Nat :
           (/\ Past(h, i) /\ q = handler[h].pod
            /\ f = handler[h].payload[i].fingerprint /\ n = handler[h].now)
             => CoveredBy(q, f, n)

AllCovered == \A h \in Handler : HandlerCovered(h)

(* AlertsCovered speaks of one busy handler at a time. *)
LEMMA CoveredHandlers ==
  (TypeOK /\ HandlersOnPods) => ((RemedyCovered /\ AlertsCovered) <=> AllCovered)
<1> SUFFICES ASSUME TypeOK, HandlersOnPods
             PROVE  (RemedyCovered /\ AlertsCovered) <=> \A h \in Handler : HandlerCovered(h)
  BY DEF AllCovered
<1>1. ASSUME RemedyCovered, AlertsCovered, NEW h \in Handler, Busy(h)
      PROVE  HandlerCovered(h)
  <2>1. NoFingerprint \notin Fingerprint
    BY FingerprintAssumption
  <2>2. CASE handler[h].pc = "remedy"
    BY <1>1, <2>1, <2>2 DEF RemedyCovered, AlertsCovered, HandlerCovered, Past, Current
  <2>3. CASE handler[h].pc # "remedy"
    BY <1>1, <2>1, <2>3 DEF AlertsCovered, HandlerCovered, Past
  <2> QED BY <2>2, <2>3
<1>2. ASSUME NEW h \in Handler, HandlerCovered(h), Busy(h)
      PROVE  /\ handler[h].pc = "remedy" =>
                  /\ handler[h].next <= Len(handler[h].payload)
                  /\ Current(h).fingerprint # NoFingerprint
                       => CoveredBy(handler[h].pod, Current(h).fingerprint, handler[h].now)
             /\ \A i \in 1 .. Len(handler[h].payload) :
                  LET a == handler[h].payload[i]
                  IN  (i < handler[h].next /\ a.firing /\ a.fingerprint # NoFingerprint)
                        => CoveredBy(handler[h].pod, a.fingerprint, handler[h].now)
  BY <1>2, BusyHandler DEF HandlerCovered, Past, Current
<1>3. ASSUME NEW h \in Handler, ~Busy(h)
      PROVE  HandlerCovered(h) /\ handler[h].pc # "remedy"
  BY <1>3 DEF HandlerCovered, Busy
<1>4. ASSUME \A h \in Handler : HandlerCovered(h)
      PROVE  RemedyCovered /\ AlertsCovered
  BY <1>2, <1>3, <1>4 DEF RemedyCovered, AlertsCovered, Busy
<1> QED BY <1>1, <1>3, <1>4

(* A handler that does not move stays covered. *)
LEMMA StillCovered ==
  ASSUME NEW h \in Handler, HandlerCovered(h), handler'[h] = handler[h],
         \A q \in Pod, f \in Fingerprint, n \in Nat : CoveredBy(q, f, n) => CoveredBy(q, f, n)'
  PROVE  HandlerCovered(h)'
BY DEF HandlerCovered, Past, Busy

(* The handler goes past its current alert, which does not fire or is      *)
(* covered after the step.                                                 *)
LEMMA AdvanceCovered ==
  ASSUME TypeOK, HandlersOnPods, NEW h \in Handler, Busy(h), HandlerCovered(h),
         handler'[h].pod = handler[h].pod, handler'[h].now = handler[h].now,
         handler'[h].payload = handler[h].payload,
         handler'[h].next = handler[h].next + 1, handler'[h].pc = "loop",
         \A q \in Pod, f \in Fingerprint, n \in Nat : CoveredBy(q, f, n) => CoveredBy(q, f, n)',
         \/ ~Current(h).firing
         \/ \A q \in Pod, f \in Fingerprint, n \in Nat :
              (q = handler[h].pod /\ f = Current(h).fingerprint /\ n = handler[h].now)
                => CoveredBy(q, f, n)'
  PROVE  HandlerCovered(h)'
<1>1. handler[h].next \in Nat \ {0} /\ handler[h].payload \in Seq(Alert)
  BY BusyHandler
<1> SUFFICES ASSUME NEW i \in 1 .. Len(handler[h].payload), i < handler[h].next + 1,
                    handler[h].payload[i].firing,
                    NEW q \in Pod, q = handler[h].pod,
                    NEW f \in Fingerprint, f = handler[h].payload[i].fingerprint,
                    NEW n \in Nat, n = handler[h].now
             PROVE  CoveredBy(q, f, n)'
  BY DEF HandlerCovered, Past, Busy
<1>2. CASE i < handler[h].next
  BY <1>2 DEF HandlerCovered, Past
<1>3. CASE i = handler[h].next
  BY <1>3 DEF Current
<1> QED BY <1>1, <1>2, <1>3

-----------------------------------------------------------------------------
(* A step of handler h keeps every handler covered. *)
LEMMA HandlerStepCovered ==
  ASSUME IInv, TypeOK', HandlersOnPods', NEW h \in Handler, HandlerStep(h)
  PROVE  /\ StampsAccepted' /\ AcceptsRemembered' /\ CooldownSpacing'
         /\ \A g \in Handler : HandlerCovered(g)'
<1> DEFINE Kept == \A q \in Pod, f \in Fingerprint, n \in Nat :
                     CoveredBy(q, f, n) => CoveredBy(q, f, n)'
           Facts == StampsAccepted' /\ AcceptsRemembered' /\ CooldownSpacing' /\ Kept
           Others == \A g \in Handler : g # h => handler'[g] = handler[g]
<1>1. TypeOK /\ HandlersOnPods /\ \A g \in Handler : HandlerCovered(g)
  BY CoveredHandlers DEF IInv, AllCovered
<1>2. handler[h] \in HandlerState /\ clock \in Nat
  BY <1>1 DEF TypeOK
<1>3. ASSUME Facts, Others, HandlerCovered(h)'
      PROVE  Facts /\ \A g \in Handler : HandlerCovered(g)'
  <2>1. ASSUME NEW g \in Handler, g # h PROVE HandlerCovered(g)'
    BY <1>1, <1>3, <2>1, StillCovered
  <2> QED BY <1>3, <2>1
<1>4. ASSUME UNCHANGED <<clock, pod, seen, accepts>>
      PROVE  Facts
  BY <1>2, <1>4, QuietStep
<1>5. ASSUME Advance(h), Looping(h)
      PROVE  /\ Others /\ Busy(h)
             /\ handler'[h].pod = handler[h].pod /\ handler'[h].now = handler[h].now
             /\ handler'[h].payload = handler[h].payload
             /\ handler'[h].next = handler[h].next + 1 /\ handler'[h].pc = "loop"
  BY <1>1, <1>2, <1>5 DEF Advance, Looping, Busy, TypeOK, HandlerState
<1>6. CASE \E p \in Pod : ReceiveBad(h, p)
  <2>1. UNCHANGED vars
    BY <1>6 DEF ReceiveBad
  <2>2. Facts /\ handler' = handler
    BY <2>1, <1>4 DEF vars
  <2>3. HandlerCovered(h)'
    BY <2>2, <1>1, StillCovered
  <2> QED BY <1>3, <2>2, <2>3
<1>7. ASSUME NEW p \in Pod, NEW payload \in Payload, Receive(h, p, payload)
      PROVE  Facts /\ \A g \in Handler : HandlerCovered(g)'
  <2>1. Facts
    BY <1>4, <1>7 DEF Receive
  <2>2. /\ Others
        /\ handler'[h].pc = "loop" /\ handler'[h].next = 1
    BY <1>1, <1>7 DEF Receive, TypeOK
  <2>3. HandlerCovered(h)'
    BY <2>2 DEF HandlerCovered, Past
  <2> QED BY <1>3, <2>1, <2>2, <2>3
<1>8. CASE SkipResolved(h)
  <2>1. Facts
    BY <1>4, <1>8 DEF SkipResolved
  <2>2. HandlerCovered(h)'
    BY <1>1, <1>5, <1>8, <2>1, AdvanceCovered DEF SkipResolved
  <2> QED BY <1>3, <1>5, <1>8, <2>1, <2>2 DEF SkipResolved
<1>9. CASE SkipCooldown(h)
  (* The refusing stamp stems from an accepted alert (StampsAccepted). *)
  <2>1. Facts /\ accepts' = accepts
    BY <1>4, <1>9 DEF SkipCooldown
  <2>2. Busy(h) /\ Looping(h) /\ ~Allowed(h)
    BY <1>9 DEF SkipCooldown, Looping, Busy
  <2>3. ASSUME NEW q \in Pod, q = handler[h].pod,
               NEW f \in Fingerprint, f = Current(h).fingerprint,
               NEW n \in Nat, n = handler[h].now
        PROVE  CoveredBy(q, f, n)'
    <3>1. f \in DOMAIN seen[q] /\ n - seen[q][f] < Cooldown
      BY <2>2, <2>3 DEF Allowed, Acquires, Fresh
    <3>2. \E i \in 1 .. Len(accepts[q]) :
            accepts[q][i].fingerprint = f /\ accepts[q][i].stamp = seen[q][f]
      BY <3>1 DEF IInv, StampsAccepted
    <3> QED BY <2>1, <3>1, <3>2 DEF CoveredBy
  <2>4. HandlerCovered(h)'
    BY <1>1, <1>5, <1>9, <2>1, <2>2, <2>3, AdvanceCovered DEF SkipCooldown
  <2> QED BY <1>3, <1>5, <1>9, <2>1, <2>2, <2>4 DEF SkipCooldown
<1>10. CASE DispatchNone(h)
  <2>1. AcquireCurrent(h) /\ Looping(h) /\ Advance(h) /\ clock' = clock
    BY <1>10 DEF DispatchNone, AcquireCurrent
  <2>2. /\ Facts
        /\ \A q \in Pod, f \in Fingerprint, n \in Nat :
             (q = handler[h].pod /\ f = Current(h).fingerprint /\ n = handler[h].now)
               => CoveredBy(q, f, n)'
    BY <2>1, AcquireStep
  <2>3. HandlerCovered(h)'
    BY <1>1, <1>5, <2>1, <2>2, AdvanceCovered
  <2> QED BY <1>3, <1>5, <2>1, <2>2, <2>3
<1>11. CASE DispatchRemedy(h)
  <2>1. AcquireCurrent(h) /\ Looping(h) /\ clock' = clock
    BY <1>11 DEF DispatchRemedy, AcquireCurrent
  <2>2. /\ Facts
        /\ \A q \in Pod, f \in Fingerprint, n \in Nat :
             (q = handler[h].pod /\ f = Current(h).fingerprint /\ n = handler[h].now)
               => CoveredBy(q, f, n)'
    BY <2>1, AcquireStep
  <2>3. /\ Others /\ handler'[h].pc = "remedy"
        /\ handler'[h].pod = handler[h].pod /\ handler'[h].now = handler[h].now
        /\ handler'[h].payload = handler[h].payload /\ handler'[h].next = handler[h].next
    BY <1>1, <1>2, <1>11 DEF DispatchRemedy, TypeOK, HandlerState
  <2>4. HandlerCovered(h)'
    <3>1. handler[h].pc = "loop" /\ Busy(h) /\ handler[h].next <= Len(handler[h].payload)
      BY <2>1 DEF Looping, Busy
    <3> SUFFICES ASSUME NEW i \in 1 .. Len(handler[h].payload),
                        NEW q \in Pod, q = handler[h].pod,
                        NEW f \in Fingerprint, f = handler[h].payload[i].fingerprint,
                        NEW n \in Nat, n = handler[h].now,
                        Past(h, i)'
                 PROVE  CoveredBy(q, f, n)'
      BY <2>3, <3>1 DEF HandlerCovered, Busy
    <3>2. CASE i = handler[h].next
      BY <2>2, <3>2 DEF Current
    <3>3. CASE i # handler[h].next
      <4>1. Past(h, i)
        BY <2>3, <3>3 DEF Past
      <4> QED BY <1>1, <2>2, <3>1, <4>1 DEF HandlerCovered
    <3> QED BY <3>2, <3>3
  <2> QED BY <1>3, <2>2, <2>3, <2>4
<1>12. CASE RemedyReturns(h)
  <2>1. Facts
    BY <1>4, <1>12 DEF RemedyReturns
  <2>2. /\ Others /\ Busy(h) /\ handler[h].pc = "remedy"
        /\ handler'[h].pod = handler[h].pod /\ handler'[h].now = handler[h].now
        /\ handler'[h].payload = handler[h].payload
        /\ handler'[h].next = handler[h].next + 1 /\ handler'[h].pc = "loop"
    BY <1>1, <1>2, <1>12 DEF RemedyReturns, Busy, TypeOK, HandlerState
  <2>3. /\ handler[h].payload \in Seq(Alert) /\ handler[h].next \in Nat \ {0}
        /\ handler[h].next <= Len(handler[h].payload)
    BY <1>1, <2>2, BusyHandler DEF HandlerCovered
  <2>4. ASSUME NEW q \in Pod, q = handler[h].pod,
               NEW f \in Fingerprint, f = Current(h).fingerprint,
               NEW n \in Nat, n = handler[h].now
        PROVE  CoveredBy(q, f, n)'
    <3>1. handler[h].next \in 1 .. Len(handler[h].payload) /\ Past(h, handler[h].next)
      BY <2>2, <2>3 DEF Past
    <3> QED BY <1>1, <2>1, <2>2, <2>4, <3>1 DEF HandlerCovered, Current
  <2>5. HandlerCovered(h)'
    BY <1>1, <2>1, <2>2, <2>4, AdvanceCovered
  <2> QED BY <1>3, <2>1, <2>2, <2>5
<1>13. CASE Reply(h)
  <2>1. Facts
    BY <1>4, <1>13 DEF Reply
  <2>2. Others /\ handler'[h].pc = "idle"
    BY <1>1, <1>13 DEF Reply, IdleHandler, TypeOK
  <2>3. HandlerCovered(h)'
    BY <2>2 DEF HandlerCovered, Busy
  <2> QED BY <1>3, <2>1, <2>2, <2>3
<1> QED BY <1>6, <1>7, <1>8, <1>9, <1>10, <1>11, <1>12, <1>13 DEF HandlerStep

(* Starting, draining and dying pods. *)
LEMMA PodStepCovered ==
  ASSUME IInv, TypeOK', HandlersOnPods', NEW p \in Pod, PodStep(p)
  PROVE  /\ StampsAccepted' /\ AcceptsRemembered' /\ CooldownSpacing'
         /\ \A g \in Handler : HandlerCovered(g)'
<1>1. TypeOK /\ HandlersOnPods /\ \A g \in Handler : HandlerCovered(g)
  BY CoveredHandlers DEF IInv, AllCovered
<1>2. clock \in Nat
  BY <1>1 DEF TypeOK
<1>3. CASE StartPod(p)
  (* No handler is busy on a pod that is down, so none loses its cover. *)
  <2>1. /\ seen'[p] = NewDedupe /\ accepts'[p] = << >>
        /\ \A q \in Pod : q # p => seen'[q] = seen[q] /\ accepts'[q] = accepts[q]
        /\ handler' = handler /\ clock' = clock
    BY <1>1, <1>3 DEF StartPod, TypeOK
  <2>2. DOMAIN seen'[p] = {} /\ Len(accepts'[p]) = 0
    BY <2>1 DEF NewDedupe
  <2>3. StampsAccepted'
    BY <2>1, <2>2 DEF IInv, StampsAccepted
  <2>4. AcceptsRemembered'
    BY <2>1, <2>2 DEF IInv, AcceptsRemembered, Remembered
  <2>5. CooldownSpacing'
    BY <2>1, <2>2 DEF IInv, CooldownSpacing
  <2>6. ASSUME NEW g \in Handler PROVE HandlerCovered(g)'
    <3>1. Busy(g) => handler[g].pod # p
      BY <1>1, <1>3 DEF HandlersOnPods, StartPod
    <3>2. \A q \in Pod, f \in Fingerprint, n \in Nat :
            (q # p /\ CoveredBy(q, f, n)) => CoveredBy(q, f, n)'
      BY <2>1 DEF CoveredBy
    <3>3. CASE ~Busy(g)
      BY <2>1, <3>3 DEF HandlerCovered, Busy
    <3>4. CASE Busy(g)
      <4>1. HandlerCovered(g)
        BY <1>1
      <4>2. handler[g].pod # p
        BY <3>1, <3>4
      <4> QED BY <2>1, <3>2, <3>4, <4>1, <4>2 DEF HandlerCovered, Past, Busy
    <3> QED BY <3>3, <3>4
  <2> QED BY <2>3, <2>4, <2>5, <2>6
<1>4. CASE Shutdown(p)
  <2>1. UNCHANGED <<clock, seen, handler, accepts>>
    BY <1>4 DEF Shutdown
  <2> QED BY <1>1, <1>2, <2>1, QuietStep, StillCovered
<1>5. ASSUME Dies(p)
      PROVE  /\ StampsAccepted' /\ AcceptsRemembered' /\ CooldownSpacing'
             /\ \A g \in Handler : HandlerCovered(g)'
  <2>1. UNCHANGED <<clock, seen, accepts>>
    BY <1>5 DEF Dies
  <2>2. \A g \in Handler : handler'[g] = handler[g] \/ handler'[g].pc = "idle"
    BY <1>5 DEF Dies, IdleHandler
  <2>3. ASSUME NEW g \in Handler, handler'[g].pc = "idle" PROVE HandlerCovered(g)'
    BY <2>3 DEF HandlerCovered, Busy
  <2> QED BY <1>1, <1>2, <2>1, <2>2, <2>3, QuietStep, StillCovered
<1> QED BY <1>3, <1>4, <1>5 DEF PodStep, DrainEnds, Crash

(* IInv is inductive. *)
LEMMA IInvInit == Init => IInv
<1> SUFFICES ASSUME Init PROVE IInv
  OBVIOUS
<1>1. IsSeenMap(NewDedupe) /\ DOMAIN NewDedupe = {}
  BY DEF IsSeenMap, NewDedupe
<1>2. IdleHandler \in HandlerState /\ IdleHandler.pc = "idle"
  BY DEF IdleHandler, HandlerState
<1>3. TypeOK
  BY <1>1, <1>2 DEF Init, TypeOK, PodState
<1>4. \A h \in Handler : handler[h].pc = "idle"
  BY <1>2 DEF Init
<1>5. HandlersOnPods /\ RemedyCovered /\ AlertsCovered
  BY <1>4 DEF HandlersOnPods, RemedyCovered, AlertsCovered, Busy
<1>6. \A p \in Pod : DOMAIN seen[p] = {} /\ Len(accepts[p]) = 0
  BY <1>1 DEF Init
<1>7. StampsAccepted /\ AcceptsRemembered /\ CooldownSpacing
  BY <1>6 DEF StampsAccepted, AcceptsRemembered, CooldownSpacing
<1> QED BY <1>3, <1>5, <1>7 DEF IInv

(* Every step keeps the inductive invariant. *)
LEMMA IInvStep == IInv /\ [Next]_vars => IInv'
<1> SUFFICES ASSUME IInv, [Next]_vars PROVE IInv'
  OBVIOUS
<1>1. TypeOK' /\ HandlersOnPods'
  BY TypeStep DEF IInv
<1> SUFFICES /\ StampsAccepted' /\ AcceptsRemembered' /\ CooldownSpacing'
             /\ \A g \in Handler : HandlerCovered(g)'
  <2>1. ASSUME AllCovered' PROVE (RemedyCovered /\ AlertsCovered)'
    BY <1>1, <2>1, CoveredHandlers, PTL
  <2> QED BY <1>1, <2>1 DEF IInv, AllCovered
<1>2. ASSUME NEW h \in Handler, HandlerStep(h)
      PROVE  /\ StampsAccepted' /\ AcceptsRemembered' /\ CooldownSpacing'
             /\ \A g \in Handler : HandlerCovered(g)'
  BY <1>1, <1>2, HandlerStepCovered
<1>3. ASSUME NEW p \in Pod, PodStep(p)
      PROVE  /\ StampsAccepted' /\ AcceptsRemembered' /\ CooldownSpacing'
             /\ \A g \in Handler : HandlerCovered(g)'
  BY <1>1, <1>3, PodStepCovered
<1>4. CASE Tick \/ UNCHANGED vars
  <2>1. clock \in Nat /\ UNCHANGED <<seen, accepts, handler>> /\ clock' >= clock
    BY <1>4 DEF Tick, vars, IInv, TypeOK
  <2>2. \A g \in Handler : HandlerCovered(g)
    BY CoveredHandlers DEF IInv, AllCovered
  <2> QED BY <1>1, <2>1, <2>2, QuietStep, StillCovered
<1> QED BY <1>2, <1>3, <1>4 DEF Next

(* Every reachable state satisfies the invariant. *)
THEOREM WebhookInvariant == Spec => []IInv
BY IInvInit, IInvStep, PTL DEF Spec

(* The variables of handleAlert, Acquire and Start keep their types. *)
THEOREM WebhookTypeOK == Spec => []TypeOK
<1>1. IInv => TypeOK
  BY DEF IInv
<1> QED BY <1>1, WebhookInvariant, PTL

(* Within one life of the process, Acquire lets a fingerprint through only *)
(* a full cooldown after the request that last got it through arrived,     *)
(* however the handlers interleave and whatever gcLocked has dropped.      *)
THEOREM CooldownSpacingHolds == Spec => []CooldownSpacing
<1>1. IInv => CooldownSpacing
  BY DEF IInv
<1> QED BY <1>1, WebhookInvariant, PTL

(* A firing alert that handleAlert has gone past without dispatching it    *)
(* was accepted less than a cooldown before: refusals do not prolong the   *)
(* window, so a burning SLO is acted on again once per cooldown.           *)
THEOREM AlertsCoveredHolds == Spec => []AlertsCovered
<1>1. IInv => AlertsCovered
  BY DEF IInv
<1> QED BY <1>1, WebhookInvariant, PTL
=============================================================================
