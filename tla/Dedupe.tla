------------------------------- MODULE Dedupe -------------------------------
(***************************************************************************)
(* The per-fingerprint cooldown of the webhook server                      *)
(* (operator/internal/server/dedupe.go) as operators on the Go map "seen", *)
(* a partial function from fingerprints to the time of the last stamp.     *)
(* Every operator is one critical section of Dedupe.mu.                    *)
(***************************************************************************)
EXTENDS Integers

CONSTANTS Fingerprint,         \* the non-empty fingerprints
          ConfiguredCooldown,  \* Config.Cooldown; zero or less means "default"
          DefaultCooldown      \* the ten minutes of New

ASSUME CooldownAssumption ==
  /\ ConfiguredCooldown \in Int
  /\ DefaultCooldown \in Nat \ {0}

NoFingerprint == ""            \* an alert AlertManager did not fingerprint

ASSUME FingerprintAssumption == NoFingerprint \notin Fingerprint

(* server.New replaces a cooldown that is not positive by the default. *)
Cooldown == IF ConfiguredCooldown <= 0 THEN DefaultCooldown ELSE ConfiguredCooldown

IsSeenMap(seen) == DOMAIN seen \subseteq Fingerprint /\ seen \in [DOMAIN seen -> Nat]

NewDedupe == [f \in {} |-> 0]

(* now.Sub(t) < d.cooldown: also true for a "now" older than the stamp. *)
Fresh(seen, f, now) == now - seen[f] < Cooldown

(* Acquire's result: whether the caller may act on the alert. *)
Acquires(seen, f, now) ==
  (f # NoFingerprint /\ f \in DOMAIN seen) => ~Fresh(seen, f, now)

Stamp(seen, f, now) ==
  [g \in DOMAIN seen \cup {f} |-> IF g = f THEN now ELSE seen[g]]

(* Mutant of gcLocked: off by one, an entry goes before its cooldown is over. *)
gcLockedEarly(seen, now) ==
  [f \in {g \in DOMAIN seen : now - seen[g] < Cooldown - 1} |-> seen[f]]

(* gcLocked drops the entries whose cooldown is over, as seen from "now". *)
gcLocked(seen, now) ==
  [f \in {g \in DOMAIN seen : Fresh(seen, g, now)} |-> seen[f]]

(* Mutant of AfterAcquire: the early return for an empty fingerprint is lost. *)
AfterAcquireAny(seen, f, now) ==
  IF Acquires(seen, f, now) THEN gcLocked(Stamp(seen, f, now), now) ELSE seen

(* Acquire's effect on the map. *)
AfterAcquire(seen, f, now) ==
  IF f # NoFingerprint /\ Acquires(seen, f, now)
  THEN gcLocked(Stamp(seen, f, now), now)
  ELSE seen
=============================================================================
