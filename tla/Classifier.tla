----------------------------- MODULE Classifier -----------------------------
(***************************************************************************)
(* operator/internal/classifier: from the labels of one alert to the       *)
(* remedy the operator takes.  A label that is missing from the Go map     *)
(* reads as the empty string.                                              *)
(***************************************************************************)
Missing == ""

Kind == {"NoRemedy", "Rollback", "ScaleUp", "CircuitBreak"}

NoTarget == ""

Decision == [kind : Kind, target : {NoTarget, "orders-svc", "payments-svc",
                                    "inventory-svc", "orders-svc-flags"}]

Decide(kind, target) == [kind |-> kind, target |-> target]

(* The guards of Classify's switch, in the order it tries them. *)
EmailWorkerBurns(l) == l.service = "email-worker"
OrdersBurn(l)       == l.service = "orders" /\ (l.burn_speed = "fast" \/ l.slo = "orders_latency")
PaymentsBurn(l)     == l.service = "payments" /\ l.burn_speed = "fast"
InventoryBurns(l)   == l.service = "inventory" /\ l.burn_speed = "fast"

Classify(l) ==
  CASE l.severity # "page"  -> Decide("NoRemedy", NoTarget)
    [] l.severity = "page" /\ EmailWorkerBurns(l) -> Decide("CircuitBreak", "orders-svc-flags")
    [] l.severity = "page" /\ OrdersBurn(l)       -> Decide("Rollback", "orders-svc")
    [] l.severity = "page" /\ PaymentsBurn(l)     -> Decide("ScaleUp", "payments-svc")
    [] l.severity = "page" /\ InventoryBurns(l)   -> Decide("ScaleUp", "inventory-svc")
    [] OTHER                -> Decide("NoRemedy", NoTarget)
=============================================================================
