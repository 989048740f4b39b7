----------------------------- MODULE MCOperator -----------------------------
(* Operator with the alerts of k8s/prometheus/rules; a cfg picks a group.   *)
EXTENDS Operator

CONSTANTS fBacklog, fFast, fPayments

Labels(severity, service, slo, burn) ==
  [severity |-> severity, service |-> service, slo |-> slo, burn_speed |-> burn]

MCLabelsOf ==
  [f \in {fBacklog, fFast, fPayments} |->
    CASE f = fBacklog  -> Labels("page", "email-worker", "email_delivery_within_60s", Missing)
      [] f = fFast     -> Labels("page", "orders", "orders_availability", "fast")
      [] f = fPayments -> Labels("page", "payments", "payments_availability", "fast")]

(* A small HPA, for the runs in which only others write it. *)
MCDeclaredSmall == [t \in Hpa |-> [min |-> 1, max |-> 2]]

(* An odd distance between floor and ceiling: the last step is cut short. *)
MCDeclared == [t \in Hpa |-> [min |-> 2, max |-> 5]]
=============================================================================
