---------------------------- MODULE MCBrakeLoop ----------------------------
(* BrakeLoop with the alert EmailWorkerBacklogGrowing and one client. *)
EXTENDS BrakeLoop

CONSTANTS o1, fBacklog

Labels == INSTANCE Classifier

MCLabelsOf ==
  [f \in Worker |-> [severity |-> "page", service |-> "email-worker",
                     slo |-> "email_delivery_within_60s", burn_speed |-> Labels!Missing]]
=============================================================================
