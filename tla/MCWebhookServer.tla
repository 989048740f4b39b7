--------------------------- MODULE MCWebhookServer ---------------------------
(* WebhookServer with two fingerprints and the payloads AlertManager's      *)
(* grouping makes of them.                                                  *)
EXTENDS WebhookServer, TLC

CONSTANTS fBacklog, fSlow  \* fingerprints: one with a remedy, one without

Backlog == [severity |-> "page", service |-> "email-worker",
            slo |-> "email_delivery_within_60s", burn_speed |-> Missing]
Slow    == [severity |-> "ticket", service |-> "orders",
            slo |-> "orders_availability", burn_speed |-> "slow"]
MCFingerprint == {fBacklog, fSlow}
MCLabel == {Backlog, Slow}

Firing(f, l)   == [fingerprint |-> f, firing |-> TRUE, labels |-> l]
Resolved(f, l) == [fingerprint |-> f, firing |-> FALSE, labels |-> l]

MCPayload ==
  { << Firing(fBacklog, Backlog) >>,
    << Firing(fSlow, Slow), Firing(fBacklog, Backlog) >>,
    << Resolved(fBacklog, Backlog), Firing(fBacklog, Backlog), Firing(fSlow, Slow) >>,
    << Firing(NoFingerprint, Backlog) >> }

HandlerSymmetry == Permutations(Handler)
=============================================================================
