--------------------------- MODULE MCPublishBrake ---------------------------
(* PublishBrake with named orders. *)
EXTENDS PublishBrake

CONSTANTS o1, o2
=============================================================================
