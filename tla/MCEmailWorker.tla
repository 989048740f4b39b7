--------------------------- MODULE MCEmailWorker ---------------------------
(* EmailWorker with two good messages and one that does not decode. *)
EXTENDS EmailWorker

CONSTANTS m1, m2, bad
=============================================================================
