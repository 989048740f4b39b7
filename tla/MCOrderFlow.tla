---------------------------- MODULE MCOrderFlow ----------------------------
(* OrderFlow with named orders. *)
EXTENDS OrderFlow

CONSTANTS o1, o2
=============================================================================
