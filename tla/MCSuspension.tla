---------------------------- MODULE MCSuspension ----------------------------
(* Small instances of Suspension for TLC. *)
EXTENDS Suspension
=============================================================================
