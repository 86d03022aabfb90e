---------------------------- MODULE MCSessionRun ----------------------------
(* Small instances of SessionRun for TLC. *)
EXTENDS SessionRun

CONSTANTS r1, r2, r3
=============================================================================
