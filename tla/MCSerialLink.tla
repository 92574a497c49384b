----------------------------- MODULE MCSerialLink -----------------------------
(* Small instances of SerialLink for TLC. *)
EXTENDS SerialLink

CONSTANTS c1, c2
=============================================================================
