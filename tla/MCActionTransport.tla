--------------------------- MODULE MCActionTransport ---------------------------
(* Small instances of ActionTransport for TLC.                              *)
EXTENDS ActionTransport

CONSTANTS r1, r2
===============================================================================
