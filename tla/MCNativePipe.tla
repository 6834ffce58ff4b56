------------------------------ MODULE MCNativePipe ------------------------------
(* Small instances of NativePipe for TLC.                                   *)
EXTENDS NativePipe
===============================================================================
