-------------------------------- MODULE MCRepl --------------------------------
(* Small instances of Repl for TLC.                                         *)
EXTENDS Repl

CONSTANTS i1, i2, d1
===============================================================================
