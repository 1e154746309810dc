------------------------------- MODULE MCLogSd -------------------------------
(* The log with three entries to a block (and two bytes no entry fits in, as *)
(* 512 bytes leave 12 behind 25 entries of 20), three blocks, two power-ons. *)
EXTENDS LogSd
=============================================================================
