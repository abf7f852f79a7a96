--------------------------- MODULE MCMdbReceive ---------------------------
(* TLC instance of MdbReceive: a 20-tick clock, a word of two ticks, delays *)
(* shorter than a word and longer than an answer.                          *)
EXTENDS MdbReceive

MCDelays == {1, 7}
=============================================================================
