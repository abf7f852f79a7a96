---------------------------- MODULE MCMdbTiming ----------------------------
(* TLC instance of MdbTiming and MdbRoom: a 20-tick clock, budgets scaled down. *)
EXTENDS MdbRoom

MCDelays == {1, 2}
=============================================================================
