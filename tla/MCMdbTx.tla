------------------------------ MODULE MCMdbTx ------------------------------
(* TLC instance of MdbTx: three words of buffer, blocks of one and two words. *)
EXTENDS MdbTx

MCBlocks == {<<1>>, <<1, 1>>}
MCUninit == {0, 1}
MCZeroed == {0}
=============================================================================
