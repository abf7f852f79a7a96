--------------------------- MODULE MCIodinClient ---------------------------
(* TLC instance of IodinClient: two users, two requests besides STOP. *)
EXTENDS IodinClient

MCCalls == {"MDB_OPEN"}

\* A port is opened and used.
MCTxCalls == {"MDB_OPEN", "MDB_TX"}
=============================================================================
