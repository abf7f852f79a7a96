--------------------------- MODULE MCIodinServer ---------------------------
(* TLC instance of IodinServer: two pins, one wave more than a port needs.  *)
EXTENDS IodinServer
=============================================================================
