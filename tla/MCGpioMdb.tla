--------------------------- MODULE MCGpioMdb ---------------------------
(* TLC instance of GpioMdb: two user pins and one beyond, one wave more than *)
(* a port needs, built with pigpio and with mock.rs.                         *)
EXTENDS GpioMdb

MCBuilds == {"pigpio", "mock"}
=============================================================================
