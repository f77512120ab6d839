------------------------- MODULE MCMonitorScheduler -------------------------
(* A small instance of the scheduler for TLC. *)
EXTENDS MonitorScheduler
=============================================================================
