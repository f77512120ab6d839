------------------------------ MODULE MCWatchdog ------------------------------
(* Small instances of the delivery watchdog for TLC. *)
EXTENDS Watchdog, TLC

Interchangeable == Permutations(Checkers)
=============================================================================
