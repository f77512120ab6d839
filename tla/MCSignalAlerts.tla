--------------------------- MODULE MCSignalAlerts ---------------------------
EXTENDS SignalAlerts, TLC

\* Sweeping processes have no identity of their own.
Interchangeable == Permutations(Sweepers)
=============================================================================
