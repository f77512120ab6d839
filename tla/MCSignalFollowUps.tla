-------------------------- MODULE MCSignalFollowUps --------------------------
EXTENDS SignalFollowUps, TLC

\* Sweeping processes have no identity of their own.
Interchangeable == Permutations(Sweepers)
=============================================================================
