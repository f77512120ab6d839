--------------------------- MODULE MCProviderSync ---------------------------
EXTENDS ProviderSync, TLC

\* Syncing processes have no identity of their own.
Interchangeable == Permutations(Syncers)
=============================================================================
