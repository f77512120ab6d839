------------------------------- MODULE MCSignIn -------------------------------
EXTENDS SignIn, TLC

\* Handlers of one kind have no identity of their own.
Interchangeable == Permutations(Logins) \cup Permutations(Changers)
=============================================================================
