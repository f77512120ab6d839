---------------------------- MODULE MCDuneQueries ----------------------------
EXTENDS DuneQueries, TLC

CONSTANTS c1, c2

\* Two chains' catalogues, and every kind of start: with the contracts table,
\* with the retry alone, without a table at all.
Requests == {<<"holders", c1>>, <<"positions", c2>>, <<"discover", c1>>}

\* Runs have no identity of their own.
Interchangeable == Permutations(Runs)
=============================================================================
