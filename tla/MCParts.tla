------------------------------- MODULE MCParts -------------------------------
EXTENDS Parts, TLC

CONSTANTS Ann, Ben, Dex, TokA, TokB, Coin

Move(from, to, asset) == [from |-> from, to |-> to, asset |-> asset]

\* The transactions of the event store: two wallets, a liquidity pool, two
\* tokens and the native coin.
\*
\* A swap, one paid by another wallet, an airdrop, a sale, a transfer out, a
\* token passed on in the same transaction, a token bought and partly sold for
\* another one, and a swap between two wallets that may both be watched.
Swap     == {Move(Ann, Dex, Coin), Move(Dex, Ann, TokA)}
Gift     == {Move(Ann, Dex, Coin), Move(Dex, Ben, TokA)}
Airdrop  == {Move(Dex, Ann, TokA), Move(Dex, Ben, TokA)}
Sale     == {Move(Ann, Dex, TokA), Move(Dex, Ann, Coin)}
SendOut  == {Move(Ann, Dex, TokA)}
PassOn   == {Move(Dex, Ann, TokA), Move(Ann, Dex, TokA)}
Rotate   == {Move(Dex, Ann, TokA), Move(Ann, Dex, TokA), Move(Dex, Ann, TokB)}
Exchange == {Move(Ann, Ben, TokA), Move(Ben, Ann, TokB), Move(Dex, Ben, TokB)}

AllKinds == {Swap, Gift, Airdrop, Sale, SendOut, PassOn, Rotate, Exchange}

\* The parts share model values, so that one permutation serves them all; the
\* wallets and tokens of the transactions above are not interchangeable.
Interchangeable ==
    Permutations(Handlers) \cup Permutations(Jobs) \cup Permutations(Wallets)
        \cup Permutations(Txs)
=============================================================================
