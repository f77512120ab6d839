------------------------------ MODULE ClaimLease ------------------------------
(***************************************************************************)
(* What claim_next_due promises its callers, without tables, transactions  *)
(* or runs: a lock on every watchlist, which is granted to one worker at a *)
(* time, for Lease ticks at most, may be given up or lost before that, and *)
(* never passes from one worker to another while it is held.               *)
(***************************************************************************)
EXTENDS Integers

CONSTANTS Workers, Watchlists, Lease, None

VARIABLE lock  \* of each watchlist: None, or who holds it for how long yet

Init == lock = [w \in Watchlists |-> None]

\* claim_next_due hands the watchlist out.
Granted(before, after) ==
    before = None /\ after \in [by : Workers, left : {Lease}]

\* A tick passes.
Ticked(before, after) ==
    /\ before # None /\ after # None
    /\ before.left > 0
    /\ after = [before EXCEPT !.left = @ - 1]

\* The lease is over; or finish_schedule, the end of the worker or that of the
\* watchlist.
Released(before, after) == before # None /\ after = None

Next ==
    /\ DOMAIN lock' = Watchlists
    /\ \A w \in Watchlists :
          LET before == lock[w]  after == lock'[w] IN
          \/ after = before
          \/ Granted(before, after)
          \/ Ticked(before, after)
          \/ Released(before, after)

Spec == Init /\ [][Next]_lock
=============================================================================
