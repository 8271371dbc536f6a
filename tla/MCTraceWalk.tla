----------------------------- MODULE MCTraceWalk -----------------------------
(* Small instances of TraceWalk for TLC: every subset of a set of transfers.   *)
EXTENDS TraceWalk, TLC

CONSTANTS victim, m1, m2, m3, exch, br1, br2

T(id, tx, from, to, usd, ts) ==
    [id |-> id, tx |-> tx, from |-> from, to |-> to, usd |-> usd, ts |-> ts, swap |-> FALSE]

\* A fork (1, 2) that joins (3), a cycle (4), an exchange (5), an unresolved bridge
\* (6), a bridge that lands on m3 (7), a transfer older than the money it might carry
\* (8), a second transfer of transaction 1 (9), a leg of a swap (10), unpriced (11),
\* a hop too many (12).
Universe == {
    T(1, 1, victim, m1, 60, 1), T(2, 2, victim, m2, 40, 1), T(3, 3, m1, m2, 50, 2), T(4, 4, m2, m1, 40, 2),
    T(5, 5, m2, exch, 80, 3), T(6, 6, m1, br1, 30, 3), T(7, 7, m2, br2, 20, 2), T(8, 8, m1, m3, 60, 0),
    T(9, 1, victim, m1, 30, 1), [T(10, 10, m1, m3, 60, 2) EXCEPT !.swap = TRUE],
    T(11, 11, m2, m3, Unpriced, 2), T(12, 12, m3, exch, 40, 4)}

MCHistories == SUBSET Universe
MCLanding == (br1 :> Nowhere @@ br2 :> m3)
=============================================================================
