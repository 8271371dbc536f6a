----------------------------- MODULE MCMuleAnalysis -----------------------------
(* Small instance of MuleAnalysis for TLC: three cases of which the first has two  *)
(* running traces, whose parts of the graph join late; the third knows another     *)
(* output of a transaction of the first, and an address that pays itself. Trace t5 *)
(* is a Bitcoin trace with peels, a cycle and two ways to one address; it does not *)
(* run beside analyses.                                                            *)
EXTENDS MuleAnalysis

CONSTANTS c1, c2, c3, t1, t2, t3, t4, t5, o1, o2

Hop(t, n, tx, chain, from, to, value, at) ==
    [trace |-> t, nth |-> n, tx |-> tx, chain |-> chain,
     from |-> from, to |-> to, value |-> value, at |-> at]

MCFound == <<
    Hop(t1, 1, "x1", "ETH", "A", "M", 5, 1),
    Hop(t5, 1, "y1", "BTC", "P", "Q", 9, 1), Hop(t5, 2, "y1", "BTC", "P", "W", 1, 1),
    Hop(t1, 2, "x2", "ETH", "M", "X", 5, 2), Hop(t4, 1, "x2", "ETH", "M", "Y", 1, 2),
    Hop(t4, 2, "x5", "ETH", "Y", "Y", 1, 2),
    Hop(t5, 3, "y2", "BTC", "Q", "U", 8, 2), Hop(t5, 4, "y2", "BTC", "Q", "P", 1, 2),
    Hop(t2, 1, "x3", "ETH", "B", "X", 2, 3), Hop(t3, 1, "x4", "ETH", "C", "M", 1, 3),
    Hop(t5, 5, "y3", "BTC", "U", "Q", 4, 4), Hop(t5, 6, "y3", "BTC", "U", "R", 4, 4),
    Hop(t5, 7, "y4", "BTC", "W", "R", 1, 5)>>

MCCaseOf == t1 :> c1 @@ t2 :> c1 @@ t3 :> c2 @@ t4 :> c3 @@ t5 :> c1
MCSeedOf == t1 :> "A" @@ t2 :> "B" @@ t3 :> "C" @@ t4 :> "M" @@ t5 :> "P"
MCCreatedAt == [k \in Keys |-> IF k[2] = "M" THEN 0 ELSE Never]
Symmetry == Permutations(Officers)
=============================================================================
