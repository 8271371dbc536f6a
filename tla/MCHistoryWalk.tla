----------------------------- MODULE MCHistoryWalk -----------------------------
(* A small instance of HistoryWalk for TLC: one short history, as the providers *)
(* of each adapter page it.                                                     *)
EXTENDS HistoryWalk, TLC

AllAnswers == {"hard", "budget"}
AllAdapters == {"eth", "bsc", "btc", "polygon"}

T(tx, to, amount, log) == [tx |-> tx, to |-> to, amount |-> amount, log |-> log]

\* b1 and b2 are twins; the log index counts in the whole block.
a == T(1, 1, 5, 3)
b1 == T(2, 1, 2, 1)
b2 == T(2, 1, 7, 4)
d == T(3, 2, 5, 0)
e == T(4, 2, 5, 0)
f == T(5, 2, 5, 0)

Etherscan  == <<<<{a, b1}, {b2}>>, <<{d}>>>>
Meganode   == <<<<{b1, b2, d}, {e, f}>>>>
Blockscout == <<<<{b1, b2}, {d}, {e, f}>>>>
Esplora    == <<<<{d, b1, b2}, {a}>>>>

\* As many transfers as the ceiling allows, and more stages.
Busy       == <<<<{b1, b2, d}, {e, f}>>, <<{}>>, <<{}>>>>

PagesOf == [x \in AllAdapters |->
    CASE x = "eth" -> <<Etherscan, Etherscan>>
      [] x = "bsc" -> <<Meganode, Blockscout>>
      [] x = "btc" -> <<Esplora, Esplora>>
      [] x = "polygon" -> <<Busy, Busy>>]

ExplorersOf == {<<"eth", 1>>, <<"eth", 2>>, <<"bsc", 2>>, <<"polygon", 1>>, <<"polygon", 2>>}
=============================================================================
