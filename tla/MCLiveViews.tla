------------------------------ MODULE MCLiveViews ------------------------------
(* Small instance of LiveViews for TLC: two ways lead from s to b, the heavier one *)
(* over a; a hop into a bridge leads back to a.                                    *)
EXTENDS LiveViews

CONSTANTS h1, h2, h3, h4, a1

\*        s --5--> a --3--> b,  s --6--> b,  b --?--> a
MCFrom == h1 :> "s" @@ h2 :> "s" @@ h3 :> "a" @@ h4 :> "b"
MCTo == h1 :> "a" @@ h2 :> "b" @@ h3 :> "b" @@ h4 :> "a"
MCUsd == h1 :> 5 @@ h2 :> 6 @@ h3 :> 3 @@ h4 :> Unpriced
MCTurnOf == h1 :> 1 @@ h2 :> 1 @@ h3 :> 2 @@ h4 :> 3   \* a turn expands one address
MCAddresses == <<"a", "b", "s">>
MCRank == h1 :> 1 @@ h2 :> 2 @@ h3 :> 3 @@ h4 :> 4
=============================================================================
