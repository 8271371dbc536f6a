-------------------------------- MODULE MCIntake --------------------------------
(* Small instance of Intake for TLC: a2 has the wallets of a1 and of a3.       *)
EXTENDS Intake, TLC

CONSTANTS a1, a2, a3, w1, w2, upload

MCWalletsOf == a1 :> {w1} @@ a2 :> {w1, w2} @@ a3 :> {w2}
MCNetwork == a1 :> "none" @@ a2 :> "none" @@ a3 :> "ERC20"
MCFamily == w1 :> "TRON" @@ w2 :> "EVM"
MCActive == w1 :> {} @@ w2 :> {"ETH", "BSC"}
MCFiles == Feed :> {<<a1, NoCase, a2>>} @@ upload :> {<<a3, a2, a3>>}
=============================================================================
