SPECIFICATION FairSpec
CONSTANTS
    a1 = a1  a2 = a2  a3 = a3  w1 = w1  w2 = w2  upload = upload
    Acks = {a1, a2, a3}
    NoCase = NoCase
    Wallets = {w1, w2}
    WalletsOf <- MCWalletsOf
    Network <- MCNetwork
    Family <- MCFamily
    Evm = {"ETH", "BSC"}
    Active <- MCActive
    Feed = Feed
    Imports = {Feed, upload}
    Files <- MCFiles
    MaxTime = 1  MaxFaults = 2
INVARIANTS OneCasePerWallet OneTracePerSeed TracedWhereActive
PROPERTIES QueuedInTheEnd
CHECK_DEADLOCK FALSE
