SPECIFICATION FairReads
CONSTANTS
    Calls = {c1, c2}
    N = 2
    Attempts = 3
    Threshold = 3
    Answers <- AllAnswers
    Adapters <- AllAdapters
    Pages <- PagesOf
    Explorers <- ExplorersOf
    Window = 2
    MaxPages = 3
    MaxItems = 5
    MaxRefused = 2
INVARIANTS AtMostOneHitWhileOpen HistoryIsWhole
PROPERTIES EveryCallEnds CircuitRecovers
