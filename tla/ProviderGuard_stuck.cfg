SPECIFICATION Spec
CONSTANTS
    Calls = {c1}
    N = 1
    Attempts = 2
    Threshold = 2
    Answers <- HardOnly
INVARIANTS CooledOffersTrial
