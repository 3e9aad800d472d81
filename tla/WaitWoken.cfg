SPECIFICATION FairSpec
CONSTANTS
    Wakers = {w1, w2}
    NoOne = NoOne
    Timed = TRUE
    IsKthread = TRUE
INVARIANTS NoLostWakeup NoLostStop
PROPERTIES WaitsEnd
