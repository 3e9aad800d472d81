SPECIFICATION Spec
CONSTANTS
    Inputs <- MCInputs
INVARIANTS NothingDangles BuildsWhatItOffers
CHECK_DEADLOCK FALSE
