SPECIFICATION FairSpec
CONSTANTS
    NB = 2
    MaxKernel = 5
    MaxRev = 2
    MaxCommits = 3
    MaxCrashes = 1
    MaxBad = 2
    Heads <- MCHeads
    Failing <- MCFailing
INVARIANTS TagsTellTheTree
PROPERTIES TreeNeverGoesBack HistoryGoesOn Follows
