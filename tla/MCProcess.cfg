SPECIFICATION ProcessSpec
CONSTANTS
    c1 = c1
    c2 = c2
    c3 = c3
    Calls <- ThreeCalls
    Watched <- OneWatched
    MaxAbandoned = 1
    HostThreads = 2
    s1 = s1
    s2 = s2
    NoOne = NoOne
    Stores <- TwoStores
    NFiles = 2
    NUnits = 2
    MaxLosses = 2
    MaxBoots = 3
INVARIANTS
    SlotAccounting
    OverrunBound
    AnswersAreTrue
    NoLateCancel
    UnitIsWhole
    AppliedMeansRun
PROPERTIES
    EveryCallAnswered
    SaturationEnds
    BootEnds
CHECK_DEADLOCK FALSE
