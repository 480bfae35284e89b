SPECIFICATION Spec
CONSTANTS
    r1 = r1
    r2 = r2
    r3 = r3
    r4 = r4
    k1 = k1
    k2 = k2
    NoOne = NoOne
    Requests <- FourRequests
    Codes <- TwoCodes
    Modes <- BothModes
    MaxResets = 1
SYMMETRY Symmetry
INVARIANTS
    SpentOnce
    OneLiveRow
    ResetEndsOneRowSession
PROPERTY
    LineageSpec
