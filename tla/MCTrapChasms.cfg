SPECIFICATION TrapSpec
CONSTANTS
    a = a
    b = b
    c = c
    k = k
    l = l
    Tables <- FiveTables
    Columns <- OneColumn
    Models <- TwoDimensions
    Selections <- ThreeMeasures
    ReadKinds <- OnlyTables
    Grains <- SomeGrains
    MaxJoins = 4
    MaxRebound = 0
    Scopes <- ACte
    JoinCap = 5
INVARIANTS
    EveryChasmIsTold
CHECK_DEADLOCK FALSE
