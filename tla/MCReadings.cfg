SPECIFICATION ReadSpec
CONSTANTS
    a = a
    b = b
    c = c
    k = k
    l = l
    None = None
    Cross = Cross
    Unnamed = Unnamed
    ServedModels <- SchemaModels
    CallsFor <- SomeCalls
    Vocabulary <- SomeNames
    Documents <- SomeDocuments
    Null <- TheNull
    Number <- Numbers
    TypeOf <- Types
    RoundsTo <- Buckets
    ColumnNames <- SomeColumns
    Bands <- SomeBands
    Goldens <- SomeGoldens
    GeneratedFor <- SomeGenerated
    MaxGone = 3
    Tables <- ThreeTables
    Columns <- TwoColumns
    Models <- SomeModels
    Selections <- SomeSelections
    ReadKinds <- TableOrGrouped
    Grains <- SomeGrains
    MaxJoins = 2
    JoinCap = 2
    MaxRebound = 1
    Scopes <- ACte
INVARIANTS
    NearFanIsTold
    LoadServesWhatStands
    PassIsTheKeysAnswer
    ReplyIsWhole
CHECK_DEADLOCK FALSE
