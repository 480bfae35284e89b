CONSTANTS
    Rows <- MCRows
    ChunkSize = 2
    Outcomes <- MCOutcomes
    Tables <- MCTables
    MayAddWords = TRUE
    MaxReword <- MCMaxReword
    MaxStops = 0
SPECIFICATION Spec
PROPERTY RenderedPagePasses
