SPECIFICATION ScriptsSpec
CONSTANTS
    Rows <- MCRows
    ChunkSize = 2
    Outcomes <- MCOutcomes
    Tables <- MCTables
    MayAddWords = FALSE
    MaxReword <- MCMaxReword
    MaxStops = 1
    None = None  Unreadable = Unreadable
    suite = suite  other = other  i = i  j = j  q = q  today = today  k = k  dated = dated  smoke = smoke
    Datasets <- MCDatasets
    Relative <- MCRelative
    Frozen <- MCFrozen
    Worlds <- MCWorlds
    FirstFiles <- MCFirst
    Sheets <- MCSheets
    Answers <- MCAnswers
    Pages <- MCPages
    Edits <- MCEdits
    Selections <- MCSelections
    MaxOps = 3
PROPERTY
    ImportConfirmsNothing
CHECK_DEADLOCK FALSE
