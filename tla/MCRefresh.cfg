SPECIFICATION FilesSpec
CONSTANTS
  None = nowhere
  NoType = NoType
  child = child  parent = parent  ca = ca  cb = cb  pa = pa  pb = pb  int = int  txt = txt
  nowhere = nowhere  north = north  south = south  t1 = t1  t2 = t2  t3 = t3  j12 = j12  j23 = j23
  total = total  other_total = other_total  rule = rule
  Areas <- MSAreas
  Tables <- MSTables
  Joins <- MSJoins
  From <- MSFrom
  To <- MSTo
  Specs <- MSSpecs
  FirstFiles <- MSFirst
  Additions <- MSAdditions
  Anchors = {t1}
  MaxOps = 3
  DbTables <- MCTables
  Columns <- MCColumns
  TableOf <- MCTableOf
  Links <- MCLinks
  Apart <- MCApart
  IdColumns <- MCIds
  References <- MCReferences
  Types <- MCTypes
  Catalogs <- MCCatalogs
  FirstCatalogs <- MCFirst
  Enforced = TRUE
  Options <- MCOptions
  Decisions <- MCDecisions
  MaxRefreshes = 5
INVARIANTS ServesTheDatabase SpecIsWhole
PROPERTIES DecisionsStand
CHECK_DEADLOCK FALSE
