CONSTANTS
  MaxAnchor = 4
  MaxHistory = 2
  Addr = {"own", "bare", "template", "picture"}
  Tag = {"a", "b"}
  NoTag = NoTag
  NoName = NoName
  Scheme <- MCScheme
  Simplified <- MCSimplified
  Query <- MCQuery
  Given <- TravelGiven
  Present = {"own", "picture"}
  Absent = {}
  Foreign = {"picture"}
  Writable = {}
  Index = {}
  SaveName = {}
  Page <- MCPages
  HomePage <- MCPage
  BlankPage <- MCPage
SPECIFICATION Spec
INVARIANTS GraphSound HistoryLinked
PROPERTIES HistoryMoves ReferencesAreStable
CHECK_DEADLOCK FALSE
