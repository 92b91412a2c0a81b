CONSTANTS
  MaxAnchor = 3
  MaxHistory = 1
  Addr = {"own", "bare", "template"}
  Tag = {"a"}
  NoTag = NoTag
  NoName = NoName
  Scheme <- MCScheme
  Simplified <- MCSimplified
  Query <- MCQuery
  Given <- EditGiven
  Present = {"own", "template"}
  Absent = {"own"}
  Foreign = {}
  Writable = {"own"}
  Index = {}
  SaveName = {"own", "template"}
  Page <- MCPages
  HomePage <- MCPage
  BlankPage <- MCPage
SPECIFICATION Spec
INVARIANTS TypeOK WindowsOfDocuments TextOwn
PROPERTIES UnwritableText EditsNotForgotten
CHECK_DEADLOCK FALSE
