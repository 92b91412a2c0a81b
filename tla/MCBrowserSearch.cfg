CONSTANTS
  MaxAnchor = 4
  MaxHistory = 1
  Addr = {"own", "bare", "template", "web", "hits", "news"}
  Tag = {"a"}
  NoTag = NoTag
  NoName = NoName
  Scheme <- MCScheme
  Simplified <- MCSimplified
  Query <- MCQuery
  Given <- SearchGiven
  Present = {"own"}
  Absent = {}
  Foreign = {}
  Writable = {}
  Index = {"web"}
  SaveName = {}
  Page <- MCPages
  HomePage <- MCPage
  BlankPage <- MCPage
SPECIFICATION Spec
INVARIANTS OneAnchorPerAddress
CHECK_DEADLOCK FALSE
