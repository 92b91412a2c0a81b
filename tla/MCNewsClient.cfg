CONSTANTS
  MAX_CHUNK = 4
  CHUNK_SIZE = 2
  Newest = 9
  Article = Article
  List = List
  None = None
SPECIFICATION Spec
INVARIANTS TypeOK OwnReply StaleNoticeCostsNothing EveryArticleListed LinksMeetPage
PROPERTY LoadsEnd
CHECK_DEADLOCK FALSE
