CONSTANTS
  Host = {h1, h2}
  MaxFd = 6
SPECIFICATION Spec
INVARIANTS TypeOK SocketsAccounted CachedAreLoggedIn NewestIsTalkedTo RepliesInStep
PROPERTY LoadsEnd
CHECK_DEADLOCK FALSE
