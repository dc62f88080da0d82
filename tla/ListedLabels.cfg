SPECIFICATION MCSpec
CONSTANTS
  Shows <- MCShows
  Lists <- MCLists
  Sockets <- MCSockets
  Programs <- MCPrograms
  MaxCalls = 2
  MaxOther = 1
  OtherLines = {3}
  c1 = c1
  c2 = c2
  Empty = Empty
  Cert <- MCCert
  Plain <- MCPlain
  Override <- MCOverride
  Entry <- MCEntry
  Loaded <- MCLoaded
  MaxHistory = 4
CHECK_DEADLOCK FALSE
INVARIANT EntryIsNamed
