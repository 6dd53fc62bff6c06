CONSTANTS
  Null = Null
  Outsider = Outsider
  u1 = u1
  t1 = t1
  t2 = t2
  t3 = t3
  Tabs <- TabSet
  OwnerOf <- Owners
  Readers <- ReaderSet
  Scenes <- AllScenes
  ANTI_SNIPING_WINDOW = 1
  ANTI_SNIPING_EXTENSION = 1
  MAX_EXTENSIONS = 1
  MAX_AUCTION_IMAGES = 1
  TRANSITION_RECHECK = 1
  EDGE_BUFFER = 0
  MaxClock = 2
  MaxLosses = 1
SPECIFICATION ArenaSpec
INVARIANTS ResultsAreWhole WatchersAreCurrent SeatsAreReleased PressesAreOneBid
PROPERTY EndsAreShown
CHECK_DEADLOCK FALSE
