CONSTANTS
  Null = Null
  Timer = Timer
  a1 = a1
  a2 = a2
  seller = seller
  u1 = u1
  u2 = u2
  r1 = r1
  r2 = r2
  r3 = r3
  ANTI_SNIPING_WINDOW = 1
  ANTI_SNIPING_EXTENSION = 1
  MAX_EXTENSIONS = 1
  MAX_AUCTION_IMAGES = 2
  SCHEDULE_PAST_GRACE = 0
  LIFECYCLE_BATCH_SIZE = 1
  Auctions = {a1, a2}
  Users = {seller, u1, u2}
  Requests = {r1, r2, r3}
  SellerOf <- OneSeller
  Watchers <- NobodyWatches
  MinterOf <- TwoMinters
  Calls = {}
  Readers = {}
  DeskCalls = {k1, k2}
  Operations = {"publish", "edit"}
  Drafts <- PlannedOrBare
  Forms <- WholeForm
  Inputs = {}
  MaxTime = 2
  MaxFaults = 1
SPECIFICATION FairSpec
PROPERTY AuctionsMoveOn
