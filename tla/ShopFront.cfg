CONSTANTS
  Null = Null
  p1 = p1
  p2 = p2
  p3 = p3
  s1 = s1
  s2 = s2
  b1 = b1
  b2 = b2
  l1 = l1
  k1 = k1
  k2 = k2
  q1 = q1
  q2 = q2
  h1 = h1
  h2 = h2
  h3 = h3
  c1 = c1
  c2 = c2
  o1 = o1
  o2 = o2
  d1 = d1
  d2 = d2
  Products = {p1, p2}
  Users = {s1, s2, b1}
  Buyers = {b1}
  SellerOf <- TwoSellers
  Carts <- FullCarts
  Shelf <- SmallShelf
  Lots = {l1}
  Lot <- WonLot
  Sessions = {k1, k2, q1, q2}
  MaxLines = 4
  ShelfCalls = {h1, h2, h3}
  Forms <- OneForm
  Edits <- AllEdits
  ShelfOps <- ShelfOpsOf
  CartCalls = {c1, c2}
  CartOps <- CartOpsOf
  Quantities = {1}
  OfferCalls = {o1, o2}
  Bids <- OneBid
  COOLDOWN_MS = 1
  ATTEMPT_WINDOW_MS = 2
  MAX_ATTEMPTS_PER_WINDOW = 2
  ACCEPT_TTL = 1
  MaxTime = 2
  DECLINE_AMOUNT = 12
  Wants <- WantsOf
  MaxFaults = 1
  ParcelCalls = {d1, d2}
  Casts <- FrontCasts
  t1 = t1
  t2 = t2
  Tabs = {t1, t2}
  UserOf <- SameBuyer
  MaxDrops = 1
SPECIFICATION FrontSpec
INVARIANT ReceiptsStand
INVARIANT RefusalsTellTheTruth
CHECK_DEADLOCK FALSE
