SPECIFICATION RealtimeSpec
CONSTANTS
  Nothing = Nothing
  u1 = u1
  u2 = u2
  a1 = a1
  c1 = c1
  c2 = c2
  th1 = th1
  th2 = th2
  li = li
  be = be
  he = he
  no = no
  w1 = w1
  wg = wg
  ca = ca
  qu = qu
  or = or
  se = se
  s2 = s2
  so = so
  ha = ha
  hb = hb
  i1 = i1
  i2 = i2
  i3 = i3
  k1 = k1
  k2 = k2
  k3 = k3
  Screens <- ScreenSet
  OwnerOf <- Owners
  Admins <- AdminSet
  Barred = {}
  MaxReads = 2
  MaxLosses = 1
  Conversations = {c1, c2}
  Between <- Betweens
  Withdrawn = {}
  TalkKind <- TalkKinds
  ThreadOf <- Threads
  Sends = {1, 2}
  ThreadPage = 2
  PageSize = 1
  MaxMessages = 3
  Cases = {k1, k2, k3}
  DeskKind <- DeskKinds
  CaseOf <- CaseThreads
  DeskCalls = {1, 2, 3}
  OrderKind <- OrderKinds
  ListOf <- Lists
  Presses = {1, 2}
  HeartsOn <- Hearted
  Hidden = {i3}
  Toggles = {1, 2}
  Replies = {"answer", "fallback", "exhausted"}
  MaxSaid = 6
  Scenes <- AllScenes
INVARIANTS
  RestingScreensAreCurrent
  PressesAreShown
  HeartsTellTheTruth
  ReceiptsAreEarned
  HandoverEarned
  RepliesAreNoticed
CHECK_DEADLOCK FALSE
