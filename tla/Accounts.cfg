SPECIFICATION AccountsSpec
CONSTANTS
  Null = Null
  ann = ann
  ben = ben
  cat = cat
  root = root
  g1 = g1
  l1 = l1
  b1 = b1
  b2 = b2
  r1 = r1
  r2 = r2
  d1 = d1
  d2 = d2
  People = {ann, ben, cat, root}
  Admins = {root}
  Registered = {ben, cat, root}
  Identities = {g1, l1}
  EmailOf <- Emails
  Passwords = {0, 1}
  ADMIN_SKIP_2FA = TRUE
  OTP_TTL = 2
  OTP_COOLDOWN = 1
  RESET_TTL = 1
  REFRESH_TTL = 6
  ACCESS_TTL = 2
  DEVICE_TTL = 3
  MaxTime = 4
  MaxRows = 3
  AuthCalls = {b1, b2, r1, r2, d1, d2}
  Browsers = {b1, b2}
  Reads = {r1, r2}
  Desks = {d1, d2}
  SKEW_MS = 1
  GRACE_MS = 2
  MAX_HOPS = 1
  COOLDOWN_MS = 1
  MaxFaults = 1
  Scenes <- AllScenes
INVARIANTS CodesOpenOneDoor SecondFactorHeld OneWayIn OwnClientNeverReplays OneLiveToken
SYMMETRY Slots
CHECK_DEADLOCK FALSE
