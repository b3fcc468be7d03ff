\* Two accounts and two guests on two threads; beside them one sender of emotes and two listeners.
CONSTANTS
  None = None  NoEmote = NoEmote
  m1 = m1  m2 = m2  g1 = g1  g2 = g2  t1 = t1  t2 = t2  s1 = s1  k1 = k1
  Members = {m1, m2}
  Guests = {g1, g2}
  Threads = {t1, t2}
  Soldiers = {s1}
  Amounts <- MCAmounts
  RewardMax = 2
  RewardCooldown = 1
  Victory = 2
  Defeat = 1
  DefaultMmr = 1
  KFactor = 8
  AccessLife = 1
  RefreshLife = 1
  GuestLife = 2
  o1 = o1
  Targets = {o1}
  Matches = {None, k1}
  MaxTime = 3
  MaxGone = 1
  MaxRequests = 2
  Conns = {1, 2, 3}
  Senders = {1}
  Ids = {1, 2}
  Cooldown = 1
  Window = 3
  BurstCap = 2
  RepeatCap = 2
  LastTime = 5
SPECIFICATION SideBySide
SYMMETRY Alike
INVARIANTS WalletSound NothingForGuests SignInLapses ReportsOnce MmrWithinRecord EmotesPaced EmoteReachesRoom
CHECK_DEADLOCK FALSE
