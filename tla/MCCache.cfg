CONSTANTS
  c1 = c1  c2 = c2  c3 = c3
  k1 = k1  k2 = k2
  s1 = s1  s2 = s2
  r1 = r1  r2 = r2  r3 = r3
  h1 = h1
  Call = {c1, c2, c3}
  Run = {r1, r2, r3}
  Key = {k1}
  Slot = {s1}
  Host = {}
  RunOf <- RunsRunOf
  KeyOf <- RunsKeyOf
  SlotOf <- RunsSlotOf
  HostOf <- RunsHostOf
  NoHost = NoHost
  Floating = {}
  Modes = {"missing", "offline", "refresh"}
  Faults = {"remove", "rename", "open", "write"}
  None = None  Partial = Partial  Torn = Torn
  NotCached = NotCached  Unreachable = Unreachable  NotFound = NotFound  Failed = Failed
  MaxPush = 1
  MaxCrash = 2
SPECIFICATION FairSpec
INVARIANT ServesWhatItSays
PROPERTY EveryRunEnds
CHECK_DEADLOCK FALSE
