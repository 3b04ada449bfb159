SPECIFICATION Spec
SYMMETRY Symmetry
CHECK_DEADLOCK FALSE
CONSTANTS
  NoHash = NoHash
  NoEntry = NoEntry
  Gone = Gone
  Path = {f}
  PathOf <- MCPathOf
  Slot = {p1, p2}
  Key = {whole, part}
  Content = {c1, c2}
  MODE = "warn"
  HASH_MODE = TRUE
  TTL = 1
  Ramp = 1
  DECAY = 1
  AUTO_ALLOW = 2
  MaxClock = 4
  MaxCalls = 3
  MaxEdits = 2
  MaxClears = 1
  SameTickEdits = FALSE
  Vanishing = TRUE
INVARIANTS
  TypeOK
  UnchangedIsTrue
  RefusedIsHeld
  StreakBounded
  UntouchedNotRefused
  ClearedIsForgotten
