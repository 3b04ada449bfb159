SPECIFICATION Spec
SYMMETRY Symmetry
CHECK_DEADLOCK FALSE
CONSTANTS
  NoHash = NoHash
  NoEntry = NoEntry
  Gone = Gone
  Empty = Empty
  NoSnap = NoSnap
  Path = {f}
  PathOf <- MCPathOf
  Proc = {p1, p2}
  Key = {whole}
  Ranged = {}
  Content = {c1, c2}
  Client = "claude"
  HashMode = TRUE
  DiffMode = TRUE
  UnchangedMode = "deny"
  ChangedMode = "warn"
  BaseTTL = 1
  Ramp = 1
  Decay = 1
  AutoAllow = 2
  CleanupEvery = 2
  MaxAge = 1
  StartClock = 2
  MaxClock = 4
  MaxCalls = 3
  MaxEdits = 1
  MaxFaults = 0
  MaxClears = 0
  SameSecondEdits = FALSE
  Vanishing = TRUE
  Rejecting = FALSE
INVARIANTS
  TypeOK
  UnchangedWasReleased
  UnchangedIsTrue
  RefusedIsHeld
