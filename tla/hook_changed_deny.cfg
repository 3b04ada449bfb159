SPECIFICATION Spec
SYMMETRY Symmetry
CHECK_DEADLOCK FALSE
CONSTANTS
  NoHash = NoHash
  NoEntry = NoEntry
  Gone = Gone
  Empty = Empty
  NoSnap = NoSnap
  Path = {f}
  PathOf <- MCPathOf
  Proc = {p1}
  Key = {whole, part}
  Ranged = {part}
  Content = {c1, c2}
  Client = "claude"
  HashMode = TRUE
  DiffMode = FALSE
  UnchangedMode = "deny"
  ChangedMode = "deny"
  BaseTTL = 1
  Ramp = 1
  Decay = 1
  AutoAllow = 3
  CleanupEvery = 100
  MaxAge = 100
  StartClock = 2
  MaxClock = 6
  MaxCalls = 5
  MaxEdits = 1
  MaxFaults = 0
  MaxClears = 0
  SameSecondEdits = FALSE
  Vanishing = FALSE
  Rejecting = FALSE
INVARIANT
  AllowedAfterExpiry
