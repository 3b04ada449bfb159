SPECIFICATION Spec
SYMMETRY Symmetry
CHECK_DEADLOCK FALSE
CONSTANTS
  NoHash = NoHash
  NoEntry = NoEntry
  Gone = Gone
  Empty = Empty
  NoSnap = NoSnap
  Path = {f}
  PathOf <- MCPathOf
  Proc = {p1}
  Key = {whole}
  Ranged = {}
  Content = {c1, c2}
  Client = "claude"
  HashMode = TRUE
  DiffMode = TRUE
  UnchangedMode = "deny"
  ChangedMode = "deny"
  BaseTTL = 1
  Ramp = 1
  Decay = 1
  AutoAllow = 2
  CleanupEvery = 2
  MaxAge = 1
  StartClock = 2
  MaxClock = 3
  MaxCalls = 3
  MaxEdits = 2
  MaxFaults = 1
  MaxClears = 1
  SameSecondEdits = TRUE
  Vanishing = FALSE
  Rejecting = TRUE
INVARIANTS
  UnchangedWasReleased
  UnchangedIsTrue
PROPERTIES
  KeepsPromise
