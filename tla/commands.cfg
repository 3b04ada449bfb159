SPECIFICATION CLSpec
SYMMETRY Symmetry
CHECK_DEADLOCK FALSE
CONSTANTS
  Proc = {p1, p2}
  Clients = {"claude", "codex", "opencode"}
  Tools = {"Read", "Bash"}
  Other = {"audit"}
  Rest = {"none", "some"}
  Blank = "none"
  None = None
  Absent = Absent
  Broken = Broken
  StartFiles <- MCStartFiles
  MaxItems = 4
  MaxHooks = 2
  MaxCommands = 3
  MaxEdits = 1
  MaxFaults = 1
  Dir <- MCDir
  NoDir = NoDir
  HookDir = "top"
  Enter <- MCEnter
  Name = {"a", "b", "a:0:1"}
  Absolute <- MCAbsolute
  Exists <- MCExists
  RevWord = {"HEAD:b"}
  NameIn <- MCNameIn
  Flag = {"-n"}
  Inline = {">b"}
  Reader = {"cat", "tee"}
  Writer = {"tee"}
  Joined = {"2>"}
  Homes = {"", "elsewhere"}
  GitReader = {"show"}
  NoFile = NoFile
  Numbers = {0, 1}
  NoNumber = NoNumber
  Ranged <- MCRanged
  ToolCalls <- MCToolCalls
  NoCall = NoCall
  Filters <- MCFilters
INVARIANTS
  TypeOK
  OthersKept
  RegisteredOnce
  HookHasBinary
  SaidIsTrue
  BashFileIsRead
  SameReadSameKey
  
