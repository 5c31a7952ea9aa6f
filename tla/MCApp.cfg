SPECIFICATION SpecAll
CONSTANTS
  Plugins = {config, p1}
  Config = config
  Names = {n1}
  Stoppers = {k1}
  QueueSize = 1
  MaxStack = 2
  Callers = {a, b}
  Closers = {k1, k2}
  MaxId = 2
  Modes = {"tui", "browser"}
  Nothing = None
  None = None
  p1 = p1
  a = a
  b = b
  m1 = m1
  m2 = m2
  m3 = m3
  u = u
  g = g
  DM = DM
  NoParent = NoParent
  parent = parent
  thread = thread
  other = other
  dm = dm
INVARIANTS PluginsSafe BrowserSafe LoginSafe ReaderKept
PROPERTIES NothingStale TranscriptKept
CHECK_DEADLOCK FALSE
