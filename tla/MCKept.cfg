SPECIFICATION SpecAll
CONSTANTS
  None = None
  p1 = p1
  p2 = p2
  p3 = p3
  k1 = k1
  k2 = k2
  k3 = k3
  c1 = c1
  c2 = c2
  g = g
  n1 = n1
  NoNonce = NoNonce
  DM = DM
  NoParent = NoParent
  parent = parent
  thread = thread
  other = other
  Guilds = {g}
  DirChannels = {parent, thread, other}
  GuildOf <- OneGuild
  ParentOf <- OneThread
  Pulls = {p1, p2}
  MaxRetries = 1
  MaxPulls = 2
  MaxChanges = 1
  MaxReconnects = 1
  MaxHistory = 1
  MaxWire = 1
  Ids = {1, 2}
  Requests = {p1}
  Procs = {p1, p2}
  Keys = {k1, k2}
  LegacyKey = k1
  MaxCrashes = 2
  MaxSwitches = 1
  Channels = {c1, c2}
  MaxMsg = 2
  MaxQueue = 1
  MaxUpdates = 1
  Absent = None
  Revs = {0, 1, 2}
  MaxGen = 1
SYMMETRY Symmetry
INVARIANTS IInv
PROPERTIES NoStaleResurrection GatesKept BoundsKept FilesKept ReadFollows
CHECK_DEADLOCK FALSE
