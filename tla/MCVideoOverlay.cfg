SPECIFICATION Spec
CONSTANTS
  p = p
  g = g
  Sessions = {s1, s2}
  Frame = Frame
  Delete = Delete
  Other = Other
  Nothing = Nothing
  None = None
  Plain <- MCPlain
  Closures <- MCClosures
  Goroutines <- MCGoroutines
  Commands <- MCCommands
  MaxRaw = 2
INVARIANTS NoLostWakeup AcceptedRan VideoSafe
PROPERTIES ImplementsEventLoop VideoEnds
CHECK_DEADLOCK FALSE
