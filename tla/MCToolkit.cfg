SPECIFICATION SpecAll
CONSTANTS
  None = None
  Nil = Nil
  DM = DM
  p = p
  q = q
  i1 = i1
  i2 = i2
  Splits <- Program
  Widths = {8, 13}
  Widest = 15
  Screens <- TwoSizes
  PanelHeights = {2, 3}
  Width = 5
  Points <- Cells
  Heights = {7, 16}
  Users = {"u", "v"}
  Known <- Details
  MaxCards = 2
  Pings = {"p", "q"}
  Errors = {"e", "f"}
  Slots = 1
  ScreenRows = 9
  Lines = 3
  ErrorMax = 2
  Absent = Absent
CONSTRAINT Bounded
INVARIANTS Pictures
PROPERTIES FocusKept Panels RailKept SplitKept CompletionKept ActsOnDrawn
CHECK_DEADLOCK FALSE
