SPECIFICATION Spec
CONSTANTS
  Accounts = {a1, a2}
  Channels = {c, f}
  Forums = {f}
  MaxStaged = 1
  PasteWith = {FALSE}
  None = None
SYMMETRY Symmetry
INVARIANTS FocusHonest ComposerHonest
CHECK_DEADLOCK FALSE
