CONSTANTS
  p1 = p1
  p2 = p2
  Viewers = {p1, p2}
  MakeItems <- MCMakeItems
  Rows = 3
  CloseTicks = 2
  MaxLine = 1
  NoOption = "?"
SPECIFICATION MenuSpec
INVARIANTS
  UsesWhatIsShown
CHECK_DEADLOCK FALSE
