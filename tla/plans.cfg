SPECIFICATION Spec
CONSTANTS
  p1 = p1
  p2 = p2
  c1 = c1
  c2 = c2
  x = x
  y = y
  Blank = Blank
  Torn = Torn
  Part = {p1, p2}
  Comb = {c1, c2}
  Name = {x, y}
  Parts <- PartsSent
  Plans <- PlansSent
  Saved <- Left
  MaxRequests = 3
  MaxLaunches = 1
  MaxFailures = 1
  MaxCrashes = 1
INVARIANTS TypeOK RepairsOnlyDangling
PROPERTIES EditsAreAtomic DoneIsOnDisk DeletedPartsUnused
\* The requests are used up.
CHECK_DEADLOCK FALSE
