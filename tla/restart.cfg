SPECIFICATION NodeSpec
CONSTANTS
  t1 = t1
  t2 = t2
  requests = requests
  schedule = schedule
  NoTask = NoTask
  Task <- Tasks
  Thread <- Threads
  MaxLaunches = 2
  Families = {"part", "combination"}
  MaxCrashes = 2
  MaxFailures = 1
  MaxSaves = 1
  MaxFaults = 2
SYMMETRY Alike
INVARIANTS TypeOK NothingLost StartsAgain ReferencesRemoved NoRowLeftOpen
PROPERTIES SavedStays KeepsHistory EndClosesRow
\* The node rests when its requests are used up.
CHECK_DEADLOCK FALSE
