SPECIFICATION FairSpec
CONSTANTS
  a = a
  b = b
  NoEnd = NoEnd
  Blank = Blank
  NoMessage = NoMessage
  Timer <- Timers
  Info <- Edited
  Early = 1
  Margin = 2
  EndSlack = 2
  Correction = 4
  Horizon = 4
  MaxCorrections = 1
  MaxRequests = 2
INVARIANTS TypeOK NeverTwice DeletedTimersGone
PROPERTIES InstantsAreRun NoneStaysOverdue TableFollowsList
\* The instance ends with its clock and its requests while the list is empty.
CHECK_DEADLOCK FALSE
