SPECIFICATION Spec
CONSTANTS
  a = a
  b = b
  NoEnd = NoEnd
  Blank = Blank
  NoMessage = NoMessage
  Timer <- Timers
  Info <- Kinds
  Early = 1
  Margin = 2
  EndSlack = 2
  Correction = 4
  Horizon = 8
  MaxCorrections = 0
  MaxRequests = 1
INVARIANTS OnlyEndedTimersAreHeld
\* The instance ends with its clock and its requests while the list is empty.
CHECK_DEADLOCK FALSE
