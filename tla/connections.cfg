SPECIFICATION Spec
CONSTANTS
  Clients = {c1, c2}
  Askers = {c1}
  Direct = {status1, status2}
  Jobs = {plan1}
  NoJob = NoJob
  NoClient = NoClient
  Workers = {w1, w2}
  TopicQueue = 1
  MaxCalls = 3
  MaxStatuses = 1
  Cells <- MCCells
  MaxCells = 5
INVARIANTS TypeOK DirectAnswersInOrder NoticeOnce NoJobLeftBehind MapShownRight
PROPERTIES AskerIsAnswered LastStatusSeen
CHECK_DEADLOCK FALSE
