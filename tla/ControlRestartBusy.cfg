CONSTANTS
  a = a
  b = b
  c = c
  d = d
  home = home
  cafe = cafe
  NoId = NoId
  Unconfigured = Unconfigured
  Ids <- MCIds
  Settings <- MCSettings
  Requests <- MCRequests
  Slots = 3
  Window = 3
  TrialTime = 2
  MinWait = 1
  MaxWait = 2
  MaxRevision = 1
  MaxNow = 6
  MaxBoots = 2
SPECIFICATION Spec
PROPERTIES PendingRestartIsBusy
CHECK_DEADLOCK FALSE
