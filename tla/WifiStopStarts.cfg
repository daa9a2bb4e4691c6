CONSTANTS
  Networks <- MCNetworks
  Ssid <- MCSsid
  Off = "off"
  NoLink = "none"
  QueueSize = 4
SPECIFICATION Spec
INVARIANTS LatestSelectionStarts
CHECK_DEADLOCK FALSE
