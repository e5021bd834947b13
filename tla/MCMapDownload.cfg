CONSTANTS
  MaxRequests = 2
  MaxWaiting = 1
SPECIFICATION ReloadSpec
INVARIANTS
  DownloadIsAnnounced
CHECK_DEADLOCK FALSE
