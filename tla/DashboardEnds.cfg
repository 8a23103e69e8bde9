SPECIFICATION DashboardSpec
CONSTANTS
  Writers = {v, w}
  Sources = {client, server}
  Client = client
  Server = server
  Checks = {healthy, unhealthy}
  ErrorCodes <- NoError
  HistoryLimit = 2
  EventLimit = 4
  MaxSkew = 1
  MaxTime = 1
  MaxFaults = 1
  MaxUploads = 2
  MaxReads = 1
  None = None
  Free = Free
SYMMETRY DashboardSymmetry
INVARIANTS UploadedIsShown ShownIsExplained NoEventTwice
