CONSTANTS
  gps = gps
  ubx = ubx
  Shell = Shell
  LineDistributor = LineDistributor
  Application = Application
  LineListeners <- MCLineListeners
  RawListeners <- MCRawListeners
  HidesBlanks <- MCHidesBlanks
  CAPACITY = 3
  PipeSize = 2
  MaxLineLen = 3
  MAX_WORK_ITEMS = 1
  MaxReceived = 1
  MayDropWork = FALSE
SPECIFICATION SpecDefaultId
INVARIANT IdsHaveOwners
