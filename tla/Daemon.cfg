SPECIFICATION MCSpec
CONSTANTS
  InitialDelay = 1
  MaxDelay = 5
  AlertAfter = 3
  PollInterval = 1
  AttemptCap = 5
  MaxBlock = 4
  Starts = {0, 1, 357, 358, 359, 477, 478, 719, 720}
  Lengths = {0, 1, 121, 360, 361, 800}
  Netuids = {0, 1, 128}
INVARIANTS OneAlertPerOutage EachBlockOnce ScanAgrees StartsAgree EndMeetsStart
PROPERTIES StopsOnSignal OutageIsReported
CHECK_DEADLOCK FALSE
