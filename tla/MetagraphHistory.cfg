SPECIFICATION Spec
CONSTANTS
  Workers = {"live", "burns"}
  h1 = h1
  h2 = h2
  h3 = h3
  c1 = c1
  c2 = c2
  Hotkeys = {h1, h2, h3}
  Coldkeys = {c1, c2}
  Validators = {h1}
  LastBlock = 2
  MaxRunning = 1
  Position <- Positions
  Anchor <- Anchors
  Owner <- Owners
  ColdkeyAt <- Keys
  UidAt <- Uids
  WeightsAt <- Sets
  TempoAt <- Tempos
  Earlier <- Sold
  Lag = 0
  Lookback = 2
  Window = 2
  None = None
PROPERTY BurnHistoryKept
CHECK_DEADLOCK FALSE
