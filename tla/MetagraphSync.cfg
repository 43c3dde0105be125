SPECIFICATION Spec
CONSTANTS
  Workers = {"live", "gaps", "history", "burns"}
  h1 = h1
  h2 = h2
  h3 = h3
  c1 = c1
  c2 = c2
  Hotkeys = {h1, h2, h3}
  Coldkeys = {c1, c2}
  Validators = {h1}
  LastBlock = 2
  MaxRunning = 2
  Position <- Positions
  Anchor <- Anchors
  Owner <- Owners
  ColdkeyAt <- Keys
  UidAt <- Uids
  WeightsAt <- Sets
  TempoAt <- Tempos
  Earlier <- Sold
  Lag = 0
  Lookback = 2
  Window = 0
  None = None
INVARIANTS DumpIsOfItsBlock WeightsLinkRight RowOfOneBlock BurnRightWhenAlone
