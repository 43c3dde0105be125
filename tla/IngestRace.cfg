SPECIFICATION Spec
CONSTANTS
  Live = live
  Backfills = {backfill}
  MaxBlock = 3
  Lookback = 1
  x1 = x1
  x2 = x2
  x3 = x3
  tempo = tempo
  None = None
  Hashes = {x1, x2, x3}
  BlockExts <- ThreeExts
  EventBlocks = {1, 2}
  Params = {tempo}
  ParamOf <- TwoChanges
CONSTRAINT ThirdBlockAlone
INVARIANTS AllOrNothing ResendOnlyIfRaced
PROPERTIES ImplementsLedger WalksTheChain PassedIsStored
