SPECIFICATION Spec
CONSTANTS
  Live = live
  Backfills = {backfill}
  MaxBlock = 2
  Lookback = 1
  x1 = x1
  x2 = x2
  x3 = x3
  tempo = tempo
  None = None
  Hashes = {x1, x2, x3}
  BlockExts <- RaceExts
  EventBlocks = {1, 2}
  Params = {tempo}
  ParamOf <- TwoChanges
PROPERTY HyperparamNeverOlder
