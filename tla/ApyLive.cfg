SPECIFICATION FairSpec
CONSTANTS
  Ticks = {tick1}
  Backfills = {}
  Syncs = {s1}
  MaxBlock = 2
  MaxId = 2
  MaxExpiry = 2
  Margin = 1
  ChunkSize = 1
  Skips = {}
  Values = {v1}
  Untimed = {1}
  Times = {1}
  None = None
PROPERTIES FactsCatchUp DatesArrive ExpiredLeave
