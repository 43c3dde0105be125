SPECIFICATION Spec
CONSTANTS
  Ticks = {tick1}
  Backfills = {backfill}
  Syncs = {s1}
  MaxBlock = 2
  MaxId = 2
  MaxExpiry = 0
  Margin = 1
  ChunkSize = 1
  Skips = {1}
  Values = {v1}
  Untimed = {}
  Times = {1}
  None = None
INVARIANTS NothingMissed
