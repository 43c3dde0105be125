SPECIFICATION Spec
CONSTANTS
  Ticks = {tick1}
  Backfills = {backfill}
  Syncs = {s1, s2}
  MaxBlock = 2
  MaxId = 3
  MaxExpiry = 1
  Margin = 1
  ChunkSize = 1
  Skips = {0}
  Values = {v1}
  Untimed = {}
  Times = {1}
  None = None
INVARIANTS OneAtATime NothingMissed
