SPECIFICATION MCSpec
CONSTANTS
  Runs = {beat, manual}
  LastBlock = 5
  Untimed = {1}
  ValidatorBlocks = {1}
  Days = 2
  BulkDays = 1
  BatchSize = 1
  MaxBatches = 2
  None = None
  n1 = n1
  n2 = n2
  s1 = s1
  s2 = s2
  u1 = u1
  u2 = u2
  Netuids = {n1, n2}
  Signers = {s1, s2}
  Urls = {u1, u2}
  UrlsOf <- MCUrlsOf
  Items <- MCItems
  Tasks = {t1, t2}
  MaxKills = 1
  MaxMoves = 2
  ParamRuns = {p1, p2}
  LastParamBlock = 3
  Changes = {2, 3}
  HealthRuns = {g1, g2}
  LastHealthBlock = 3
  Dumpable <- MCDumpable
  Narrow = 1
  Wide = 2
  Files = {f1, f2}
  MaxCrashes = 1
  MaxItems = 2
  MaxEdits = 2
INVARIANTS ServicesTypeOK OneRunAtATime RightChannel NothingSwallowed RecordOfOneBlock OldValueRight HealthOfOneRun NeverUndercounted
PROPERTIES DeliveredAtLeastOnce OnlyExpiredLeave ExpiredLeave SentIsDone FilesAreSynced
CHECK_DEADLOCK FALSE
