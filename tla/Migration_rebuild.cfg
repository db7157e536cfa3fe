CONSTANTS
  Runners = {m1, m2}
  Servers = {s1}
  NoTable = NoTable
  Nobody = Nobody
  MaxDocs = 4
  MaxRuns = 4
SPECIFICATION MigrationSpec
INVARIANT
  RebuildIsHandled
CHECK_DEADLOCK FALSE
