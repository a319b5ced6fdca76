\* A migration is confirmed during a session in which a gift is counted.
SPECIFICATION MigrationSpec
CONSTANTS
  Packages = {f1}
  Tabs = {t1}
  Panels = {p1}
  Nothing = Nothing
  MaxJobs = 1
  MaxWrites = 1
INVARIANT PendingMigrationsTakeEffect
CHECK_DEADLOCK FALSE
