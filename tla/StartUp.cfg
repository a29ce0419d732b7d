SPECIFICATION FairSpec
CONSTANTS
  Web = {w1, w2}
  Celery = {c1}
  Tries = 2
  MigrationTries = 2
  Images = 2
  MaxFaults = 3
INVARIANTS TypeOK RunsOnItsSchema SuperuserBeforeServing
PROPERTIES SchemaSpec CutOffStays StartsUp
CHECK_DEADLOCK FALSE
