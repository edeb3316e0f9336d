SPECIFICATION FairWebSpec
CONSTANTS
  KeepDays = 1
  Limit = 2
  LastTick = 2
  LastRow = 2
  LastDay = 1
  LastRun = 1
  Prefetch = 1
  Speeds = {1, 2}
  MaxInputs = 2
  Visits = {v1}
  MaxRetries = 2
  FirstDelay = 1
  MaxDelay = 3
INVARIANTS
  RowsHaveFiles
  OneTimer
  OneAttempt
PROPERTIES
  ImplementsPlayback
  PlaybackEnds
  Settles
