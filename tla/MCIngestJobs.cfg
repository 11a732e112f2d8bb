SPECIFICATION IngestSpec
CONSTANTS
  Jobs = {j1, j2}
  TTL = 1
  MaxTime = 2
  MaxFaults = 2
INVARIANTS
  IngestInv
  HeardCompletedMeansStored
  RefusedLeavesNothing
  OutcomeStaysForTTL
  LaterNeverOvertaken
PROPERTIES
  OutcomesAreFinal
  FiledJobsFinish
CHECK_DEADLOCK FALSE
