SPECIFICATION FairSpec
CONSTANTS
  N = 4
  BatchSize = 2
  max_inflight = 2
  max_retries = 1
  Answers = {"ok", "error"}
  Reads = {1, 2, 3}
  Faults = {"drop", "timeout"}
  NoItem = NoItem
CHECK_DEADLOCK FALSE
INVARIANT TypeOK
INVARIANT PermitsAccounted
INVARIANT InFlightBound
INVARIANT ConfirmedIsStored
INVARIANT WrittenIsReported
PROPERTY PipelineEnds
