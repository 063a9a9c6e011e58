SPECIFICATION Spec
CONSTANTS
  N = 2
  BatchSize = 2
  max_inflight = 2
  max_retries = 1
  Answers = {"ok"}
  Reads = {2}
  Faults = {"drop"}
  NoItem = NoItem
CHECK_DEADLOCK FALSE
INVARIANT LossesReported
