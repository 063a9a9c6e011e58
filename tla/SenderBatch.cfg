SPECIFICATION Spec
CONSTANTS
  N = 5
  BatchSize = 5
  max_inflight = 1
  max_retries = 1
  Answers = {"ok"}
  Reads = {2}
  Faults = {}
  NoItem = NoItem
CHECK_DEADLOCK FALSE
INVARIANT NeverStuck
