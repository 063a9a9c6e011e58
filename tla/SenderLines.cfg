SPECIFICATION Spec
CONSTANTS
  N = 2
  BatchSize = 2
  max_inflight = 2
  max_retries = 1
  Answers = {"ok"}
  Reads = {1, 2, 3, 4}
  Faults = {}
  NoItem = NoItem
CHECK_DEADLOCK FALSE
INVARIANT LinesTaken
