SPECIFICATION Spec
CONSTANTS
  m1 = m1  m2 = m2  m3 = m3
  Msgs = {m1}
  Bad = {}
  NoMsg = NoMsg
  Capacity = 1
  BATCH = 2
  MaxPushes = 1
  Faults = {"sigint"}
CHECK_DEADLOCK FALSE
INVARIANT AckedIsSaved
