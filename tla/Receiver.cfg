SPECIFICATION FairSpec
CONSTANTS
  m1 = m1  m2 = m2  m3 = m3
  Msgs = {m1, m2, m3}
  Bad = {m3}
  NoMsg = NoMsg
  Capacity = 1
  BATCH = 2
  MaxPushes = 3
  Faults = {"drop", "refuse", "sigint", "slow", "open", "flush"}
CHECK_DEADLOCK FALSE
INVARIANT TypeOK
INVARIANT StoredOnce
INVARIANT AckedIsKept
PROPERTY ShutdownEnds
