SPECIFICATION FairSpec
CONSTANTS
  m1 = m1  m2 = m2  q1 = q1  q2 = q2  x1 = x1  k1 = k1  k2 = k2
  s1 = s1  s2 = s2  r1 = r1  r2 = r2
  NoMsg = NoMsg  NoQueue = NoQueue
  Msgs = {m1}
  Queues = {q1}
  Exchanges = {x1}
  Keys = {k1}
  Conns = {s1, r1, r2}
  Role <- MCRole
  Owned <- MCOwned
  Route <- MCRoute
  max_queue_size = 1
  MAX_RETRIES = 2
  MaxAttempts = 1
CHECK_DEADLOCK FALSE
INVARIANT TypeOK
INVARIANT NoMissedMessage
INVARIANT ServedOnly
PROPERTY AckedNotRedelivered
PROPERTY EventuallyOffered
