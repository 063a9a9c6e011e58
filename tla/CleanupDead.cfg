SPECIFICATION CleanupSpec
CONSTANTS
  m1 = m1  q1 = q1  x1 = x1  k1 = k1  s1 = s1  r1 = r1  r2 = r2
  NoMsg = NoMsg  NoQueue = NoQueue
  Msgs = {m1}
  Queues = {q1}
  Exchanges = {x1}
  Keys = {k1}
  Conns = {s1, r1}
  Role <- MCRole
  Owned <- MCOwned
  Route <- MCRoute
  max_queue_size = 1
  MAX_RETRIES = 1
  MaxAttempts = 1
CHECK_DEADLOCK FALSE
PROPERTY DeadConsumersRemoved
