SPECIFICATION Spec
CONSTANTS
  m1 = m1  v1 = v1  t1 = t1  t2 = t2  r1 = r1  k1 = k1  a = a  b = b
  NoMeta = NoMeta  NoTime = NoTime  NoKey = NoKey  NoCommand = NoCommand
  Ids = {m1}
  Metas = {v1}
  Times = {t1, t2}
  Clients = {r1}
  Keys = {k1}
  BadKey = BadKey
  Callers = {a, b}
  Ops = {"unacked", "save", "delivered", "acknowledged", "evict"}
  Capacity = 1
  BATCH_SIZE = 2
  Faults = {"query", "flush", "pool", "crash"}
  MaxFaults = 1
SYMMETRY Symmetry
INVARIANT OneReplyPerCall
INVARIANT UpdatesHaveRows
PROPERTY TimesStick
PROPERTY StoreSpec
