SPECIFICATION FairSpec
CONSTANTS
  Handlers = {h1, h2, h3}
  Others = {o1}
  Threads = 2
  Capacity = 3
CHECK_DEADLOCK FALSE
PROPERTY AccessEnds
