CONSTANTS
  b1 = b1  s1 = s1  s2 = s2
  Base = {b1}
  Spawned = {s1, s2}
  Looping = {b1, s1}
  Spawner = {b1, s1}
  ChannelSize = 1
  Budget = 3
  CriticalCost = 2
  MaxFound = 3
  Additions = {0, 10}
SPECIFICATION FairSpec
PROPERTIES LoadReturns
\* Load returns and the workers are done.
CHECK_DEADLOCK FALSE
