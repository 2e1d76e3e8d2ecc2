CONSTANTS
  r1 = r1  r2 = r2
  Request = {r1, r2}
  Seconds = 10
  IdsPerSecond = 2
  FirstIds = 2
  Origin = 2
  MaxTries = 2
  Created = {0, 1}
  MaxGenerated = 2
  MaxDispensed = 2
  MaxInits = 1
SPECIFICATION Spec
INVARIANTS UniqueInSystem
\* The generator of the initial data may stop, and ids come to their bound.
CHECK_DEADLOCK FALSE
