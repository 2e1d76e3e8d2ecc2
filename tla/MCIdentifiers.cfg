CONSTANTS
  r1 = r1  r2 = r2
  Request = {r1, r2}
  Seconds = 2
  IdsPerSecond = 3
  FirstIds = 1
  Origin = 3
  MaxTries = 2
  Created = {0, 1}
  MaxGenerated = 4
  MaxDispensed = 2
  MaxInits = 2
SPECIFICATION FairSpec
INVARIANTS TypeOK GeneratedOnce RepeatsOnlyGenerated CleanRowsKept
PROPERTIES HandlersEnd
\* The generator of the initial data may stop, and ids come to their bound.
CHECK_DEADLOCK FALSE
