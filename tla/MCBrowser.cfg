CONSTANTS
  p1 = p1  p2 = p2  p3 = p3  c1 = c1  c2 = c2  file = file
  Player = {p1, p2, p3}
  Score = {1, 2}
  MaxRows = 4
  PageSize = 2
  MaxUploads = 2
  InitialTenants = 2
  TenantsPageSize = 2
  MaxTenant = 5
  MaxFetches = 4
  Competition = {c1, c2}
  InitialCompetition = {c1}
  CSV = {file}
  NULL = NULL
  MaxGets = 3
  MaxPosts = 2
SPECIFICATION PagesSpec
SYMMETRY PlayerSymmetry
INVARIANTS PagesTypeOK PageAgreesWithStandings ListHasEveryRankOnce ListIsComplete
INVARIANTS NothingMissed TwiceOnlyIfEarly ShownFileGoesWhereChosen
PROPERTIES GoesBackOnlyIfOvertaken
\* A page may be left alone.
CHECK_DEADLOCK FALSE
