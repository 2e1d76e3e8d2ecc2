CONSTANTS
  r1 = r1  r2 = r2  r3 = r3
  p1 = p1  p2 = p2  p3 = p3
  c1 = c1  c2 = c2
  NULL = NULL  NoOne = NoOne
  Request = {r1, r2, r3}
  Player = {p1, p2}
  Competition = {c1}
  InitPlayers = {p1, p2}
  InitCompetitions = {c1}
  CSV <- TwoFiles
  Malformed <- None
  Api = {"score", "ranking", "player", "finish"}
  Faults = {}
  MaxNow = 1
  MaxNames = 0
SPECIFICATION Spec
SYMMETRY RequestSymmetry
INVARIANTS TypeOK
PROPERTIES RankingShowsWholeUpload DrainedScoresAreFinal
