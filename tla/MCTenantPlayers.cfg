CONSTANTS
  r1 = r1  r2 = r2  r3 = r3
  p1 = p1  p2 = p2  p3 = p3
  c1 = c1  c2 = c2
  NULL = NULL  NoOne = NoOne
  Request = {r1, r2}
  Player = {p1, p2, p3}
  Competition = {c1, c2}
  InitPlayers = {p1}
  InitCompetitions = {c1}
  CSV <- OneFile
  Malformed <- None
  Api = {"ranking", "competitions", "disqualified", "players_add", "competitions_add"}
  Faults = {}
  MaxNow = 1
  MaxNames = 2
SPECIFICATION Spec
SYMMETRY RequestSymmetry
PROPERTIES DisqualifiedStaysOut
