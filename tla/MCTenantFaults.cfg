CONSTANTS
  r1 = r1  r2 = r2  r3 = r3
  p1 = p1  p2 = p2  p3 = p3
  c1 = c1  c2 = c2
  NULL = NULL  NoOne = NoOne
  Request = {r1, r2}
  Player = {p1, p3}
  Competition = {c1}
  InitPlayers = {p1}
  InitCompetitions = {c1}
  CSV <- MixedFiles
  Malformed <- Unparsable
  Api = {"score", "ranking", "player", "billing", "finish"}
  Faults = {"statement", "crash"}
  MaxNow = 1
  MaxNames = 0
SPECIFICATION FairSpec
INVARIANTS FlockExcludes OneFileOnly
PROPERTIES ImplementsScoreBoard EveryRequestAnswered
