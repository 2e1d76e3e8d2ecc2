CONSTANTS
  p1 = p1  p2 = p2  p3 = p3  r1 = r1
  PlayerList <- List3
  Enrolled = 2
  Disqualified = {p1}
  Ranker = {r1}
  MaxScoredPlayer = 0
  ScoreRepeat = 2
  NewPlayerWorkerNum = 0
  ChannelSize = 1
  Jobs = 2
SPECIFICATION FairSpec
INVARIANTS EveryDrawnPlayerKnown LastRankingIsFinal BillIsAsResult
PROPERTIES JobEnds
\* The jobs of a behaviour come to an end.
CHECK_DEADLOCK FALSE
