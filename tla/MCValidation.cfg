CONSTANTS
  r1 = r1  r2 = r2
  tAll = tAll  tRanking = tRanking  tBad = tBad  tJwt = tJwt  tBill = tBill  tNone = tNone
  Admin = Admin
  NewTenant <- Tenants
  RankLimit = 3
  BillingLimit = 5
  InitialTenants = 8
  PlayersDrawn = 2
  CompetitionsDrawn = 2
  LeastVisits = 2
  LeastScores = 2
  BatchSize = 3
  PlayerNum = 4
  CheckPlayer = 2
  PopularRange <- IndexZero
  AdminRange <- OneToFive
  PlayerRange <- IndexSix
  Rounds <- TwoRounds
  Ranker = {r1, r2}
  Deviations <- AllDeviations
  Interrupted <- Some
SPECIFICATION FairSpec
INVARIANTS OnlyRaceFailsCorrect UncheckedOnlyInGroup
PROPERTIES NoticesDeviations ValidationEnds
\* The checks come to their end.
CHECK_DEADLOCK FALSE
