SPECIFICATION MCSpec
CONSTANTS
  Students = {a, b}
  Schools = {s1, s2}
  Home = s1
  Area = block
  Nowhere = nowhere
  Nothing = nothing
  BatchSize = 1
  GeoBatchSize = 1
  FirstNight = 1
  MaxDay = 3
  MaxAnswers = 2
  MaxFailures = 1
  MaxManual = 1
  MaxMoves = 2
  MaxScripts = 1
  MaxTrouble = 3
  r1 = r1
  r2 = r2
  r3 = r3
  QuestionTypes = {r1, r2, r3}
  NoType = untyped
  None = none
  NipunCount = 2
  MplBCount = 4
  MinTypes = 2
  MaxPool = 5
  MaxScores = 10
  MaxMonths = 90
  Batches <- MCBatches
INVARIANTS
  AreaIsTheSum
  MissedIsPickedUp
  LatestEndsTheSeries
  StatedAgeHolds
  LettersWithinReach
PROPERTIES
  EveryoneIsScored
CHECK_DEADLOCK FALSE
