\* Expected to fail: the reply to the last onboarding answer comes too late.
SPECIFICATION MCSpec
CONSTANTS
  j1 = j1
  j2 = j2
  m1 = m1
  m2 = m2
  Jobs = {j1}
  Msgs = {m1}
  Assignments <- MCOneJob
  Earlier = Earlier
  MaxAttempts = 3
  MaxFailing = 1
  MaxStalls = 0
  Names = {anu}
  Ages <- MCAges
  Months <- MCMonths
  Null = Null
  None = None
  Unintelligible = Unintelligible
  Year = 2025
  MaxMsgs = 1
  MaxRows = 1
  MaxRollbacks = 0
  MaxBroken = 0
  MaxInFlight = 1
CHECK_DEADLOCK FALSE
INVARIANT
  UndoneTurnResetsUser
