\* One voice note with the queue's three attempts and a worker that may die once,
\* and two taps with two attempts each.
SPECIFICATION MCSpec
CONSTANTS
  j1 = j1
  m1 = m1
  Jobs <- MCJobs
  Msgs <- MCMsgs
  Assignments <- MCOneJob
  Earlier = Earlier
  MaxAttempts = 3
  MaxFailing = 1
  MaxStalls = 1
  Names = {anu}
  Ages <- MCAges
  Months <- MCMonths
  Null = Null
  None = None
  Unintelligible = Unintelligible
  Taps = {t1, t2}
  TapTries = 2
  Questions = {1, 2, 3}
  NoQuestion = 0
CHECK_DEADLOCK FALSE
INVARIANTS
  ShownAnswersFit
PROPERTIES
  EveryJobEnds
