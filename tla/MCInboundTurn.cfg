\* Two jobs: two voice notes of the same parent, or one that was enqueued twice.
\* Beside them the onboarding, from no row at all to done and beyond it, two turns
\* in flight at a time.  The bounds stop the system: deadlock is not checked.
SPECIFICATION MCSpec
CONSTANTS
  j1 = j1
  j2 = j2
  m1 = m1
  m2 = m2
  Jobs <- MCJobs
  Msgs <- MCMsgs
  Assignments <- MCAssignments
  Earlier = Earlier
  MaxAttempts = 2
  MaxFailing = 1
  MaxStalls = 0
  Names = {anu}
  Ages <- MCAges
  Months <- MCMonths
  Null = Null
  None = None
  Unintelligible = Unintelligible
  Year = 2025
  MaxMsgs = 8
  MaxRows = 7
  MaxRollbacks = 1
  MaxBroken = 1
  MaxInFlight = 2
VIEW MCView
CHECK_DEADLOCK FALSE
INVARIANTS
  RolledBackLeavesNothing
  AnsweredOnce
  UndeliveredLeavesNothing
  NoForkIsHeard
  LessonNeedsConsent
  ConsentBeforeData
  ReadingRecovered
PROPERTIES
  KeepsThePromise
