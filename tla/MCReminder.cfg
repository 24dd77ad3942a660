SPECIFICATION Spec
CONSTANTS
  MaxMsgs = 2
  MaxAttempts = 2
  LookupsFail = TRUE
CHECK_DEADLOCK FALSE
INVARIANTS
  ArmedWhenQuiet
  RemindedOnce
  HeardLessonStands
PROPERTIES
  EveryReminderEnds
