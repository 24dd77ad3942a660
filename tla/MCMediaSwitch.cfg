SPECIFICATION MCSpec
CONSTANTS
  r1 = r1
  r2 = r2
  Rows = {r1, r2}
  Makers = {m1}
  Senders = {m1}
  Readers = {u1}
  Kinds <- SwitchKinds
  Generic = {r1}
  Attempts = 2
  Tries = 1
  MaxEdits = 1
  Sends = 3
  Null = Null
  Families = {f1}
  Inputs <- MCInputs
  Required <- MCRequired
  MaxCalls <- MCMaxCalls
  PassTrue = 2
  RejectRight = 2
  CallTries = 2
  MaxDeletes = 0
  MaxSweeps = 0
  NoFamily = NoFamily
INVARIANTS
  SwitchedOffIsLive
CHECK_DEADLOCK FALSE
