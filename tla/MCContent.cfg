SPECIFICATION MCSpec
CONSTANTS
  r1 = r1
  r2 = r2
  Rows = {r1, r2}
  Makers = {m1}
  Senders = {m1}
  Readers = {u1, u2}
  Kinds <- MCKinds
  Generic = {r1}
  Attempts = 2
  Tries = 1
  MaxEdits = 1
  Sends = 3
  Null = Null
  Families = {f1}
  Inputs <- MCInputs
  Required <- MCRequired
  MaxCalls <- MCMaxCalls
  PassTrue = 2
  RejectRight = 2
  CallTries = 2
  MaxDeletes = 2
  MaxSweeps = 2
  NoFamily = NoFamily
SYMMETRY Symmetry
INVARIANTS
  OnWhatsApp
  WordShown
  OneCardPerJob
  LiveIsVetted
  SweptClean
  DeletedTogether
CHECK_DEADLOCK FALSE
