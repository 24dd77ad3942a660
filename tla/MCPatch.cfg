SPECIFICATION MCSpec
CONSTANTS
  u1 = u1
  u2 = u2
  p1 = p1
  p2 = p2
  Ids = {u1, u2}
  Phones = {p1, p2}
  Workers = {w1, w2}
  Desks = {d1}
  Null = Null
  MaxMishaps = 1
  DayLength = 3
  VoiceAllowance = 2
  TapAllowance = 3
  DayMarks = {2}
  TotalMarks = {3}
  StreakMin = 2
  MaxStreak = 3
  LastMoment = 5
  MaxLate = 1
  Students = {s1, s2}
  Processes = {n1, n2}
  LastDay = 2
  NoCopy = NoCopy
INVARIANTS
  PatchEvicts
SYMMETRY Alike
CHECK_DEADLOCK FALSE
