SPECIFICATION MCSpec
CONSTANTS
  ka = ka
  kha = kha
  nya = nya
  nna = nna
  aa = aa
  sun = sun
  moon = moon
  sum = sum
  um = um
  far = far
  w1 = w1
  w2 = w2
  w3 = w3
  p3 = p3
  q3 = q3
  p4 = p4
  Letters <- MCLetters
  NoImageLetters <- MCNoImage
  MaxLetters = 4
  PassCorrect = 2
  FailIncorrect = 3
  BankSize = 4
  Passages <- MCPassages
  Tokens <- MCTokens
  Same <- MCSame
  Near <- MCNear
  Fillers = {um}
  Hard = {sun}
  FlawedTenths = 7
  ErrorBudget = 1
  MaxHeard = 4
  MaxEngines = 2
  WordList <- MCWordList
  Sounds = {ka, kha, nya, aa}
  Consonants = {ka, kha, nya}
  Matras = {aa}
  LongA = aa
  Families = {{ka, kha}}
  Respelt <- MCRespelt
  Joined <- MCJoined
  MaxSounds = 5
  Words = {w1, w2, w3}
  Bank = {p3, q3, p4}
  Size <- MCSize
  PassageLevel <- MCPassageLevel
  Floor = 1
  Threshold = 2
  FlowLevel = 4
  MaxLevel = 5
  Window = 5
  AddRows = 4
  KeepRows = 5
  BoostRows = 4
  BoostBy = 2
  EnoughWords = 2
  RecentWords = 1
  TestTexts = {w3, p3}
  Placements = {2, 4}
  MaxRows = 7
  Null = Null
  a1 = a1
  a2 = a2
  a3 = a3
  s1 = s1
  b1 = b1
  b2 = b2
  Paragraphs <- MCParagraphs
  Stories <- MCStories
  Banks <- MCBanks
  AserBankSize = 5
  AserPassCorrect = 3
  AserFailIncorrect = 3
  FastJumpItems = 2
  ParagraphAttempts = 2
  MaxRuns = 3
SYMMETRY Alike
INVARIANTS
  CountedOnce
  Bracketed
  WrongWordHasWrongLetter
  WindowTellsTheTruth
PROPERTIES
  EveryLetterScored
  LessonShrinks
  AnotherEngineNeverHurts
  NewWhileThereAreNew
