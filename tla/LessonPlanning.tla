--------------------------- MODULE LessonPlanning ---------------------------
(***************************************************************************)
(* What a student is given to read next (selectNextString, selectPassage   *)
(* and the sentence band signal): the level moves with the newest rows of  *)
(* literacy_lesson_states, and a passage is chosen that the student has    *)
(* not had.  One step is one turn, which writes one row.  The lessons      *)
(* themselves are LessonMachine's; here a row keeps what selection reads.  *)
(* Which of the words that fit is chosen, by letter scores, is left open.  *)
(***************************************************************************)
EXTENDS Integers, Sequences, FiniteSets, SequencesExt

CONSTANTS Words, Bank,       \* words, and the ready passages
          Size,              \* a word's letters; lessonLevel of a passage's text
          PassageLevel,      \* media_details.level of a passage
          Floor,             \* MIN_WORD_LENGTH_FLOOR
          Threshold,         \* SENTENCE_LEVEL_THRESHOLD: above it, passages
          FlowLevel,         \* PASSAGE_FLOW_LEVEL_THRESHOLD
          MaxLevel,          \* MAX_LESSON_LEVEL
          Window,            \* SENTENCE_RECENT_ROWS_WINDOW
          AddRows, KeepRows, \* SNAPSHOT_THRESHOLD_...
          BoostRows,         \* LEVEL_BOOST_WINDOW
          BoostBy,           \* LEVEL_BOOST_INCREMENT
          EnoughWords,       \* MIN_UNIQUE_WORDS_FOR_PROGRESS, NEW_USER_THRESHOLD
          RecentWords,       \* RECENT_WORDS_TO_EXCLUDE
          TestTexts,         \* what a test may ask
          Placements,        \* the levels a test may place a student at
          MaxRows            \* bound: rows of a student

ASSUME PlanAssumption ==
  /\ Words \cap Bank = {} /\ PassageLevel \in [Bank -> Nat]
  /\ Size \in [Words \cup Bank \cup TestTexts -> Nat]
  /\ {Floor, Threshold, MaxLevel, BoostBy, Window} \subseteq Nat /\ Placements \subseteq Nat

VARIABLES rows,     \* the student's rows, the oldest first
          forced    \* the level the finished test placed the student at, or 0

planVars == <<rows, forced>>

Row(text, level, mark, done) ==
  [text |-> text, level |-> level, mark |-> mark, done |-> done, test |-> FALSE]

Newest == Last(rows)
Open == rows # <<>> /\ ~Newest.done

\* The n-th last of some positions.
NthLast(S, n) == CHOOSE i \in S : Cardinality({k \in S : k > i}) = n - 1

\* The rows that progression reads, and the newest n of them.
Kept == {i \in DOMAIN rows : ~rows[i].test}
Progress == [n \in 1 .. Cardinality(Kept) |-> rows[NthLast(Kept, Cardinality(Kept) + 1 - n)]]
NewestRows(s, n) == IF Len(s) <= n THEN s ELSE SubSeq(s, Len(s) - n + 1, Len(s))
Recent == NewestRows(Progress, Window)

DoneTexts(s) == {s[i].text : i \in {k \in DOMAIN s : s[k].done}}
DoneIn(n) == Cardinality(DoneTexts(NewestRows(Recent, n)))

-----------------------------------------------------------------------------
(* sentence-band-signal.utils.ts: whole lessons, the newest first.         *)

\* A lesson ends in a done row and begins after the done row before it.
DoneAt(s) == {i \in DOMAIN s : s[i].done}
LessonRows(s, i) ==
  LET earlier == {k \in DoneAt(s) : k < i}
      begin == IF earlier = {} THEN 1 ELSE (CHOOSE k \in earlier : \A l \in earlier : l <= k) + 1
  IN  SubSeq(s, begin, i)

Flags(lesson) ==
  LET marks == {lesson[i].mark : i \in DOMAIN lesson}
      flow  == "flow" \in marks /\ Last(lesson).mark \in {"tapRight", "tapWrong"}
  IN  [pass   |-> "first" \in marks \/ (flow /\ Last(lesson).mark = "tapRight"),
       image  |-> "image" \in marks,
       failed |-> Last(lesson).mark = "failed" \/ (flow /\ Last(lesson).mark = "tapWrong")]

\* The lessons of s, newest first; the oldest counts only if its beginning is
\* known: when s is the whole history.
Lessons(s, whole) ==
  LET ends == DoneAt(s)
      n == IF whole \/ ends = {} THEN Cardinality(ends) ELSE Cardinality(ends) - 1
  IN  [i \in 1 .. n |-> Flags(LessonRows(s, NthLast(ends, i)))]

WholeUnlessLonger(s) == Len(s) <= Window   \* mutant
WholeHistory(s) == Len(s) < Window

ValidLessons == Lessons(Recent, WholeHistory(Recent))

Both(flag) ==
  LET two == ValidLessons
  IN  Len(two) >= 2 /\ two[1][flag] /\ two[2][flag]

LowCompletion ==
  /\ Cardinality(DoneAt(Recent)) < EnoughWords
  /\ Cardinality(DoneAt(Progress)) >= EnoughWords

\* computeSentenceBandSignal: by how much the level moves.
BandSignal ==
  IF Both("pass") THEN 1
  ELSE IF LowCompletion \/ Both("image") \/ Both("failed") THEN -1
  ELSE 0
-----------------------------------------------------------------------------
(* selectNextString.                                                       *)

Stored == {i \in DOMAIN rows : rows[i].level > 0}

\* The last stored level, else the size of the newest text.
Base ==
  IF Stored # {} THEN rows[CHOOSE i \in Stored : \A k \in Stored : k <= i].level
  ELSE IF rows = <<>> THEN 0 ELSE Size[Newest.text]

\* A student cruising through the words.
Accelerate ==
  \/ DoneIn(BoostRows) >= EnoughWords
  \/ DoneIn(KeepRows) >= 1 /\ Len(Recent) = 2
  \/ DoneIn(KeepRows) >= 2 /\ Len(Recent) = 4

Placed == \E i \in DOMAIN rows : rows[i].mark = "placed"

\* Too few rows or words to judge a student by.
NewStudent ==
  \/ Cardinality({rows[i].text : i \in DOMAIN rows}) < EnoughWords
  \/ Len(Recent) < AddRows

WordLevel ==
  IF Accelerate THEN Base + BoostBy
  ELSE IF Placed /\ Len(Recent) < AddRows THEN Base
  ELSE IF NewStudent THEN Floor
  ELSE IF DoneIn(AddRows) >= EnoughWords THEN Base + 1
  ELSE IF DoneIn(KeepRows) >= EnoughWords THEN Base
  ELSE Base - 1

AtMost(a, b) == IF a < b THEN a ELSE b
AtLeast(a, b) == IF a > b THEN a ELSE b

\* Above the words lies the first passage level, whatever the step.
Ratchet ==
  IF Base > Threshold THEN Base + BandSignal
  ELSE AtMost(WordLevel, Threshold + 1)

NextLevel ==
  AtMost(AtLeast(IF forced > 0 THEN forced ELSE Ratchet, Floor), MaxLevel)

\* selectPassage: unseen ones of the level, unseen ones of the nearest level,
\* then the one of the level, of the nearest level, seen the longest time ago.
LastSeen(p) == CHOOSE i \in DOMAIN rows :
                 rows[i].text = p /\ \A k \in i + 1 .. Len(rows) : rows[k].text # p
RecentlySeen == {rows[i].text : i \in {k \in DOMAIN rows : k > Len(rows) - 2}}  \* mutant
Seen == {rows[i].text : i \in DOMAIN rows} \cap Bank

Away(p, level) == IF PassageLevel[p] > level THEN PassageLevel[p] - level
                  ELSE level - PassageLevel[p]
NearestPassages(ps, level) == {p \in ps : \A q \in ps : Away(p, level) <= Away(q, level)}

PassagesFor(level) ==
  LET unseen == NearestPassages(Bank \ Seen, level)
      again  == NearestPassages(Seen, level)
  IN  IF unseen # {} THEN unseen
      ELSE {p \in again : \A q \in again : LastSeen(p) <= LastSeen(q)}

\* The words that are not longer than the level and not among the newest; when
\* none is left, one of the shortest.
LastTexts ==
  LET last == [t \in {rows[i].text : i \in DOMAIN rows} |->
                 CHOOSE i \in DOMAIN rows :
                   rows[i].text = t /\ \A k \in i + 1 .. Len(rows) : rows[k].text # t]
  IN  {t \in DOMAIN last : Cardinality({u \in DOMAIN last : last[u] > last[t]}) < RecentWords}

WordsFor(level) ==
  LET fit == {w \in Words \ LastTexts : Size[w] <= level}
  IN  IF fit # {} THEN fit ELSE {w \in Words : Size[w] = Floor}

\* A fresh lesson, whether the one before it ended or not: a passage above the
\* threshold, read in the flow from FlowLevel on, else a word.  Without any
\* passage the level falls back to the words.
StartLesson ==
  /\ Len(rows) < MaxRows
  /\ IF NextLevel > Threshold /\ Bank # {}
     THEN \E p \in PassagesFor(NextLevel) :
            rows' = Append(rows, Row(p, NextLevel,
                                     IF NextLevel >= FlowLevel THEN "flow" ELSE "start", FALSE))
     ELSE \E w \in WordsFor(AtMost(NextLevel, Threshold)) :
            rows' = Append(rows, Row(w, AtMost(NextLevel, Threshold), "start", FALSE))
  /\ forced' = 0

\* The next row of the lesson under way.
Reply(mark, done) ==
  /\ Len(rows) < MaxRows
  /\ rows' = Append(rows, Row(Newest.text, Newest.level, mark, done))
  /\ UNCHANGED forced

Reading == Open /\ ~Newest.test /\ Newest.mark \in {"start", "again", "image"}
Short(p) == PassageLevel[p] = Threshold + 1

AnswerWord ==
  /\ Reading /\ Newest.text \in Words
  /\ Reply("again", FALSE) \/ Reply("right", TRUE)

\* A passage read wrong leads to letters and pictures of one of its words; read
\* right it is followed by the question, or by nothing if it is short.
ReadWrong ==
  /\ Reading /\ Newest.text \in Bank
  /\ \/ Reply("again", FALSE)
     \/ Newest.mark # "start" /\ Reply("image", FALSE)
     \/ Newest.mark # "start" /\ Reply("failed", TRUE)

ReadRight ==
  /\ Reading /\ Newest.text \in Bank
  /\ Reply(IF Newest.mark = "start" THEN "first" ELSE "retry", Short(Newest.text))

\* handleComprehensionAnswer: a tap counts only if the question is open and the
\* option belongs to its passage; every other tap is ignored.
AnswerQuestion(p) ==
  /\ Open /\ Newest.mark \in {"first", "retry", "flow"} /\ Newest.text = p
  /\ Reply("tapRight", TRUE) \/ Reply("tapWrong", TRUE)

\* A voice note where a tap is expected.
VoiceAtQuestion ==
  /\ Open /\ Newest.mark \in {"first", "retry", "flow"} /\ Reply("retry", FALSE)

\* A test's lesson, which like any fresh lesson may leave an open one behind: its
\* rows have no level and are read by no window; the test of the onboarding ends
\* with a level for the next lesson.
TestLesson ==
  /\ Len(rows) < MaxRows /\ forced = 0
  /\ \E t \in TestTexts, l \in {0} \cup Placements :
       /\ l > 0 => ~\E i \in DOMAIN rows : ~rows[i].test
       /\ rows' = Append(rows, [text |-> t, level |-> 0, done |-> TRUE, test |-> TRUE,
                                mark |-> IF l > 0 THEN "placed" ELSE "tested"])
       /\ forced' = l

PlanInit == rows = <<>> /\ forced = 0

PlanNext ==
  \/ StartLesson \/ AnswerWord \/ ReadWrong \/ ReadRight
  \/ \E p \in Bank : AnswerQuestion(p)
  \/ VoiceAtQuestion \/ TestLesson

PlanSpec == PlanInit /\ [][PlanNext]_planVars
-----------------------------------------------------------------------------
Started == rows' # rows /\ ~Last(rows').test /\ Last(rows').mark \in {"start", "flow"}

\* literacy-lesson.service.ts: "A student never sees a passage twice while any
\* unseen passage exists at any lesson level", over abandoned lessons, level
\* changes and tests.
NewWhileThereAreNew ==
  [][LET given == {rows[i].text : i \in DOMAIN rows}
     IN  Started /\ Last(rows').text \in Bank /\ Bank \ given # {}
         => Last(rows').text \notin given]_planVars

\* sentence-band-signal.utils.ts: the oldest lesson of a clipped window "is
\* ignored, never scored".  What the window says of a lesson is what the whole
\* history says of it.
WindowTellsTheTruth ==
  LET whole == Lessons(Progress, TRUE)
      seen  == ValidLessons
  IN  Len(seen) <= Len(whole) /\ \A i \in DOMAIN seen : seen[i] = whole[i]

=============================================================================
