-------------------------------- MODULE AserRun --------------------------------
(***************************************************************************)
(* The ASER reading test (aser.ts, aser.service.ts) as it rides in the     *)
(* lesson rows of one student: a fresh lesson delivers the next item, the  *)
(* item's first answer is counted and advances the test, and an abandoned  *)
(* item is delivered again.  One step is one call of processAnswer, or a   *)
(* passage taken out.  The lesson machine is reduced to what the test sees *)
(* of it: the letters still to ask, its counts, and the return to a word.  *)
(* The words and letters of a bank are interchangeable and only counted;   *)
(* the words to avoid in a passage, and new passages, are left out.        *)
(***************************************************************************)
EXTENDS Integers, Sequences, FiniteSets, SequencesExt

CONSTANTS AserBankSize,       \* words, and letters, of a bank
          Paragraphs,         \* level-9 passages
          Stories,            \* level-10 passages
          Banks,              \* ASER_BANKS
          AserPassCorrect,    \* ASER_PASS_CORRECT
          AserFailIncorrect,  \* ASER_FAIL_INCORRECT
          FastJumpItems,      \* ASER_FAST_JUMP_ITEMS
          ParagraphAttempts,  \* ASER_PARAGRAPH_ATTEMPTS
          Null,
          MaxRuns             \* bound: runs of one student

ASSUME CountsAssumption ==
  /\ AserPassCorrect \in Nat \ {0} /\ AserFailIncorrect \in Nat \ {0}
  /\ FastJumpItems \in Nat \ {0} /\ ParagraphAttempts \in Nat \ {0}
  /\ FastJumpItems < AserPassCorrect /\ FastJumpItems < AserFailIncorrect
ASSUME BankAssumption ==
  /\ AserBankSize \in Nat /\ AserBankSize >= AserPassCorrect + AserFailIncorrect - 1
  /\ IsFiniteSet(Banks) /\ Cardinality(Banks) >= 2
ASSUME ItemsAssumption ==
  /\ Paragraphs \cap Stories = {} /\ MaxRuns \in Nat
  /\ IsFiniteSet(Paragraphs) /\ IsFiniteSet(Stories)
  /\ Null \notin Paragraphs \cup Stories \cup Banks
                  \cup {"letter", "word", "paragraph", "story", "passed", "failed"}

VARIABLES run,      \* context.aser of the latest lesson row
          lesson,   \* the machine of that row, as far as the test sees it
          past,     \* what dueTest reads of the earlier runs
          live,     \* the passages that have not been culled
          early     \* ghost: the latest run ended for want of a passage

testVars == <<run, lesson, past, live, early>>

-----------------------------------------------------------------------------
(* The state of a run, and how an answer advances it.                      *)

Stages   == <<"letter", "word", "paragraph", "story">>
Stage    == {"letter", "word", "paragraph", "story"}
LevelRank     == [letter |-> 1, word |-> 2, paragraph |-> 3, story |-> 4]
TestPassages == Paragraphs \cup Stories

NoItem == [stage |-> Null, value |-> Null, answered |-> TRUE]
Zero   == [correct |-> 0, incorrect |-> 0]

\* newAserState: `used` counts the bank's items, `seen` holds the passages;
\* `status` is "none" where the row carries no test.
NewRun(onboarding, bank, start) ==
  [status |-> "in_progress", onboarding |-> onboarding, bank |-> bank,
   startStage |-> start, stage |-> start,
   outcomes |-> [s \in Stage |-> Null], counts |-> [s \in Stage |-> Zero],
   used |-> [letter |-> 0, word |-> 0], seen |-> {}, item |-> NoItem,
   result |-> Null, placement |-> Null]

NoRun == [NewRun(FALSE, Null, "word") EXCEPT !.status = "none"]

\* aserCountVerdict.
CountVerdict(c) ==
  IF c.correct >= AserPassCorrect THEN "passed"
  ELSE IF c.incorrect >= AserFailIncorrect THEN "failed" ELSE Null

\* aserLevel: the highest level passed; mutant: the level the run began at.
LevelOfStart(s) == s.startStage

LevelOf(s) ==
  LET passed == {t \in Stage : s.outcomes[t] = "passed"}
  IN  IF passed = {} THEN "beginner"
      ELSE CHOOSE t \in passed : \A u \in passed : LevelRank[u] <= LevelRank[t]

\* ASER_PLACEMENT_LEVEL
PlacementLevel ==
  [beginner |-> 1, letter |-> 2, word |-> 3, paragraph |-> 9, story |-> 10]

Finish(s) ==
  [s EXCEPT !.status = "done", !.result = LevelOf(s),
            !.placement = IF s.onboarding THEN PlacementLevel[LevelOf(s)] ELSE Null]

\* Where a decided level leads: up when it was passed, down when it was failed;
\* nowhere at either end.
Adjacent(s, t) ==
  LET r == IF s.outcomes[t] = "passed" THEN LevelRank[t] + 1 ELSE LevelRank[t] - 1
  IN  IF r \in 1 .. 4 THEN Stages[r] ELSE Null

\* The test stops at a level that is decided.
Stops(s, t) ==
  Adjacent(s, t) = Null \/ s.outcomes[Adjacent(s, t)] # Null

AfterDecision(s, t) ==
  IF Stops(s, t) THEN Finish(s) ELSE [s EXCEPT !.stage = Adjacent(s, t)]

\* The decision, if any, that the counts c of level t amount to.
OutcomeOf(t, c) ==
  CASE t \in {"letter", "word"} -> CountVerdict(c)
    [] t = "paragraph" ->
         IF c.correct > 0 THEN "passed"
         ELSE IF c.incorrect >= ParagraphAttempts THEN "failed" ELSE Null
    [] t = "story" -> IF c.correct > 0 THEN "passed" ELSE "failed"

\* The first words of a run that started at words: a likely level, no decision.
FastJump(s, t) ==
  LET c == s.counts[t]
  IN  CASE /\ t = "word" /\ s.startStage = "word" /\ s.outcomes["paragraph"] = Null
           /\ c.correct = FastJumpItems /\ c.incorrect = 0 -> "paragraph"
        [] /\ t = "word" /\ s.startStage = "word" /\ s.outcomes["letter"] = Null
           /\ c.incorrect = FastJumpItems /\ c.correct = 0 -> "letter"
        [] OTHER -> s.stage

\* recordAserAnswer records an item's first answer.
TakesAnswer(s) == s.status = "in_progress" /\ ~s.item.answered

RecordAnswer(s, correct) ==
  LET t == s.item.stage
      c == IF correct THEN [s.counts[t] EXCEPT !.correct = @ + 1]
                      ELSE [s.counts[t] EXCEPT !.incorrect = @ + 1]
      counted == [s EXCEPT !.counts[t] = c, !.item.answered = TRUE]
      outcome == OutcomeOf(t, c)
  IN  IF ~TakesAnswer(s) THEN s
      ELSE IF outcome = Null THEN [counted EXCEPT !.stage = FastJump(counted, t)]
      ELSE AfterDecision([counted EXCEPT !.outcomes[t] = outcome], t)

\* withItem, for an item of the bank and for a passage; mutant: the item is not
\* marked as used.
BankItemUnmarked(s, t) == [s EXCEPT !.item = [stage |-> t, value |-> Null, answered |-> FALSE]]

WithBankItem(s, t) ==
  [s EXCEPT !.item = [stage |-> t, value |-> Null, answered |-> FALSE],
            !.used[t] = @ + 1]

WithPassage(s, p) ==
  [s EXCEPT !.item = [stage |-> s.stage, value |-> p, answered |-> FALSE],
            !.seen = @ \cup {p}]

-----------------------------------------------------------------------------
(* A fresh lesson: AserService.planFreshLesson.                            *)

\* Where the machine is, its aserLetters, and the letters after the asked one.
NoLetters == [correct |-> 0, incorrect |-> 0, done |-> TRUE]
Lesson(at, test, queue) == [at |-> at, test |-> test, queue |-> queue]
PlainLesson(at) == Lesson(at, NoLetters, 0)

\* The counts a letter test starts with.
CarriedCounts(s) == s.counts["letter"]

LetterLesson(s) ==
  Lesson("letter", [correct |-> CarriedCounts(s).correct,
                    incorrect |-> CarriedCounts(s).incorrect, done |-> FALSE],
         AserBankSize - s.used["letter"] - 1)

\* What the stage can still be tested with: selectPassage, remainingBankItems.
Drawable(s) ==
  ((IF s.stage = "story" THEN Stories ELSE Paragraphs) \cap live) \ s.seen

NothingToDraw(s) ==
  IF s.stage \in {"letter", "word"} THEN s.used[s.stage] >= AserBankSize
                                    ELSE Drawable(s) = {}

\* endEarly: a normal lesson at the placement, whose row carries the ended run.
EndEarly(s) ==
  /\ NothingToDraw(s)
  /\ run' = Finish(s) /\ lesson' = PlainLesson("normal")
  /\ early' = TRUE

\* drawNext: one lesson for the letters left, a lesson for each other item.
DrawItem(s) ==
  /\ ~NothingToDraw(s)
  /\ \/ /\ s.stage = "letter"
        /\ run' = [s EXCEPT !.item = NoItem] /\ lesson' = LetterLesson(s)
     \/ /\ s.stage = "word"
        /\ run' = WithBankItem(s, "word") /\ lesson' = PlainLesson("item")
     \/ /\ s.stage \in {"paragraph", "story"}
        /\ \E p \in Drawable(s) : run' = WithPassage(s, p)
        /\ lesson' = PlainLesson("item")
  /\ UNCHANGED early

DrawNext(s) == EndEarly(s) \/ DrawItem(s)

\* An item that was never answered is delivered again, unless it was culled.
Gone(item) == item.stage \in {"paragraph", "story"} /\ item.value \notin live

DeliverAgain ==
  /\ run.status = "in_progress" /\ ~run.item.answered /\ ~Gone(run.item)
  /\ lesson' = PlainLesson("item")
  /\ UNCHANGED <<run, past, live, early>>

DeliverAnother ==
  /\ run.status = "in_progress" /\ ~run.item.answered /\ Gone(run.item)
  /\ DrawNext([run EXCEPT !.item = NoItem])
  /\ UNCHANGED <<past, live>>

DeliverNext ==
  /\ run.status = "in_progress" /\ run.item.answered
  /\ DrawNext(run)
  /\ UNCHANGED <<past, live>>

\* The lesson after a test: at the placement, when the run has one.
AfterTheTest ==
  /\ run.status = "done"
  /\ past' = Append(past, [bank |-> run.bank, story |-> run.result = "story",
                           shown |-> run.used["letter"] + run.used["word"] > 0])
  /\ run' = NoRun /\ lesson' = PlainLesson("normal") /\ early' = FALSE
  /\ UNCHANGED live

\* The banks whose letters or words were shown, run by run, and those of the
\* cycle that is under way: a cycle that has shown them all starts over.
ShownBanks(runs) ==
  LET shown == SelectSeq(runs, LAMBDA r : r.shown)
  IN  [k \in DOMAIN shown |-> shown[k].bank]

ThisCycle(shown) ==
  FoldLeft(LAMBDA seen, b : IF seen \cup {b} = Banks THEN {} ELSE seen \cup {b},
           {}, shown)

\* chooseBank: one not shown in this cycle, and at its start not the last one
\* shown.
BankOptions(shown) ==
  IF shown # <<>> /\ ThisCycle(shown) = {} THEN Banks \ {Last(shown)}
                                           ELSE Banks \ ThisCycle(shown)

\* dueTest: the first lesson ever starts the onboarding run, at words; later
\* runs are due after enough active time, which the environment decides, and
\* start at the level of the student's lessons.
StartRun ==
  /\ run.status = "none" /\ Len(past) < MaxRuns
  /\ \A k \in DOMAIN past : ~past[k].story
  /\ \E bank \in BankOptions(ShownBanks(past)),
        start \in IF lesson.at = "none" THEN {"word"} ELSE Stage \ {"letter"} :
       DrawNext(NewRun(lesson.at = "none", bank, start))
  /\ UNCHANGED <<past, live>>

-----------------------------------------------------------------------------
(* A voice note: the machine's step, then applyAserTurn while the run is   *)
(* in progress.                                                            *)

Turn(next) ==
  /\ run' = IF run.status = "in_progress" THEN next ELSE run
  /\ UNCHANGED <<past, live, early>>

\* The first answer to a word or to a passage.
AnswerItem ==
  /\ lesson.at = "item" /\ lesson' = PlainLesson("rest")
  /\ \E correct \in BOOLEAN : Turn(RecordAnswer(run, correct))

\* Every later answer of a lesson: its drills, its retries, its question.
AnswerRest ==
  /\ lesson.at \in {"rest", "normal", "drill"} /\ UNCHANGED lesson
  /\ \E correct \in BOOLEAN : Turn(RecordAnswer(run, correct))

\* countAserLetter: the asked letter's first answer.
Count(correct) ==
  LET c == [correct   |-> lesson.test.correct + (IF correct THEN 1 ELSE 0),
            incorrect |-> lesson.test.incorrect + (IF correct THEN 0 ELSE 1)]
  IN  [correct |-> c.correct, incorrect |-> c.incorrect, done |-> CountVerdict(c) # Null]

\* The asked letter becomes an item and is answered at once; when it passes the
\* letters with the words undecided, the word of the loop's exit is the next.
RecordLetter(correct, back) ==
  LET s == RecordAnswer(WithBankItem(run, "letter"), correct)
  IN  IF back /\ s.status = "in_progress" /\ s.stage = "word"
      THEN WithBankItem(s, "word") ELSE s

\* The loop's exit to the word: after the last letter, or the deciding one.
LeavesLoop(test) == test.done \/ lesson.queue = 0

AfterLetter(test) ==
  IF LeavesLoop(test) THEN Lesson("item", test, 0)
                      ELSE Lesson("letter", test, lesson.queue - 1)

TestLetterRight ==
  /\ lesson.at = "letter"
  /\ lesson' = AfterLetter(Count(TRUE))
  /\ Turn(RecordLetter(TRUE, Count(TRUE).done))

TestLetterWrong ==
  /\ lesson.at = "letter"
  /\ lesson' = [lesson EXCEPT !.at = "drill", !.test = Count(FALSE)]
  /\ Turn(RecordLetter(FALSE, FALSE))

\* The wrong letter's drill is over.
LeaveLetter ==
  /\ lesson.at = "drill"
  /\ lesson' = AfterLetter(lesson.test)
  /\ \E correct \in BOOLEAN : Turn(RecordAnswer(run, correct))

\* A passage fails a later sweep and is taken out.
Cull ==
  /\ \E p \in live : live' = live \ {p}
  /\ UNCHANGED <<run, lesson, past, early>>

\* A new student, who has no lesson yet, or one who had lessons before.
TestInit ==
  /\ run = NoRun /\ past = <<>> /\ early = FALSE
  /\ \E at \in {"none", "normal"} : lesson = PlainLesson(at)
  /\ live \in SUBSET TestPassages

TestNext ==
  \/ DeliverAgain \/ DeliverAnother \/ DeliverNext \/ AfterTheTest \/ StartRun
  \/ AnswerItem \/ AnswerRest \/ TestLetterRight \/ TestLetterWrong \/ LeaveLetter
  \/ Cull

TestSpec == TestInit /\ [][TestNext]_testVars
-----------------------------------------------------------------------------

Total(c) == c.correct + c.incorrect

\* aser.ts, "an item's outcome is its FIRST answer": every item handed out is
\* counted once, when it is answered; the abandoned ones that were culled are
\* the only ones never counted.
CountedOnce ==
  LET open(t) == IF run.item.stage = t /\ ~run.item.answered THEN 1 ELSE 0
  IN  /\ \A t \in {"letter", "word"} :
           run.used[t] = Total(run.counts[t]) + open(t)
      /\ Total(run.counts["paragraph"]) + open("paragraph")
           <= Cardinality(run.seen \cap Paragraphs)
      /\ Total(run.counts["story"]) + open("story")
           <= Cardinality(run.seen \cap Stories)

\* The outcomes never contradict each other, whatever the order the levels were
\* sat in, and a test that was not cut short has bracketed its result: the next
\* level up was failed, or there is none.
Bracketed ==
  /\ \A t, u \in Stage :
       run.outcomes[t] = "passed" /\ run.outcomes[u] = "failed" => LevelRank[t] < LevelRank[u]
  /\ run.status = "done" /\ ~early =>
       LET r == IF run.result = "beginner" THEN 0 ELSE LevelRank[run.result]
       IN  r = 4 \/ run.outcomes[Stages[r + 1]] = "failed"

=============================================================================
