----------------------------- MODULE LessonMachine -----------------------------
(***************************************************************************)
(* The reading lesson of literacy-lesson.machine.ts: a sentence, the word  *)
(* it is drilled on, and the letters that word got wrong, each with its    *)
(* own retries; or the ASER letter test, which enters at the letters.  One *)
(* step is one answer (one voice note, or one tap on the comprehension     *)
(* question).  How a transcript is judged is the environment's choice; the *)
(* texts of words are left out, as is which media is played.               *)
(***************************************************************************)
EXTENDS Integers, Sequences, FiniteSets

CONSTANTS Letters,        \* the letters a word or the test can ask
          NoImageLetters, \* those without a picture (NO_IMAGE_LETTERS)
          MaxLetters,     \* bound: letters asked in one loop
          PassCorrect,    \* ASER_PASS_CORRECT
          FailIncorrect,  \* ASER_FAIL_INCORRECT
          BankSize        \* letters in an ASER bank

ASSUME LettersAssumption ==
  NoImageLetters \subseteq Letters /\ {"word", "sentence"} \cap Letters = {}
ASSUME AserAssumption ==
  /\ MaxLetters \in Nat /\ PassCorrect \in Nat \ {0}
  /\ FailIncorrect \in Nat \ {0} /\ BankSize \in Nat
  /\ PassCorrect + FailIncorrect - 1 <= BankSize /\ BankSize <= MaxLetters

VARIABLES state,
          sentence,        \* whether this is a sentence lesson
          shortSentence,   \* level = SENTENCE_COMPLETE_LEVEL
          wrongLetters,    \* the letters still to drill, the asked one first
          sentenceErrors, wordErrors, imageErrors, letterErrors,
          letterNoImageErrors,
          aser,            \* aserLetters: the letter test's counts
          pendingCorrect, pendingIncorrect,  \* scores this answer records
          scored           \* ghost: what the exercise has scored so far

counters == <<sentenceErrors, wordErrors, imageErrors, letterErrors,
              letterNoImageErrors>>
kindVars == <<sentence, shortSentence>>
vars == <<state, kindVars, wrongLetters, counters, aser, pendingCorrect,
          pendingIncorrect, scored>>

LetterStates == {"letter", "image", "letterImage", "letterNoImage"}

NoAser == [on |-> FALSE, correct |-> 0, incorrect |-> 0, done |-> TRUE]

\* Letter queues: no letter twice.
Queues(n) ==
  {q \in UNION {[1 .. k -> Letters] : k \in 1 .. n} :
     \A a, b \in DOMAIN q : a # b => q[a] # q[b]}

\* routeWrongLetter; an empty queue has no letter to look up and falls through.
RouteTo(q) ==
  IF q # <<>> /\ Head(q) \in NoImageLetters THEN "letterNoImage" ELSE "letter"

InitWith(s, q, test, isSentence, isShort) ==
  /\ state = s /\ sentence = isSentence /\ shortSentence = isShort
  /\ wrongLetters = q /\ aser = test
  /\ sentenceErrors = 0 /\ wordErrors = 0 /\ imageErrors = 0
  /\ letterErrors = 0 /\ letterNoImageErrors = 0
  /\ pendingCorrect = {} /\ pendingIncorrect = {} /\ scored = {}

\* The start router: the question flow, the letter test, a sentence or a word.
\* A letter test asks the bank's letters that earlier lessons of the run have
\* not asked yet, and carries their counts.
Init ==
  \/ InitWith("comprehension", <<>>, NoAser, TRUE, FALSE)
  \/ \E isShort \in BOOLEAN : InitWith("sentence", <<>>, NoAser, TRUE, isShort)
  \/ InitWith("word", <<>>, NoAser, FALSE, FALSE)
  \/ \E q \in Queues(MaxLetters), c \in 0 .. PassCorrect - 1,
        i \in 0 .. FailIncorrect - 1 :
       /\ Len(q) + c + i = BankSize
       /\ InitWith(RouteTo(q), q,
                   [on |-> TRUE, correct |-> c, incorrect |-> i, done |-> FALSE],
                   FALSE, FALSE)

-----------------------------------------------------------------------------
(* Every answer first clears the pending scores of the one before.         *)

Score(right, wrong) ==
  /\ pendingCorrect' = right /\ pendingIncorrect' = wrong
  /\ scored' = scored \cup right \cup wrong

ScoreNothing == Score({}, {})

\* Read correctly; failed for the second time; failed once, which leads to the
\* drill of one of its words or, with none to blame, to another reading.
SentenceAnswer ==
  /\ state = "sentence"
  /\ UNCHANGED <<kindVars, aser, imageErrors, letterErrors, letterNoImageErrors,
                 wordErrors>>
  /\ \/ /\ state' = IF shortSentence THEN "complete" ELSE "comprehension"
        /\ Score({"sentence"}, {})
        /\ UNCHANGED <<wrongLetters, sentenceErrors>>
     \/ /\ sentenceErrors >= 1 /\ state' = "complete"
        /\ ScoreNothing
        /\ UNCHANGED <<wrongLetters, sentenceErrors>>
     \/ /\ sentenceErrors = 0 /\ state' \in {"word", "sentence"}
        /\ sentenceErrors' = sentenceErrors + 1
        /\ ScoreNothing
        /\ wrongLetters' = IF state' = "word" THEN <<>> ELSE wrongLetters

\* The tap on an option ends the lesson; a voice note asks again.
ComprehensionTap ==
  /\ state = "comprehension" /\ state' = "complete"
  /\ ScoreNothing
  /\ UNCHANGED <<kindVars, wrongLetters, counters, aser>>

ComprehensionVoice ==
  /\ state = "comprehension"
  /\ ScoreNothing
  /\ UNCHANGED <<state, kindVars, wrongLetters, counters, aser>>

\* The letters of the word are credited by its first answer only.
WordCredit == IF wordErrors = 0 THEN {"word"} ELSE {}

WordRight ==
  /\ state = "word"
  /\ state' = IF sentence THEN "sentence" ELSE "complete"
  /\ Score(WordCredit, {})
  /\ UNCHANGED <<kindVars, wrongLetters, counters, aser>>

\* Wrong for the third time: the lesson ends, even inside a sentence.
WordMaxErrors ==
  /\ state = "word" /\ wordErrors >= 2 /\ state' = "complete"
  /\ ScoreNothing
  /\ UNCHANGED <<kindVars, wrongLetters, counters, aser>>

\* Only a matra is wrong, or a letter too many: the letters count as right.
WordNearlyRight ==
  /\ state = "word" /\ wordErrors < 2 /\ wordErrors' = wordErrors + 1
  /\ Score(WordCredit, {})
  /\ UNCHANGED <<state, kindVars, wrongLetters, sentenceErrors, imageErrors,
                 letterErrors, letterNoImageErrors, aser>>

\* A student goes through the letters once; after that the word is asked again.
DrillEveryTime == wordErrors < 2   \* mutant
DrillOnce      == wordErrors = 0

WordLoopBack ==
  /\ state = "word" /\ wordErrors < 2 /\ ~DrillOnce /\ wordErrors' = wordErrors + 1
  /\ ScoreNothing
  /\ UNCHANGED <<state, kindVars, wrongLetters, sentenceErrors, imageErrors,
                 letterErrors, letterNoImageErrors, aser>>

\* The letters the transcript got wrong, none of them twice.
DrillLetters ==
  /\ state = "word" /\ DrillOnce /\ wordErrors' = wordErrors + 1
  /\ wrongLetters' \in Queues(MaxLetters)
  /\ state' = RouteTo(wrongLetters')
  /\ pendingCorrect' = {} /\ pendingIncorrect' = {}
  /\ scored' = scored \ Letters
  /\ UNCHANGED <<kindVars, sentenceErrors, imageErrors, letterErrors,
                 letterNoImageErrors, aser>>

-----------------------------------------------------------------------------
(* The letter loop.                                                        *)

\* aserCountVerdict.
Decided(c, i) == c >= PassCorrect \/ i >= FailIncorrect

\* countAserLetter: an undecided test counts the asked letter's first answer;
\* the answer that decides it leaves only the asked letter in the queue.
Counting == aser.on /\ ~aser.done

Counted(right) ==
  LET c == aser.correct + (IF right THEN 1 ELSE 0)
      i == aser.incorrect + (IF right THEN 0 ELSE 1)
  IN  IF Counting
      THEN [on |-> TRUE, correct |-> c, incorrect |-> i, done |-> Decided(c, i)]
      ELSE aser

QueueAfterCount(right) ==
  IF Counting /\ Counted(right).done THEN <<Head(wrongLetters)>> ELSE wrongLetters

\* aserLetterEndsOnCorrect.
EndsOnCorrect == Counting /\ Decided(aser.correct + 1, aser.incorrect)

LastLetter == Len(wrongLetters) = 1

\* The asked letter leaves queue q: the last one to the word, whose entry
\* empties the queue, another one to the letter after it.
NextLetter(last, q) ==
  /\ wrongLetters' = IF last THEN <<>> ELSE Tail(q)
  /\ state' = IF last THEN "word" ELSE RouteTo(Tail(q))

LetterRight ==
  /\ state = "letter"
  /\ aser' = Counted(TRUE)
  /\ NextLetter(LastLetter \/ EndsOnCorrect, QueueAfterCount(TRUE))
  /\ Score({Head(wrongLetters)}, {})
  /\ UNCHANGED <<kindVars, counters>>

LetterWrong ==
  /\ state = "letter" /\ state' = "image"
  /\ aser' = Counted(FALSE)
  /\ wrongLetters' = QueueAfterCount(FALSE)
  /\ Score({}, {Head(wrongLetters)})
  /\ UNCHANGED <<kindVars, counters>>

\* The picture is named: its error count is left as it is.
ImageRight ==
  /\ state = "image" /\ state' = "letterImage"
  /\ ScoreNothing
  /\ UNCHANGED <<kindVars, wrongLetters, counters, aser>>

SecondImage == imageErrors >= 1

ImageWrong ==
  /\ state = "image"
  /\ IF SecondImage
     THEN state' = "letterImage" /\ imageErrors' = 0
     ELSE state' = "image" /\ imageErrors' = imageErrors + 1
  /\ ScoreNothing
  /\ UNCHANGED <<kindVars, wrongLetters, sentenceErrors, wordErrors, letterErrors,
                 letterNoImageErrors, aser>>

\* The letter is named at last: its error count is left as it is.
LetterImageRight ==
  /\ state = "letterImage"
  /\ NextLetter(LastLetter, wrongLetters)
  /\ ScoreNothing
  /\ UNCHANGED <<kindVars, counters, aser>>

LetterImageWrong ==
  /\ state = "letterImage"
  /\ IF letterErrors >= 2
     THEN letterErrors' = 0 /\ NextLetter(LastLetter, wrongLetters)
     ELSE /\ letterErrors' = letterErrors + 1
          /\ UNCHANGED <<state, wrongLetters>>
  /\ ScoreNothing
  /\ UNCHANGED <<kindVars, sentenceErrors, wordErrors, imageErrors,
                 letterNoImageErrors, aser>>

\* The count a letter without a picture leaves behind.
NoImageErrorsKept  == letterNoImageErrors   \* mutant
NoImageErrorsReset == 0

\* A letter without a picture has two answers; the first is the one that counts.
NoImageFirstRight ==
  /\ state = "letterNoImage" /\ letterNoImageErrors = 0
  /\ aser' = Counted(TRUE)
  /\ NextLetter(LastLetter \/ EndsOnCorrect, QueueAfterCount(TRUE))
  /\ Score({Head(wrongLetters)}, {})
  /\ UNCHANGED <<kindVars, counters>>

NoImageFirstWrong ==
  /\ state = "letterNoImage" /\ letterNoImageErrors = 0
  /\ aser' = Counted(FALSE)
  /\ wrongLetters' = QueueAfterCount(FALSE)
  /\ letterNoImageErrors' = letterNoImageErrors + 1
  /\ Score({}, {Head(wrongLetters)})
  /\ UNCHANGED <<state, kindVars, sentenceErrors, wordErrors, imageErrors,
                 letterErrors>>

NoImageSecond ==
  /\ state = "letterNoImage" /\ letterNoImageErrors >= 1
  /\ NextLetter(LastLetter, wrongLetters)
  /\ letterNoImageErrors' = NoImageErrorsReset
  /\ ScoreNothing
  /\ UNCHANGED <<kindVars, sentenceErrors, wordErrors, imageErrors, letterErrors,
                 aser>>

\* A finished lesson takes no more answers.
Finished == state = "complete" /\ UNCHANGED vars

Next ==
  \/ SentenceAnswer \/ ComprehensionTap \/ ComprehensionVoice
  \/ WordRight \/ WordMaxErrors \/ WordNearlyRight \/ WordLoopBack \/ DrillLetters
  \/ LetterRight \/ LetterWrong \/ ImageRight \/ ImageWrong
  \/ LetterImageRight \/ LetterImageWrong
  \/ NoImageFirstRight \/ NoImageFirstWrong \/ NoImageSecond
  \/ Finished

Spec == Init /\ [][Next]_vars
-----------------------------------------------------------------------------

\* A letter state always has a letter to ask: an empty queue would leave the
\* context without an answer and every further voice note would throw.
AlwaysALetterToAsk ==
  state \in LetterStates =>
    /\ wrongLetters # <<>>
    /\ state = "letterNoImage" <=> Head(wrongLetters) \in NoImageLetters

\* No letter leaves the loop unscored: its first answer always counts, whatever
\* the letters before it did to the counters.
EveryLetterScored ==
  [][/\ state \in LetterStates
     /\ wrongLetters' = <<>> \/ Head(wrongLetters') # Head(wrongLetters)
     => Head(wrongLetters) \in scored']_vars

\* How far a lesson can still go: the answers the letter loop may still take,
\* then the word, then the sentence.
AskedLetterLeft ==
  CASE state = "letter"      -> 6
    [] state = "image"       -> 5 - imageErrors
    [] state = "letterImage" -> 3 - letterErrors
    [] OTHER                 -> 2 - letterNoImageErrors

LettersLeft ==
  IF state \in LetterStates
  THEN 6 * (Len(wrongLetters) - 1) + AskedLetterLeft ELSE 0

WordLeft == IF wordErrors = 0 THEN 6 * MaxLetters + 3 ELSE 3 - wordErrors

AnswersLeft ==
  CASE state = "complete"      -> 0
    [] state = "comprehension" -> 1
    [] state = "sentence"      ->
         IF sentenceErrors = 0 THEN 6 * MaxLetters + 6 ELSE 2
    [] OTHER                   -> LettersLeft + WordLeft + (IF sentence THEN 2 ELSE 0)

\* Every answer brings the lesson closer to its end, but for a voice note where
\* a tap is expected: no sequence of answers keeps a student in a lesson.
LessonShrinks ==
  [][\/ state = "comprehension" /\ state' = "comprehension"
     \/ AnswersLeft' < AnswersLeft /\ AnswersLeft' >= 0]_vars

=============================================================================
