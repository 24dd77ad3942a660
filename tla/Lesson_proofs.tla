---------------------------- MODULE Lesson_proofs -----------------------------
(***************************************************************************)
(* What finds a student's level, what the level gives them to read, and    *)
(* the lesson.                                                             *)
(* The letter loop, for any letters, any thresholds of the letter test and *)
(* queues of any length: there is always a letter to ask, none of them     *)
(* leaves the loop unscored, and every answer brings the lesson closer to  *)
(* its end.                                                                *)
(* The ASER test, for any bank sizes, thresholds, passages and numbers of  *)
(* runs: every item handed out is counted once, and the outcomes bracket   *)
(* the result, wherever the test began and however it jumped.  The plan of *)
(* the lessons, for any bank and windows: no passage is given again while  *)
(* one was never given, and the window a plan looks at tells the truth.    *)
(* A word that was read wrongly, for any words and sounds: the letters to  *)
(* drill are letters of it.  A passage, for any passages, tokens and       *)
(* distances: one more engine never makes a reading worse.                 *)
(***************************************************************************)
EXTENDS LessonMachine, AserRun, LessonPlanning, WordReading, SentenceReading,
        SequenceTheorems, FoldLemmas

-----------------------------------------------------------------------------
(* The letter loop.                                                        *)

Test == [on : BOOLEAN, correct : Nat, incorrect : Nat, done : BOOLEAN]

\* The counters stay within the retries of their questions.
TypesOK ==
  /\ state \in {"sentence", "comprehension", "word", "complete"} \cup LetterStates
  /\ sentence \in BOOLEAN /\ aser \in Test
  /\ sentenceErrors \in 0 .. 1 /\ wordErrors \in 0 .. 2 /\ imageErrors \in 0 .. 1
  /\ letterErrors \in 0 .. 2 /\ letterNoImageErrors \in 0 .. 1
  /\ wrongLetters \in Seq(Letters) /\ Len(wrongLetters) <= MaxLetters

\* Outside of the loop the queue is empty.
QueueInLoop == state \notin LetterStates => wrongLetters = <<>>

\* A letter without a picture starts with no errors.
NoImageFresh == state # "letterNoImage" => letterNoImageErrors = 0

\* A sentence lesson that has reached the word has used up its first reading.
SentenceSpent ==
  sentence /\ state \notin {"sentence", "comprehension", "complete"} => sentenceErrors = 1

LoopInv ==
  TypesOK /\ QueueInLoop /\ NoImageFresh /\ SentenceSpent /\ AlwaysALetterToAsk

\* What the loop has heard: a letter that is asked again was scored before.
HeardInv ==
  state \in {"image", "letterImage"} \/ letterNoImageErrors = 1 =>
    Head(wrongLetters) \in scored

\* What the steps show of one answer: EveryLetterScored and LessonShrinks.
LetterLeaves ==
  /\ state \in LetterStates
  /\ wrongLetters' = <<>> \/ Head(wrongLetters') # Head(wrongLetters)
  => Head(wrongLetters) \in scored'

Shrinks ==
  \/ state = "comprehension" /\ state' = "comprehension"
  \/ AnswersLeft' < AnswersLeft /\ AnswersLeft' >= 0

-----------------------------------------------------------------------------
(* Queues.                                                                 *)

\* A sequence has a first element exactly if it has a length.
LEMMA Nonempty ==
  ASSUME NEW S, NEW s \in Seq(S)
  PROVE  Len(s) \in Nat /\ (s # <<>> <=> Len(s) >= 1)
BY EmptySeq, LenProperties

\* What is left of a queue of several letters.
LEMMA Remainder ==
  ASSUME NEW S, NEW s \in Seq(S), Len(s) > 1
  PROVE  Tail(s) \in Seq(S) /\ Tail(s) # <<>> /\ Len(Tail(s)) = Len(s) - 1
<1>1. s # <<>>
  BY Nonempty
<1>2. Tail(s) \in Seq(S) /\ Len(Tail(s)) = Len(s) - 1
  BY <1>1, HeadTailProperties
<1>3. Len(Tail(s)) >= 1
  <2>1. Len(s) \in Nat
    BY Nonempty
  <2> QED BY <1>2, <2>1
<1>4. Tail(s) # <<>>
  BY <1>2, <1>3, Nonempty
<1> QED BY <1>2, <1>4

\* The queues of a drill are sequences within the bound.
LEMMA QueueLength ==
  ASSUME NEW q \in Queues(MaxLetters)
  PROVE  q \in Seq(Letters) /\ Len(q) \in 1 .. MaxLetters
<1>1. PICK k \in 1 .. MaxLetters : q \in [1 .. k -> Letters]
  BY DEF Queues
<1>2. k \in Nat
  BY AserAssumption
<1> QED BY <1>1, <1>2

\* A queue leads to the state that asks its first letter.
LEMMA Routed ==
  ASSUME NEW q
  PROVE  /\ RouteTo(q) \in {"letter", "letterNoImage"}
         /\ q # <<>> => (RouteTo(q) = "letterNoImage" <=> Head(q) \in NoImageLetters)
BY DEF RouteTo

-----------------------------------------------------------------------------
(* The beginning of a lesson.                                              *)

\* Every way to begin a lesson satisfies the invariant.
LEMMA LoopInit == Init => LoopInv /\ HeardInv
<1> SUFFICES ASSUME Init PROVE LoopInv /\ HeardInv
  OBVIOUS
<1>1. MaxLetters \in Nat /\ <<>> \in Seq(Letters) /\ Len(<<>>) = 0
  BY AserAssumption, EmptySeq
<1>2. NoAser \in Test
  BY DEF NoAser, Test
<1>3. ASSUME NEW s \in {"comprehension", "sentence", "word"}, NEW isSentence \in BOOLEAN,
             NEW isShort \in BOOLEAN, s = "word" => ~isSentence,
             InitWith(s, <<>>, NoAser, isSentence, isShort)
      PROVE  LoopInv /\ HeardInv
  <2>1. TypesOK
    BY <1>1, <1>2, <1>3 DEF InitWith, TypesOK, LetterStates
  <2>2. QueueInLoop /\ NoImageFresh /\ AlwaysALetterToAsk /\ HeardInv
    BY <1>3 DEF InitWith, QueueInLoop, NoImageFresh, AlwaysALetterToAsk, HeardInv,
                LetterStates
  <2>3. SentenceSpent
    BY <1>3 DEF InitWith, SentenceSpent
  <2> QED BY <2>1, <2>2, <2>3 DEF LoopInv
<1>4. ASSUME NEW q \in Queues(MaxLetters), NEW c \in 0 .. PassCorrect - 1,
             NEW i \in 0 .. FailIncorrect - 1,
             InitWith(RouteTo(q), q,
                      [on |-> TRUE, correct |-> c, incorrect |-> i, done |-> FALSE],
                      FALSE, FALSE)
      PROVE  LoopInv /\ HeardInv
  <2>1. q \in Seq(Letters) /\ Len(q) \in 1 .. MaxLetters /\ q # <<>>
    <3>1. q \in Seq(Letters) /\ Len(q) \in 1 .. MaxLetters
      BY QueueLength
    <3>2. Len(q) >= 1
      BY <1>1, <3>1
    <3> QED BY <3>1, <3>2, Nonempty
  <2>2. [on |-> TRUE, correct |-> c, incorrect |-> i, done |-> FALSE] \in Test
    BY AserAssumption DEF Test
  <2>3. /\ RouteTo(q) \in {"letter", "letterNoImage"}
        /\ RouteTo(q) = "letterNoImage" <=> Head(q) \in NoImageLetters
    BY <2>1, Routed
  <2>4. TypesOK
    <3>1. /\ state = RouteTo(q) /\ wrongLetters = q /\ sentence \in BOOLEAN /\ aser \in Test
          /\ sentenceErrors = 0 /\ wordErrors = 0 /\ imageErrors = 0
          /\ letterErrors = 0 /\ letterNoImageErrors = 0
      BY <1>4, <2>2 DEF InitWith
    <3>2. Len(q) <= MaxLetters
      BY <1>1, <2>1
    <3> QED BY <2>1, <2>3, <3>1, <3>2 DEF TypesOK, LetterStates
  <2>5. QueueInLoop /\ NoImageFresh /\ AlwaysALetterToAsk /\ HeardInv
    BY <1>4, <2>1, <2>3 DEF InitWith, QueueInLoop, NoImageFresh, AlwaysALetterToAsk,
                            HeardInv, LetterStates
  <2>6. SentenceSpent
    BY <1>4 DEF InitWith, SentenceSpent
  <2> QED BY <2>4, <2>5, <2>6 DEF LoopInv
<1>5. \/ InitWith("comprehension", <<>>, NoAser, TRUE, FALSE)
      \/ \E isShort \in BOOLEAN : InitWith("sentence", <<>>, NoAser, TRUE, isShort)
      \/ InitWith("word", <<>>, NoAser, FALSE, FALSE)
      \/ \E q \in Queues(MaxLetters), c \in 0 .. PassCorrect - 1, i \in 0 .. FailIncorrect - 1 :
           InitWith(RouteTo(q), q,
                    [on |-> TRUE, correct |-> c, incorrect |-> i, done |-> FALSE],
                    FALSE, FALSE)
  BY DEF Init
<1> QED BY <1>3, <1>4, <1>5

-----------------------------------------------------------------------------
(* The effects that several answers share.                                 *)

\* Counting an answer keeps the test a test.
LEMMA CountedType ==
  ASSUME aser \in Test, NEW right \in BOOLEAN
  PROVE  Counted(right) \in Test
<1>1. CASE ~Counting
  BY <1>1 DEF Counted
<1>2. CASE Counting
  <2> DEFINE c == aser.correct + (IF right THEN 1 ELSE 0)
             i == aser.incorrect + (IF right THEN 0 ELSE 1)
  <2>1. c \in Nat /\ i \in Nat
    BY DEF Test
  <2>2. Decided(c, i) \in BOOLEAN
    BY DEF Decided
  <2>3. Counted(right) = [on |-> TRUE, correct |-> c, incorrect |-> i, done |-> Decided(c, i)]
    BY <1>2 DEF Counted
  <2> HIDE DEF c, i
  <2> QED BY <2>1, <2>2, <2>3 DEF Test
<1> QED BY <1>1, <1>2

\* What counting leaves of the queue begins with the letter that was asked.
LEMMA CountedQueue ==
  ASSUME wrongLetters \in Seq(Letters), wrongLetters # <<>>, NEW right \in BOOLEAN
  PROVE  /\ QueueAfterCount(right) \in Seq(Letters)
         /\ Len(QueueAfterCount(right)) \in 1 .. Len(wrongLetters)
         /\ Head(QueueAfterCount(right)) = Head(wrongLetters)
         /\ Len(QueueAfterCount(right)) \in {1, Len(wrongLetters)}
<1>1. Head(wrongLetters) \in Letters /\ Len(wrongLetters) \in Nat \ {0}
  OBVIOUS
<1>2. <<Head(wrongLetters)>> \in Seq(Letters) /\ Len(<<Head(wrongLetters)>>) = 1
      /\ Head(<<Head(wrongLetters)>>) = Head(wrongLetters)
  BY <1>1
<1> QED BY <1>1, <1>2 DEF QueueAfterCount

\* The last letter of the loop is the one that is answered as such: a right answer
\* that decides the test leaves no other.
LEMMA LastOfQueue ==
  ASSUME aser \in Test, wrongLetters \in Seq(Letters), wrongLetters # <<>>,
         ~(LastLetter \/ EndsOnCorrect)
  PROVE  QueueAfterCount(TRUE) = wrongLetters /\ Len(wrongLetters) > 1
<1>1. Len(wrongLetters) > 1
  <2>1. Len(wrongLetters) \in Nat /\ Len(wrongLetters) >= 1
    BY Nonempty
  <2> QED BY <2>1 DEF LastLetter
<1>2. ASSUME Counting PROVE ~Counted(TRUE).done
  <2>1. aser.correct \in Nat /\ aser.incorrect \in Nat
    BY DEF Test
  <2>2. Counted(TRUE).done = Decided(aser.correct + 1, aser.incorrect)
    BY <1>2, <2>1 DEF Counted
  <2> QED BY <1>2, <2>2 DEF EndsOnCorrect
<1> QED BY <1>1, <1>2 DEF QueueAfterCount

\* The step to the next letter, or to the word.
LEMMA NextLetterStep ==
  ASSUME NEW last \in BOOLEAN, NEW q \in Seq(Letters), Len(q) <= MaxLetters,
         ~last => Len(q) > 1, NextLetter(last, q)
  PROVE  /\ state' \in {"letter", "letterNoImage", "word"}
         /\ wrongLetters' \in Seq(Letters)
         /\ last => state' = "word" /\ wrongLetters' = <<>>
         /\ ~last => /\ state' # "word" /\ wrongLetters' # <<>>
                     /\ Len(wrongLetters') = Len(q) - 1
                     /\ (state' = "letterNoImage" <=> Head(wrongLetters') \in NoImageLetters)
<1>1. CASE last
  BY <1>1, EmptySeq DEF NextLetter
<1>2. CASE ~last
  <2>1. /\ Tail(q) \in Seq(Letters) /\ Tail(q) # <<>>
        /\ Len(Tail(q)) = Len(q) - 1
    BY <1>2, Remainder
  <2>2. wrongLetters' = Tail(q) /\ state' = RouteTo(Tail(q))
    BY <1>2 DEF NextLetter
  <2> QED BY <1>2, <2>1, <2>2, Routed
<1> QED BY <1>1, <1>2

\* An answer within the loop, or the last one of it, leaves the word and the sentence
\* as far away as before: what counts is how far the loop is from its end.
LEMMA LoopShrinks ==
  ASSUME TypesOK, MaxLetters \in Nat,
         state \in LetterStates, state' \in LetterStates \cup {"word"},
         sentence' = sentence, wordErrors' = wordErrors,
         LettersLeft \in Nat, LettersLeft' \in Nat, LettersLeft' < LettersLeft
  PROVE  Shrinks
<1>1. PICK rest \in Nat : rest = WordLeft + (IF sentence THEN 2 ELSE 0)
  <2>1. WordLeft + (IF sentence THEN 2 ELSE 0) \in Nat
    BY DEF WordLeft, TypesOK
  <2> QED BY <2>1
<1>2. AnswersLeft = LettersLeft + rest
  <2>1. WordLeft \in Nat
    BY DEF WordLeft, TypesOK
  <2>2. AnswersLeft = LettersLeft + WordLeft + (IF sentence THEN 2 ELSE 0)
    BY DEF AnswersLeft, LetterStates
  <2> QED BY <1>1, <2>1, <2>2
<1>3. AnswersLeft' = LettersLeft' + rest
  <2>1. WordLeft \in Nat /\ WordLeft' = WordLeft
    BY DEF WordLeft, TypesOK
  <2>2. AnswersLeft' = LettersLeft' + WordLeft' + (IF sentence' THEN 2 ELSE 0)
    BY DEF AnswersLeft, LetterStates
  <2> QED BY <1>1, <2>1, <2>2
<1>4. AnswersLeft' < AnswersLeft /\ AnswersLeft' >= 0
  BY <1>1, <1>2, <1>3
<1> QED BY <1>4 DEF Shrinks

-----------------------------------------------------------------------------
(* One answer.                                                             *)

\* Every answer keeps the invariant, drops no letter unscored and brings the lesson
\* closer to its end.
LEMMA OneAnswer ==
  ASSUME LoopInv, HeardInv, Next
  PROVE  LoopInv' /\ HeardInv' /\ LetterLeaves /\ (Shrinks \/ UNCHANGED vars)
<1> USE DEF LoopInv
<1>1. /\ MaxLetters \in Nat /\ <<>> \in Seq(Letters) /\ Len(<<>>) = 0
      /\ Len(wrongLetters) \in Nat /\ (wrongLetters # <<>> <=> Len(wrongLetters) >= 1)
  BY AserAssumption, EmptySeq, Nonempty DEF TypesOK
<1>2. CASE SentenceAnswer
  <2>1. /\ state = "sentence" /\ wrongLetters = <<>> /\ letterNoImageErrors = 0
        /\ state' \in {"complete", "comprehension", "word", "sentence"}
        /\ wrongLetters' = <<>> /\ sentenceErrors' \in 0 .. 1
        /\ state' \in {"word", "sentence"} => sentenceErrors = 0 /\ sentenceErrors' = 1
        /\ UNCHANGED <<sentence, aser, imageErrors, letterErrors, letterNoImageErrors,
                       wordErrors>>
    BY <1>2 DEF SentenceAnswer, TypesOK, QueueInLoop, NoImageFresh, LetterStates, kindVars
  <2>2. TypesOK'
    BY <1>1, <2>1 DEF TypesOK
  <2>3. (QueueInLoop /\ NoImageFresh /\ AlwaysALetterToAsk /\ HeardInv)' /\ LetterLeaves
    BY <2>1 DEF QueueInLoop, NoImageFresh, AlwaysALetterToAsk, HeardInv, LetterStates,
                LetterLeaves
  <2>4. SentenceSpent'
    BY <2>1 DEF SentenceSpent
  <2>5. Shrinks
    BY <1>1, <2>1, <2>2 DEF Shrinks, AnswersLeft, LettersLeft, WordLeft, LetterStates,
                            TypesOK
  <2> QED BY <2>2, <2>3, <2>4, <2>5
<1>3. CASE ComprehensionTap \/ ComprehensionVoice
  <2>1. /\ state = "comprehension" /\ state' \in {"complete", "comprehension"}
        /\ wrongLetters = <<>> /\ letterNoImageErrors = 0
        /\ UNCHANGED <<sentence, wrongLetters, sentenceErrors, wordErrors, imageErrors,
                       letterErrors, letterNoImageErrors, aser>>
    BY <1>3, <1>1 DEF ComprehensionTap, ComprehensionVoice, TypesOK, QueueInLoop,
                      NoImageFresh, SentenceSpent, LetterStates, kindVars, counters,
                      Score, ScoreNothing
  <2>2. TypesOK'
    BY <1>1, <2>1 DEF TypesOK, LetterStates
  <2>3. (QueueInLoop /\ NoImageFresh /\ AlwaysALetterToAsk /\ HeardInv)' /\ LetterLeaves
    BY <2>1 DEF QueueInLoop, NoImageFresh, AlwaysALetterToAsk, HeardInv, LetterStates,
                LetterLeaves
  <2>4. SentenceSpent'
    BY <2>1 DEF SentenceSpent
  <2>5. Shrinks
    BY <1>1, <2>1, <2>2 DEF Shrinks, AnswersLeft, LettersLeft, AskedLetterLeft,
                            WordLeft, LetterStates, TypesOK
  <2> QED BY <2>2, <2>3, <2>4, <2>5
<1>4. CASE WordRight \/ WordMaxErrors
  <2>1. /\ state = "word" /\ state' \in {"complete", "sentence"}
        /\ state' = "sentence" => sentence /\ sentenceErrors = 1
        /\ wrongLetters = <<>> /\ letterNoImageErrors = 0
        /\ UNCHANGED <<sentence, wrongLetters, sentenceErrors, wordErrors, imageErrors,
                       letterErrors, letterNoImageErrors, aser>>
    BY <1>4, <1>1 DEF WordRight, WordMaxErrors, TypesOK, QueueInLoop, NoImageFresh,
                      SentenceSpent, LetterStates, kindVars, counters, Score,
                      ScoreNothing
  <2>2. TypesOK'
    BY <1>1, <2>1 DEF TypesOK, LetterStates
  <2>3. (QueueInLoop /\ NoImageFresh /\ AlwaysALetterToAsk /\ HeardInv)' /\ LetterLeaves
    BY <2>1 DEF QueueInLoop, NoImageFresh, AlwaysALetterToAsk, HeardInv, LetterStates,
                LetterLeaves
  <2>4. SentenceSpent'
    BY <2>1 DEF SentenceSpent
  <2>5. Shrinks
    BY <1>1, <2>1, <2>2 DEF Shrinks, AnswersLeft, LettersLeft, AskedLetterLeft,
                            WordLeft, LetterStates, TypesOK
  <2> QED BY <2>2, <2>3, <2>4, <2>5
<1>5. CASE WordNearlyRight \/ WordLoopBack
  <2>1. /\ state = "word" /\ state' = "word" /\ (sentence => sentenceErrors = 1)
        /\ wrongLetters = <<>> /\ letterNoImageErrors = 0
        /\ wordErrors < 2 /\ wordErrors' = wordErrors + 1
        /\ UNCHANGED <<sentence, wrongLetters, sentenceErrors, imageErrors, letterErrors,
                       letterNoImageErrors, aser>>
    BY <1>5, <1>1 DEF WordNearlyRight, WordLoopBack, TypesOK, QueueInLoop,
                      NoImageFresh, SentenceSpent, LetterStates, kindVars, counters,
                      Score, ScoreNothing
  <2>2. TypesOK'
    BY <1>1, <2>1 DEF TypesOK, LetterStates
  <2>3. (QueueInLoop /\ NoImageFresh /\ AlwaysALetterToAsk /\ HeardInv)' /\ LetterLeaves
    BY <2>1 DEF QueueInLoop, NoImageFresh, AlwaysALetterToAsk, HeardInv, LetterStates,
                LetterLeaves
  <2>4. SentenceSpent'
    BY <2>1 DEF SentenceSpent
  <2>5. Shrinks
    BY <1>1, <2>1, <2>2 DEF Shrinks, AnswersLeft, LettersLeft, AskedLetterLeft,
                            WordLeft, LetterStates, TypesOK
  <2> QED BY <2>2, <2>3, <2>4, <2>5
<1>6. CASE DrillLetters
  <2>1. /\ state = "word" /\ (sentence => sentenceErrors = 1)
        /\ letterNoImageErrors = 0 /\ wordErrors = 0 /\ wordErrors' = 1
        /\ UNCHANGED <<sentence, sentenceErrors, imageErrors, letterErrors,
                       letterNoImageErrors, aser>>
    BY <1>6 DEF DrillLetters, DrillOnce, TypesOK, QueueInLoop, NoImageFresh,
                SentenceSpent, LetterStates, kindVars, counters, Score, ScoreNothing
  <2>2. PICK q \in Queues(MaxLetters) : wrongLetters' = q /\ state' = RouteTo(q)
    BY <1>6 DEF DrillLetters
  <2>3. q \in Seq(Letters) /\ Len(q) >= 1 /\ Len(q) <= MaxLetters
    BY <1>1, QueueLength
  <2>4. /\ q # <<>> /\ state' \in {"letter", "letterNoImage"}
        /\ state' = "letterNoImage" <=> Head(q) \in NoImageLetters
    BY <2>2, <2>3, Nonempty, Routed
  <2>5. TypesOK'
    BY <1>1, <2>1, <2>2, <2>3, <2>4 DEF TypesOK, LetterStates
  <2>6. (QueueInLoop /\ NoImageFresh /\ AlwaysALetterToAsk /\ HeardInv)' /\ LetterLeaves
    BY <2>1, <2>2, <2>4 DEF QueueInLoop, NoImageFresh, AlwaysALetterToAsk, HeardInv,
                            LetterStates, LetterLeaves
  <2>7. SentenceSpent'
    BY <2>1, <2>4 DEF SentenceSpent
  <2>8. Len(q) \in Nat
    BY <2>3, Nonempty
  <2>9. Shrinks
    BY <1>1, <2>1, <2>2, <2>3, <2>4, <2>5, <2>8
       DEF Shrinks, AnswersLeft, LettersLeft, AskedLetterLeft, WordLeft, LetterStates, TypesOK
  <2> QED BY <2>5, <2>6, <2>7, <2>9
<1>7. CASE LetterRight
  <2>1. /\ state = "letter" /\ letterNoImageErrors = 0
        /\ aser' = Counted(TRUE) /\ NextLetter(LastLetter \/ EndsOnCorrect, QueueAfterCount(TRUE))
        /\ scored' = scored \cup {Head(wrongLetters)}
        /\ UNCHANGED <<sentence, sentenceErrors, wordErrors, imageErrors, letterErrors,
                       letterNoImageErrors>>
    BY <1>7 DEF LetterRight, TypesOK, QueueInLoop, NoImageFresh, SentenceSpent,
                LetterStates, kindVars, counters, Score, ScoreNothing
  <2>2. wrongLetters # <<>> /\ Len(wrongLetters) >= 1 /\ (sentence => sentenceErrors = 1)
    BY <1>1, <2>1 DEF AlwaysALetterToAsk, SentenceSpent, LetterStates
  <2>3. aser' \in Test
    BY <2>1, CountedType DEF TypesOK
  <2>4. PICK last \in BOOLEAN : last = (LastLetter \/ EndsOnCorrect)
    BY DEF LastLetter, EndsOnCorrect, Counting, Decided
  <2>5. PICK q : q = QueueAfterCount(TRUE)
    OBVIOUS
  <2>6. /\ q \in Seq(Letters) /\ Len(q) <= Len(wrongLetters) /\ Len(q) \in Nat
        /\ ~last => Len(q) > 1
    <3>1. /\ QueueAfterCount(TRUE) \in Seq(Letters)
          /\ Len(QueueAfterCount(TRUE)) \in 1 .. Len(wrongLetters)
      BY <2>2, CountedQueue DEF TypesOK
    <3>2. ~last => QueueAfterCount(TRUE) = wrongLetters /\ Len(wrongLetters) > 1
      BY <2>2, <2>4, LastOfQueue DEF TypesOK
    <3>3. /\ q \in Seq(Letters) /\ Len(q) \in 1 .. Len(wrongLetters)
          /\ ~last => Len(q) > 1
      BY <2>5, <3>1, <3>2
    <3> QED BY <1>1, <3>3
  <2>7. NextLetter(last, q) /\ Len(q) <= MaxLetters
    <3>1. NextLetter(last, q)
      BY <2>1, <2>4, <2>5
    <3>2. Len(q) <= MaxLetters
      BY <1>1, <2>6 DEF TypesOK
    <3> QED BY <3>1, <3>2
  <2>8. /\ state' \in {"letter", "letterNoImage", "word"}
        /\ wrongLetters' \in Seq(Letters)
        /\ last => state' = "word" /\ wrongLetters' = <<>>
        /\ ~last => /\ state' # "word" /\ wrongLetters' # <<>>
                    /\ Len(wrongLetters') = Len(q) - 1
                    /\ (state' = "letterNoImage" <=> Head(wrongLetters') \in NoImageLetters)
    BY <2>6, <2>7, NextLetterStep
  <2>9. Len(wrongLetters') \in Nat /\ Len(wrongLetters') <= MaxLetters
    BY <1>1, <2>6, <2>7, <2>8, Nonempty
  <2>10. TypesOK'
    BY <2>1, <2>3, <2>8, <2>9 DEF TypesOK, LetterStates
  <2>11. (QueueInLoop /\ NoImageFresh /\ AlwaysALetterToAsk /\ HeardInv)' /\ LetterLeaves
    BY <2>1, <2>8 DEF QueueInLoop, NoImageFresh, AlwaysALetterToAsk, HeardInv,
                     LetterStates, LetterLeaves
  <2>12. SentenceSpent'
    BY <2>1, <2>2 DEF SentenceSpent
  <2>13. LettersLeft \in Nat /\ LettersLeft > 6 * (Len(wrongLetters) - 1)
    BY <1>1, <2>1, <2>2 DEF LettersLeft, AskedLetterLeft, LetterStates, TypesOK
  <2>14. LettersLeft' \in Nat /\ LettersLeft' <= 6 * (Len(wrongLetters) - 1)
    <3>1. CASE state' = "word"
      BY <1>1, <2>2, <3>1 DEF LettersLeft, LetterStates
    <3>2. CASE state' \in {"letter", "letterNoImage"}
      <4>1. Len(wrongLetters') >= 1 /\ Len(wrongLetters') <= Len(wrongLetters) - 1
        BY <1>1, <2>6, <2>8, <2>9, <3>2
      <4> QED BY <1>1, <2>1, <2>9, <3>2, <4>1 DEF LettersLeft, AskedLetterLeft, LetterStates
    <3> QED BY <2>8, <3>1, <3>2
  <2>15. Shrinks
    BY <1>1, <2>1, <2>8, <2>10, <2>13, <2>14, LoopShrinks DEF LetterStates
  <2> QED BY <2>10, <2>11, <2>12, <2>15
<1>8. CASE NoImageFirstRight
  <2>1. /\ state = "letterNoImage" /\ letterNoImageErrors = 0
        /\ aser' = Counted(TRUE) /\ NextLetter(LastLetter \/ EndsOnCorrect, QueueAfterCount(TRUE))
        /\ scored' = scored \cup {Head(wrongLetters)}
        /\ UNCHANGED <<sentence, sentenceErrors, wordErrors, imageErrors, letterErrors,
                       letterNoImageErrors>>
    BY <1>8 DEF NoImageFirstRight, TypesOK, QueueInLoop, NoImageFresh, SentenceSpent,
                LetterStates, kindVars, counters, Score, ScoreNothing
  <2>2. wrongLetters # <<>> /\ Len(wrongLetters) >= 1 /\ (sentence => sentenceErrors = 1)
    BY <1>1, <2>1 DEF AlwaysALetterToAsk, SentenceSpent, LetterStates
  <2>3. aser' \in Test
    BY <2>1, CountedType DEF TypesOK
  <2>4. PICK last \in BOOLEAN : last = (LastLetter \/ EndsOnCorrect)
    BY DEF LastLetter, EndsOnCorrect, Counting, Decided
  <2>5. PICK q : q = QueueAfterCount(TRUE)
    OBVIOUS
  <2>6. /\ q \in Seq(Letters) /\ Len(q) <= Len(wrongLetters) /\ Len(q) \in Nat
        /\ ~last => Len(q) > 1
    <3>1. /\ QueueAfterCount(TRUE) \in Seq(Letters)
          /\ Len(QueueAfterCount(TRUE)) \in 1 .. Len(wrongLetters)
      BY <2>2, CountedQueue DEF TypesOK
    <3>2. ~last => QueueAfterCount(TRUE) = wrongLetters /\ Len(wrongLetters) > 1
      BY <2>2, <2>4, LastOfQueue DEF TypesOK
    <3>3. /\ q \in Seq(Letters) /\ Len(q) \in 1 .. Len(wrongLetters)
          /\ ~last => Len(q) > 1
      BY <2>5, <3>1, <3>2
    <3> QED BY <1>1, <3>3
  <2>7. NextLetter(last, q) /\ Len(q) <= MaxLetters
    <3>1. NextLetter(last, q)
      BY <2>1, <2>4, <2>5
    <3>2. Len(q) <= MaxLetters
      BY <1>1, <2>6 DEF TypesOK
    <3> QED BY <3>1, <3>2
  <2>8. /\ state' \in {"letter", "letterNoImage", "word"}
        /\ wrongLetters' \in Seq(Letters)
        /\ last => state' = "word" /\ wrongLetters' = <<>>
        /\ ~last => /\ state' # "word" /\ wrongLetters' # <<>>
                    /\ Len(wrongLetters') = Len(q) - 1
                    /\ (state' = "letterNoImage" <=> Head(wrongLetters') \in NoImageLetters)
    BY <2>6, <2>7, NextLetterStep
  <2>9. Len(wrongLetters') \in Nat /\ Len(wrongLetters') <= MaxLetters
    BY <1>1, <2>6, <2>7, <2>8, Nonempty
  <2>10. TypesOK'
    BY <2>1, <2>3, <2>8, <2>9 DEF TypesOK, LetterStates
  <2>11. (QueueInLoop /\ NoImageFresh /\ AlwaysALetterToAsk /\ HeardInv)' /\ LetterLeaves
    BY <2>1, <2>8 DEF QueueInLoop, NoImageFresh, AlwaysALetterToAsk, HeardInv,
                     LetterStates, LetterLeaves
  <2>12. SentenceSpent'
    BY <2>1, <2>2 DEF SentenceSpent
  <2>13. LettersLeft \in Nat /\ LettersLeft > 6 * (Len(wrongLetters) - 1)
    BY <1>1, <2>1, <2>2 DEF LettersLeft, AskedLetterLeft, LetterStates, TypesOK
  <2>14. LettersLeft' \in Nat /\ LettersLeft' <= 6 * (Len(wrongLetters) - 1)
    <3>1. CASE state' = "word"
      BY <1>1, <2>2, <3>1 DEF LettersLeft, LetterStates
    <3>2. CASE state' \in {"letter", "letterNoImage"}
      <4>1. Len(wrongLetters') >= 1 /\ Len(wrongLetters') <= Len(wrongLetters) - 1
        BY <1>1, <2>6, <2>8, <2>9, <3>2
      <4> QED BY <1>1, <2>1, <2>9, <3>2, <4>1 DEF LettersLeft, AskedLetterLeft, LetterStates
    <3> QED BY <2>8, <3>1, <3>2
  <2>15. Shrinks
    BY <1>1, <2>1, <2>8, <2>10, <2>13, <2>14, LoopShrinks DEF LetterStates
  <2> QED BY <2>10, <2>11, <2>12, <2>15
<1>9. CASE LetterWrong
  <2>1. /\ state = "letter" /\ state' = "image" /\ letterNoImageErrors = 0
        /\ aser' = Counted(FALSE) /\ wrongLetters' = QueueAfterCount(FALSE)
        /\ scored' = scored \cup {Head(wrongLetters)} /\ letterNoImageErrors' = 0
        /\ UNCHANGED <<sentence, sentenceErrors, wordErrors, imageErrors, letterErrors>>
    BY <1>9 DEF LetterWrong, TypesOK, QueueInLoop, NoImageFresh, SentenceSpent,
                LetterStates, kindVars, counters, Score, ScoreNothing
  <2>2. /\ wrongLetters # <<>> /\ Len(wrongLetters) >= 1 /\ (sentence => sentenceErrors = 1)
        /\ state = "letterNoImage" <=> Head(wrongLetters) \in NoImageLetters
    BY <1>1, <2>1 DEF AlwaysALetterToAsk, SentenceSpent, LetterStates
  <2>3. aser' \in Test
    BY <2>1, CountedType DEF TypesOK
  <2>4. /\ wrongLetters' \in Seq(Letters) /\ Len(wrongLetters') \in 1 .. Len(wrongLetters)
        /\ Head(wrongLetters') = Head(wrongLetters)
    BY <2>1, <2>2, CountedQueue DEF TypesOK
  <2>5. /\ Len(wrongLetters') \in Nat /\ Len(wrongLetters') >= 1
        /\ Len(wrongLetters') <= Len(wrongLetters) /\ wrongLetters' # <<>>
    <3>1. /\ Len(wrongLetters') \in Nat /\ Len(wrongLetters') >= 1
          /\ Len(wrongLetters') <= Len(wrongLetters)
      BY <1>1, <2>4
    <3> QED BY <2>4, <3>1, Nonempty
  <2>6. TypesOK'
    <3>1. Len(wrongLetters') <= MaxLetters
      BY <1>1, <2>5 DEF TypesOK
    <3>2. state' \in LetterStates /\ letterNoImageErrors' \in 0 .. 1
      BY <2>1 DEF LetterStates
    <3>3. /\ sentence' \in BOOLEAN /\ sentenceErrors' \in 0 .. 1 /\ wordErrors' \in 0 .. 2
          /\ imageErrors' \in 0 .. 1 /\ letterErrors' \in 0 .. 2
      BY <2>1 DEF TypesOK
    <3> QED BY <2>3, <2>4, <3>1, <3>2, <3>3 DEF TypesOK
  <2>7. (QueueInLoop /\ NoImageFresh /\ AlwaysALetterToAsk /\ HeardInv)' /\ LetterLeaves
    BY <2>1, <2>2, <2>4, <2>5 DEF QueueInLoop, NoImageFresh, AlwaysALetterToAsk, HeardInv,
                                  LetterStates, LetterLeaves
  <2>8. SentenceSpent'
    BY <2>1, <2>2 DEF SentenceSpent
  <2>9. /\ LettersLeft \in Nat /\ LettersLeft' \in Nat /\ LettersLeft' < LettersLeft
    <3>1. LettersLeft = 6 * (Len(wrongLetters) - 1) + 6
      BY <2>1 DEF LettersLeft, AskedLetterLeft, LetterStates
    <3>2. LettersLeft' = 6 * (Len(wrongLetters') - 1) + (5 - imageErrors)
      BY <2>1 DEF LettersLeft, AskedLetterLeft, LetterStates
    <3>3. imageErrors \in 0 .. 1
      BY DEF TypesOK
    <3> QED BY <1>1, <2>2, <2>5, <3>1, <3>2, <3>3
  <2>10. Shrinks
    BY <1>1, <2>1, <2>6, <2>9, LoopShrinks DEF LetterStates
  <2> QED BY <2>6, <2>7, <2>8, <2>10
<1>10. CASE NoImageFirstWrong
  <2>1. /\ state = "letterNoImage" /\ state' = "letterNoImage" /\ letterNoImageErrors = 0
        /\ aser' = Counted(FALSE) /\ wrongLetters' = QueueAfterCount(FALSE)
        /\ scored' = scored \cup {Head(wrongLetters)} /\ letterNoImageErrors' = 1
        /\ UNCHANGED <<sentence, sentenceErrors, wordErrors, imageErrors, letterErrors>>
    BY <1>10 DEF NoImageFirstWrong, TypesOK, QueueInLoop, NoImageFresh, SentenceSpent,
                 LetterStates, kindVars, counters, Score, ScoreNothing
  <2>2. /\ wrongLetters # <<>> /\ Len(wrongLetters) >= 1 /\ (sentence => sentenceErrors = 1)
        /\ state = "letterNoImage" <=> Head(wrongLetters) \in NoImageLetters
    BY <1>1, <2>1 DEF AlwaysALetterToAsk, SentenceSpent, LetterStates
  <2>3. aser' \in Test
    BY <2>1, CountedType DEF TypesOK
  <2>4. /\ wrongLetters' \in Seq(Letters) /\ Len(wrongLetters') \in 1 .. Len(wrongLetters)
        /\ Head(wrongLetters') = Head(wrongLetters)
    BY <2>1, <2>2, CountedQueue DEF TypesOK
  <2>5. /\ Len(wrongLetters') \in Nat /\ Len(wrongLetters') >= 1
        /\ Len(wrongLetters') <= Len(wrongLetters) /\ wrongLetters' # <<>>
    <3>1. /\ Len(wrongLetters') \in Nat /\ Len(wrongLetters') >= 1
          /\ Len(wrongLetters') <= Len(wrongLetters)
      BY <1>1, <2>4
    <3> QED BY <2>4, <3>1, Nonempty
  <2>6. TypesOK'
    <3>1. Len(wrongLetters') <= MaxLetters
      BY <1>1, <2>5 DEF TypesOK
    <3>2. state' \in LetterStates /\ letterNoImageErrors' \in 0 .. 1
      BY <2>1 DEF LetterStates
    <3>3. /\ sentence' \in BOOLEAN /\ sentenceErrors' \in 0 .. 1 /\ wordErrors' \in 0 .. 2
          /\ imageErrors' \in 0 .. 1 /\ letterErrors' \in 0 .. 2
      BY <2>1 DEF TypesOK
    <3> QED BY <2>3, <2>4, <3>1, <3>2, <3>3 DEF TypesOK
  <2>7. (QueueInLoop /\ NoImageFresh /\ AlwaysALetterToAsk /\ HeardInv)' /\ LetterLeaves
    BY <2>1, <2>2, <2>4, <2>5 DEF QueueInLoop, NoImageFresh, AlwaysALetterToAsk, HeardInv,
                                  LetterStates, LetterLeaves
  <2>8. SentenceSpent'
    BY <2>1, <2>2 DEF SentenceSpent
  <2>9. /\ LettersLeft \in Nat /\ LettersLeft' \in Nat /\ LettersLeft' < LettersLeft
    <3>1. LettersLeft = 6 * (Len(wrongLetters) - 1) + 2
      BY <2>1 DEF LettersLeft, AskedLetterLeft, LetterStates
    <3>2. LettersLeft' = 6 * (Len(wrongLetters') - 1) + 1
      BY <2>1 DEF LettersLeft, AskedLetterLeft, LetterStates
    <3>3. imageErrors \in 0 .. 1
      BY DEF TypesOK
    <3> QED BY <1>1, <2>2, <2>5, <3>1, <3>2, <3>3
  <2>10. Shrinks
    BY <1>1, <2>1, <2>6, <2>9, LoopShrinks DEF LetterStates
  <2> QED BY <2>6, <2>7, <2>8, <2>10
<1>11. CASE ImageRight \/ ImageWrong
  <2>1. /\ state = "image" /\ letterNoImageErrors = 0 /\ state' \in {"image", "letterImage"}
        /\ imageErrors' \in 0 .. 1
        /\ state' = "image" => imageErrors = 0 /\ imageErrors' = 1
        /\ Head(wrongLetters) \in scored /\ scored' = scored
        /\ wrongLetters # <<>> /\ Head(wrongLetters) \notin NoImageLetters
        /\ sentence => sentenceErrors = 1
        /\ UNCHANGED <<sentence, wrongLetters, sentenceErrors, wordErrors, letterErrors,
                       letterNoImageErrors, aser>>
    BY <1>11 DEF ImageRight, ImageWrong, SecondImage, AlwaysALetterToAsk, HeardInv,
                TypesOK, QueueInLoop, NoImageFresh, SentenceSpent, LetterStates,
                kindVars, counters, Score, ScoreNothing
  <2>2. TypesOK'
    BY <1>1, <2>1 DEF TypesOK, LetterStates
  <2>3. (QueueInLoop /\ NoImageFresh /\ AlwaysALetterToAsk /\ HeardInv)' /\ LetterLeaves
    BY <2>1 DEF QueueInLoop, NoImageFresh, AlwaysALetterToAsk, HeardInv, LetterStates,
                LetterLeaves
  <2>4. SentenceSpent'
    BY <2>1 DEF SentenceSpent
  <2>5. LettersLeft \in Nat /\ LettersLeft' \in Nat /\ LettersLeft' < LettersLeft
    BY <1>1, <2>1, <2>2 DEF LettersLeft, AskedLetterLeft, LetterStates, TypesOK
  <2>6. Shrinks
    BY <1>1, <2>1, <2>2, <2>5, LoopShrinks DEF LetterStates
  <2> QED BY <2>2, <2>3, <2>4, <2>6
<1>12. CASE NoImageSecond
  <2>1. /\ state = "letterNoImage" /\ Head(wrongLetters) \in scored /\ scored' = scored
        /\ NextLetter(LastLetter, wrongLetters) /\ letterNoImageErrors' = 0
        /\ letterErrors' \in 0 .. 2
        /\ UNCHANGED <<sentence, sentenceErrors, wordErrors, imageErrors, aser>>
    BY <1>12 DEF NoImageSecond, NoImageErrorsReset, HeardInv, TypesOK, QueueInLoop,
                 NoImageFresh, SentenceSpent, LetterStates, kindVars, counters, Score,
                 ScoreNothing
  <2>2. wrongLetters # <<>> /\ Len(wrongLetters) >= 1 /\ (sentence => sentenceErrors = 1)
    BY <1>1, <2>1 DEF AlwaysALetterToAsk, SentenceSpent, LetterStates
  <2>3. aser' \in Test
    BY <2>1 DEF TypesOK
  <2>4. PICK last \in BOOLEAN : last = LastLetter
    BY DEF LastLetter
  <2>5. PICK q : q = wrongLetters
    OBVIOUS
  <2>6. /\ q \in Seq(Letters) /\ Len(q) <= Len(wrongLetters) /\ Len(q) \in Nat
        /\ ~last => Len(q) > 1
    <3>1. q \in Seq(Letters) /\ Len(q) = Len(wrongLetters)
      BY <2>5 DEF TypesOK
    <3>2. ~last => Len(wrongLetters) # 1
      BY <2>4 DEF LastLetter
    <3> QED BY <1>1, <2>2, <3>1, <3>2
  <2>7. NextLetter(last, q) /\ Len(q) <= MaxLetters
    <3>1. NextLetter(last, q)
      BY <2>1, <2>4, <2>5
    <3>2. Len(q) <= MaxLetters
      BY <1>1, <2>6 DEF TypesOK
    <3> QED BY <3>1, <3>2
  <2>8. /\ state' \in {"letter", "letterNoImage", "word"}
        /\ wrongLetters' \in Seq(Letters)
        /\ last => state' = "word" /\ wrongLetters' = <<>>
        /\ ~last => /\ state' # "word" /\ wrongLetters' # <<>>
                    /\ Len(wrongLetters') = Len(q) - 1
                    /\ (state' = "letterNoImage" <=> Head(wrongLetters') \in NoImageLetters)
    BY <2>6, <2>7, NextLetterStep
  <2>9. Len(wrongLetters') \in Nat /\ Len(wrongLetters') <= MaxLetters
    BY <1>1, <2>6, <2>7, <2>8, Nonempty
  <2>10. TypesOK'
    BY <2>1, <2>3, <2>8, <2>9 DEF TypesOK, LetterStates
  <2>11. (QueueInLoop /\ NoImageFresh /\ AlwaysALetterToAsk /\ HeardInv)' /\ LetterLeaves
    BY <2>1, <2>8 DEF QueueInLoop, NoImageFresh, AlwaysALetterToAsk, HeardInv,
                     LetterStates, LetterLeaves
  <2>12. SentenceSpent'
    BY <2>1, <2>2 DEF SentenceSpent
  <2>13. LettersLeft \in Nat /\ LettersLeft > 6 * (Len(wrongLetters) - 1)
    BY <1>1, <2>1, <2>2 DEF LettersLeft, AskedLetterLeft, LetterStates, TypesOK
  <2>14. LettersLeft' \in Nat /\ LettersLeft' <= 6 * (Len(wrongLetters) - 1)
    <3>1. CASE state' = "word"
      BY <1>1, <2>2, <3>1 DEF LettersLeft, LetterStates
    <3>2. CASE state' \in {"letter", "letterNoImage"}
      <4>1. Len(wrongLetters') >= 1 /\ Len(wrongLetters') <= Len(wrongLetters) - 1
        BY <1>1, <2>6, <2>8, <2>9, <3>2
      <4> QED BY <1>1, <2>1, <2>9, <3>2, <4>1 DEF LettersLeft, AskedLetterLeft, LetterStates
    <3> QED BY <2>8, <3>1, <3>2
  <2>15. Shrinks
    BY <1>1, <2>1, <2>8, <2>10, <2>13, <2>14, LoopShrinks DEF LetterStates
  <2> QED BY <2>10, <2>11, <2>12, <2>15
<1>13. CASE LetterImageRight \/ (LetterImageWrong /\ letterErrors >= 2)
  <2>1. /\ state = "letterImage" /\ Head(wrongLetters) \in scored /\ scored' = scored
        /\ NextLetter(LastLetter, wrongLetters) /\ letterNoImageErrors' = 0
        /\ letterErrors' \in 0 .. 2
        /\ UNCHANGED <<sentence, sentenceErrors, wordErrors, imageErrors, aser>>
    BY <1>13 DEF LetterImageRight, LetterImageWrong, HeardInv, TypesOK, QueueInLoop,
                 NoImageFresh, SentenceSpent, LetterStates, kindVars, counters, Score,
                 ScoreNothing
  <2>2. wrongLetters # <<>> /\ Len(wrongLetters) >= 1 /\ (sentence => sentenceErrors = 1)
    BY <1>1, <2>1 DEF AlwaysALetterToAsk, SentenceSpent, LetterStates
  <2>3. aser' \in Test
    BY <2>1 DEF TypesOK
  <2>4. PICK last \in BOOLEAN : last = LastLetter
    BY DEF LastLetter
  <2>5. PICK q : q = wrongLetters
    OBVIOUS
  <2>6. /\ q \in Seq(Letters) /\ Len(q) <= Len(wrongLetters) /\ Len(q) \in Nat
        /\ ~last => Len(q) > 1
    <3>1. q \in Seq(Letters) /\ Len(q) = Len(wrongLetters)
      BY <2>5 DEF TypesOK
    <3>2. ~last => Len(wrongLetters) # 1
      BY <2>4 DEF LastLetter
    <3> QED BY <1>1, <2>2, <3>1, <3>2
  <2>7. NextLetter(last, q) /\ Len(q) <= MaxLetters
    <3>1. NextLetter(last, q)
      BY <2>1, <2>4, <2>5
    <3>2. Len(q) <= MaxLetters
      BY <1>1, <2>6 DEF TypesOK
    <3> QED BY <3>1, <3>2
  <2>8. /\ state' \in {"letter", "letterNoImage", "word"}
        /\ wrongLetters' \in Seq(Letters)
        /\ last => state' = "word" /\ wrongLetters' = <<>>
        /\ ~last => /\ state' # "word" /\ wrongLetters' # <<>>
                    /\ Len(wrongLetters') = Len(q) - 1
                    /\ (state' = "letterNoImage" <=> Head(wrongLetters') \in NoImageLetters)
    BY <2>6, <2>7, NextLetterStep
  <2>9. Len(wrongLetters') \in Nat /\ Len(wrongLetters') <= MaxLetters
    BY <1>1, <2>6, <2>7, <2>8, Nonempty
  <2>10. TypesOK'
    BY <2>1, <2>3, <2>8, <2>9 DEF TypesOK, LetterStates
  <2>11. (QueueInLoop /\ NoImageFresh /\ AlwaysALetterToAsk /\ HeardInv)' /\ LetterLeaves
    BY <2>1, <2>8 DEF QueueInLoop, NoImageFresh, AlwaysALetterToAsk, HeardInv,
                     LetterStates, LetterLeaves
  <2>12. SentenceSpent'
    BY <2>1, <2>2 DEF SentenceSpent
  <2>13. LettersLeft \in Nat /\ LettersLeft > 6 * (Len(wrongLetters) - 1)
    BY <1>1, <2>1, <2>2 DEF LettersLeft, AskedLetterLeft, LetterStates, TypesOK
  <2>14. LettersLeft' \in Nat /\ LettersLeft' <= 6 * (Len(wrongLetters) - 1)
    <3>1. CASE state' = "word"
      BY <1>1, <2>2, <3>1 DEF LettersLeft, LetterStates
    <3>2. CASE state' \in {"letter", "letterNoImage"}
      <4>1. Len(wrongLetters') >= 1 /\ Len(wrongLetters') <= Len(wrongLetters) - 1
        BY <1>1, <2>6, <2>8, <2>9, <3>2
      <4> QED BY <1>1, <2>1, <2>9, <3>2, <4>1 DEF LettersLeft, AskedLetterLeft, LetterStates
    <3> QED BY <2>8, <3>1, <3>2
  <2>15. Shrinks
    BY <1>1, <2>1, <2>8, <2>10, <2>13, <2>14, LoopShrinks DEF LetterStates
  <2> QED BY <2>10, <2>11, <2>12, <2>15
<1>14. CASE LetterImageWrong /\ ~(letterErrors >= 2)
  <2>1. /\ state = "letterImage" /\ state' = "letterImage" /\ letterNoImageErrors = 0
        /\ letterErrors < 2 /\ letterErrors' = letterErrors + 1
        /\ Head(wrongLetters) \in scored /\ scored' = scored
        /\ wrongLetters # <<>> /\ Head(wrongLetters) \notin NoImageLetters
        /\ sentence => sentenceErrors = 1
        /\ UNCHANGED <<sentence, wrongLetters, sentenceErrors, wordErrors, imageErrors,
                       letterNoImageErrors, aser>>
    BY <1>14 DEF LetterImageWrong, AlwaysALetterToAsk, HeardInv,
                TypesOK, QueueInLoop, NoImageFresh, SentenceSpent, LetterStates,
                kindVars, counters, Score, ScoreNothing
  <2>2. TypesOK'
    BY <1>1, <2>1 DEF TypesOK, LetterStates
  <2>3. (QueueInLoop /\ NoImageFresh /\ AlwaysALetterToAsk /\ HeardInv)' /\ LetterLeaves
    BY <2>1 DEF QueueInLoop, NoImageFresh, AlwaysALetterToAsk, HeardInv, LetterStates,
                LetterLeaves
  <2>4. SentenceSpent'
    BY <2>1 DEF SentenceSpent
  <2>5. LettersLeft \in Nat /\ LettersLeft' \in Nat /\ LettersLeft' < LettersLeft
    BY <1>1, <2>1, <2>2 DEF LettersLeft, AskedLetterLeft, LetterStates, TypesOK
  <2>6. Shrinks
    BY <1>1, <2>1, <2>2, <2>5, LoopShrinks DEF LetterStates
  <2> QED BY <2>2, <2>3, <2>4, <2>6
<1>15. CASE Finished
  <2>1. state = "complete" /\ UNCHANGED vars
    BY <1>15 DEF Finished
  <2>2. TypesOK'
    BY <2>1 DEF vars, kindVars, counters, TypesOK
  <2>3. (QueueInLoop /\ NoImageFresh /\ AlwaysALetterToAsk /\ HeardInv)' /\ LetterLeaves
    BY <2>1 DEF vars, kindVars, counters, QueueInLoop, NoImageFresh, AlwaysALetterToAsk,
                HeardInv, LetterStates, LetterLeaves
  <2>4. SentenceSpent'
    BY <2>1 DEF vars, kindVars, counters, SentenceSpent
  <2> QED BY <2>1, <2>2, <2>3, <2>4
<1> QED BY <1>2, <1>3, <1>4, <1>5, <1>6, <1>7, <1>8, <1>9, <1>10, <1>11, <1>12, <1>13,
           <1>14, <1>15 DEF Next

-----------------------------------------------------------------------------
(* What the lesson promises.                                               *)

\* The invariant holds in every reachable state.
LEMMA LoopHolds == Spec => [](LoopInv /\ HeardInv)
<1>1. LoopInv /\ HeardInv /\ [Next]_vars => (LoopInv /\ HeardInv)'
  <2> SUFFICES ASSUME LoopInv, HeardInv, [Next]_vars PROVE (LoopInv /\ HeardInv)'
    OBVIOUS
  <2>1. CASE Next
    BY <2>1, OneAnswer
  <2>2. CASE UNCHANGED vars
    BY <2>2 DEF vars, kindVars, counters, LoopInv, HeardInv, TypesOK, QueueInLoop,
                NoImageFresh, SentenceSpent, AlwaysALetterToAsk
  <2> QED BY <2>1, <2>2
<1> QED BY <1>1, LoopInit, PTL DEF Spec

\* For any letters, any thresholds of the letter test and queues of any length, a
\* letter state has a letter to ask, and the state fits it: the machine never meets
\* an empty queue, which would leave every further voice note without an answer.
THEOREM LetterToAsk == Spec => []AlwaysALetterToAsk
<1>1. LoopInv /\ HeardInv => AlwaysALetterToAsk
  BY DEF LoopInv
<1> QED BY <1>1, LoopHolds, PTL

\* No letter leaves the loop of literacy-lesson.machine.ts unscored, whatever order
\* letters with and without pictures come in and whatever counts they leave behind.
THEOREM LettersScored == Spec => EveryLetterScored
<1>1. LoopInv /\ HeardInv /\ [Next]_vars =>
        [/\ state \in LetterStates
         /\ wrongLetters' = <<>> \/ Head(wrongLetters') # Head(wrongLetters)
         => Head(wrongLetters) \in scored']_vars
  BY OneAnswer DEF LetterLeaves
<1> QED BY <1>1, LoopHolds, PTL DEF Spec, EveryLetterScored

\* Every answer brings a lesson closer to its end, for queues of any length: no
\* sequence of answers keeps a student in the machine.
THEOREM LessonEnds == Spec => LessonShrinks
<1>1. LoopInv /\ HeardInv /\ [Next]_vars =>
        [\/ state = "comprehension" /\ state' = "comprehension"
         \/ AnswersLeft' < AnswersLeft /\ AnswersLeft' >= 0]_vars
  BY OneAnswer DEF Shrinks
<1> QED BY <1>1, LoopHolds, PTL DEF Spec, LessonShrinks

-----------------------------------------------------------------------------
(* The ASER test.                                                          *)

Counters == [correct : Nat, incorrect : Nat]
Items    == [stage : Stage \cup {Null}, value : TestPassages \cup {Null}, answered : BOOLEAN]

Runs ==
  [status : {"none", "in_progress", "done"}, onboarding : BOOLEAN, bank : Banks \cup {Null},
   startStage : Stage, stage : Stage, outcomes : [Stage -> {Null, "passed", "failed"}],
   counts : [Stage -> Counters], used : [{"letter", "word"} -> Nat],
   seen : SUBSET TestPassages, item : Items,
   result : Stage \cup {"beginner", Null}, placement : Nat \cup {Null}]

TestLessons ==
  [at : {"none", "item", "rest", "normal", "letter", "drill"},
   test : [correct : Nat, incorrect : Nat, done : BOOLEAN], queue : Int]

RunsOK == run \in Runs /\ lesson \in TestLessons /\ early \in BOOLEAN

\* CountedOnce, of any run.
Pending(s, t) == IF s.item.stage = t /\ ~s.item.answered THEN 1 ELSE 0
Shown(s, P)   == Cardinality(s.seen \cap P)

CountedIn(s) ==
  /\ \A t \in {"letter", "word"} : s.used[t] = Total(s.counts[t]) + Pending(s, t)
  /\ Total(s.counts["paragraph"]) + Pending(s, "paragraph") <= Shown(s, Paragraphs)
  /\ Total(s.counts["story"]) + Pending(s, "story") <= Shown(s, Stories)

\* What a run in progress has passed lies below the level it is at, what it has
\* failed above it, and the level itself is undecided.
Between(s) ==
  s.status = "in_progress" =>
    /\ s.outcomes[s.stage] = Null
    /\ \A u \in Stage :
         /\ s.outcomes[u] = "passed" => LevelRank[u] < LevelRank[s.stage]
         /\ s.outcomes[u] = "failed" => LevelRank[s.stage] < LevelRank[u]

\* An item that waits for its answer is of the level the run is at.
ItemOfStage(s) == s.status = "in_progress" /\ ~s.item.answered => s.item.stage = s.stage

\* The two halves of Bracketed, of any run.
Apart(s) ==
  \A t, u \in Stage :
    s.outcomes[t] = "passed" /\ s.outcomes[u] = "failed" => LevelRank[t] < LevelRank[u]
Closed(s) ==
  LET r == IF s.result = "beginner" THEN 0 ELSE LevelRank[s.result]
  IN  r = 4 \/ s.outcomes[Stages[r + 1]] = "failed"

SoundRun(s) == s \in Runs /\ CountedIn(s) /\ Between(s) /\ ItemOfStage(s) /\ Apart(s)

\* The machine's letter test and the run's count the same answers.
LetterInv ==
  /\ lesson.at = "letter" => ~lesson.test.done
  /\ lesson.at \in {"letter", "drill"} => run.item.answered
  /\ lesson.at \in {"letter", "drill"} /\ ~lesson.test.done /\ run.status = "in_progress" =>
       /\ run.stage = "letter"
       /\ lesson.test.correct = run.counts["letter"].correct
       /\ lesson.test.incorrect = run.counts["letter"].incorrect

EndInv ==
  /\ early => run.status = "done"
  /\ run.status = "done" /\ ~early => Closed(run)

TestInv == RunsOK /\ SoundRun(run) /\ LetterInv /\ EndInv

-----------------------------------------------------------------------------
(* Levels.                                                                 *)

\* The four levels in their order.
LEMMA Ranks ==
  /\ LevelRank["letter"] = 1 /\ LevelRank["word"] = 2
  /\ LevelRank["paragraph"] = 3 /\ LevelRank["story"] = 4
  /\ \A t \in Stage : LevelRank[t] \in 1 .. 4 /\ Stages[LevelRank[t]] = t
  /\ \A r \in 1 .. 4 : Stages[r] \in Stage /\ LevelRank[Stages[r]] = r
BY DEF LevelRank, Stages, Stage

\* A student is placed at a level of the lessons.
LEMMA PlacementIsLevel ==
  \A l \in Stage \cup {"beginner"} : PlacementLevel[l] \in Nat
BY DEF PlacementLevel, Stage

\* The highest level passed, if there is one.
LEMMA HighestPassed ==
  ASSUME NEW s, NEW t \in Stage, s.outcomes[t] = "passed",
         \A u \in Stage : s.outcomes[u] = "passed" => LevelRank[u] <= LevelRank[t]
  PROVE  LevelOf(s) = t
<1> DEFINE passed == {u \in Stage : s.outcomes[u] = "passed"}
           Top(v) == \A u \in passed : LevelRank[u] <= LevelRank[v]
<1>1. t \in passed /\ Top(t)
  OBVIOUS
<1>2. LevelOf(s) = CHOOSE v \in passed : Top(v)
  BY <1>1 DEF LevelOf
<1>3. \A v \in passed : Top(v) => v = t
  BY <1>1, Ranks
<1> HIDE DEF passed, Top
<1> QED BY <1>1, <1>2, <1>3

\* A student who has passed no level is a beginner.
LEMMA NonePassed ==
  ASSUME NEW s, \A u \in Stage : s.outcomes[u] # "passed"
  PROVE  LevelOf(s) = "beginner"
BY DEF LevelOf

\* The level reported is one of the four, or that of a beginner.
LEMMA LevelOfType ==
  ASSUME NEW s
  PROVE  LevelOf(s) \in Stage \cup {"beginner"}
<1> DEFINE passed == {u \in Stage : s.outcomes[u] = "passed"}
<1>1. CASE passed = {}
  BY <1>1 DEF LevelOf
<1>2. CASE \E t \in passed : \A u \in passed : LevelRank[u] <= LevelRank[t]
  BY <1>2, HighestPassed
<1>3. passed # {} => \E t \in passed : \A u \in passed : LevelRank[u] <= LevelRank[t]
  BY Ranks DEF Stage
<1> QED BY <1>1, <1>2, <1>3

-----------------------------------------------------------------------------
(* A run, and what an answer or an item makes of it.                       *)

\* The absent value is no level and no outcome.
LEMMA SomeNull == Null \notin Stage \cup {"passed", "failed"}
BY ItemsAssumption DEF Stage

\* The item before the first one counts as answered.
LEMMA ItemTypes ==
  /\ NoItem \in Items /\ NoItem.answered
  /\ \A t \in Stage, v \in TestPassages \cup {Null}, b \in BOOLEAN :
       [stage |-> t, value |-> v, answered |-> b] \in Items
BY DEF NoItem, Items

\* A run that begins.
LEMMA NewRunSound ==
  ASSUME NEW ob \in BOOLEAN, NEW bank \in Banks \cup {Null}, NEW start \in Stage
  PROVE  /\ SoundRun(NewRun(ob, bank, start))
         /\ NewRun(ob, bank, start).status = "in_progress"
         /\ NewRun(ob, bank, start).item.answered
<1> DEFINE s == NewRun(ob, bank, start)
<1>1. /\ s.status = "in_progress" /\ s.stage = start /\ s.item = NoItem /\ s.seen = {}
      /\ s.outcomes = [t \in Stage |-> Null] /\ s.counts = [t \in Stage |-> Zero]
      /\ s.used = [letter |-> 0, word |-> 0]
  BY DEF NewRun
<1>2. s \in Runs
  <2>1. /\ [t \in Stage |-> Null] \in [Stage -> {Null, "passed", "failed"}]
        /\ [t \in Stage |-> Zero] \in [Stage -> Counters]
        /\ {} \in SUBSET TestPassages
    BY DEF Zero, Counters
  <2>2. [letter |-> 0, word |-> 0] \in [{"letter", "word"} -> Nat]
    OBVIOUS
  <2> QED BY <2>1, <2>2, ItemTypes DEF NewRun, Runs
<1>3. CountedIn(s)
  <2>1. \A t \in Stage : Total(s.counts[t]) = 0 /\ Pending(s, t) = 0
    BY <1>1, ItemTypes DEF Total, Zero, Pending
  <2>2. Shown(s, Paragraphs) = 0 /\ Shown(s, Stories) = 0
    <3>1. s.seen \cap Paragraphs = {} /\ s.seen \cap Stories = {}
      BY <1>1
    <3> QED BY <3>1, FS_EmptySet DEF Shown
  <2>3. s.used["letter"] = 0 /\ s.used["word"] = 0
    BY <1>1
  <2> HIDE DEF s
  <2> QED BY <2>1, <2>2, <2>3 DEF CountedIn, Stage
<1>4. Between(s) /\ ItemOfStage(s) /\ Apart(s)
  BY <1>1, SomeNull, ItemTypes DEF Between, ItemOfStage, Apart
<1> QED BY <1>1, <1>2, <1>3, <1>4, ItemTypes DEF SoundRun

\* The end of a run keeps all but its status, result and placement.
LEMMA RunFinished ==
  ASSUME NEW s \in Runs
  PROVE  /\ Finish(s) \in Runs /\ Finish(s).status = "done" /\ Finish(s).result = LevelOf(s)
         /\ Finish(s).stage = s.stage /\ Finish(s).outcomes = s.outcomes
         /\ Finish(s).counts = s.counts /\ Finish(s).used = s.used
         /\ Finish(s).seen = s.seen /\ Finish(s).item = s.item
<1>1. LevelOf(s) \in Stage \cup {"beginner"}
  BY LevelOfType
<1>2. PlacementLevel[LevelOf(s)] \in Nat
  BY <1>1, PlacementIsLevel
<1> HIDE DEF LevelOf
<1> QED BY <1>1, <1>2 DEF Finish, Runs

\* A run that is finished keeps its counts and its outcomes.
LEMMA FinishSound ==
  ASSUME NEW s, SoundRun(s)
  PROVE  SoundRun(Finish(s)) /\ Finish(s).status = "done"
<1>1. s \in Runs
  BY DEF SoundRun
<1>2. Finish(s) \in Runs /\ Finish(s).status = "done"
      /\ Finish(s).outcomes = s.outcomes
      /\ Finish(s).counts = s.counts /\ Finish(s).used = s.used
      /\ Finish(s).seen = s.seen /\ Finish(s).item = s.item
  BY <1>1, RunFinished
<1>3. CountedIn(Finish(s))
  BY <1>2 DEF SoundRun, CountedIn, Pending, Shown
<1>4. Between(Finish(s)) /\ ItemOfStage(Finish(s)) /\ Apart(Finish(s))
  BY <1>2 DEF SoundRun, Between, ItemOfStage, Apart
<1> QED BY <1>2, <1>3, <1>4 DEF SoundRun

\* What is counted depends on the counts, the items shown and the item alone.
LEMMA SameCounted ==
  ASSUME NEW s, NEW d, CountedIn(s), d.counts = s.counts, d.used = s.used,
         d.seen = s.seen, d.item = s.item
  PROVE  CountedIn(d)
BY DEF CountedIn, Pending, Shown

\* The first answer to an item, before it decides anything.
Answered(s, correct) ==
  LET t == s.item.stage
  IN  [s EXCEPT !.counts[t] = IF correct THEN [s.counts[t] EXCEPT !.correct = @ + 1]
                              ELSE [s.counts[t] EXCEPT !.incorrect = @ + 1],
                !.item.answered = TRUE]

\* What counting an answer changes.
LEMMA AnsweredFields ==
  ASSUME NEW s \in Runs, NEW correct \in BOOLEAN, s.item.stage \in Stage
  PROVE  LET t == s.item.stage
             c == Answered(s, correct)
         IN  /\ c \in Runs /\ c.status = s.status /\ c.stage = s.stage
             /\ c.outcomes = s.outcomes /\ c.used = s.used /\ c.seen = s.seen
             /\ c.startStage = s.startStage
             /\ c.item.answered /\ c.item.stage = t
             /\ c.counts[t].correct = s.counts[t].correct + (IF correct THEN 1 ELSE 0)
             /\ c.counts[t].incorrect = s.counts[t].incorrect + (IF correct THEN 0 ELSE 1)
             /\ \A u \in Stage : u # t => c.counts[u] = s.counts[u]
             /\ Total(c.counts[t]) = Total(s.counts[t]) + 1
<1> DEFINE t == s.item.stage
           x == IF correct THEN [s.counts[t] EXCEPT !.correct = @ + 1]
                           ELSE [s.counts[t] EXCEPT !.incorrect = @ + 1]
           c == Answered(s, correct)
           item == [s.item EXCEPT !.answered = TRUE]
           counts == [s.counts EXCEPT ![t] = x]
<1>1. s.counts[t] \in Counters /\ s.counts \in [Stage -> Counters] /\ s.item \in Items
  BY DEF Runs
<1>2. /\ x \in Counters /\ Total(x) = Total(s.counts[t]) + 1
      /\ x.correct = s.counts[t].correct + (IF correct THEN 1 ELSE 0)
      /\ x.incorrect = s.counts[t].incorrect + (IF correct THEN 0 ELSE 1)
  BY <1>1 DEF Counters, Total
<1>3. /\ counts \in [Stage -> Counters] /\ counts[t] = x
      /\ \A u \in Stage : u # t => counts[u] = s.counts[u]
  <2> HIDE DEF x
  <2> QED BY <1>1, <1>2
<1>4. item \in Items /\ item.answered /\ item.stage = t
  BY <1>1 DEF Items
<1>5. c = [[s EXCEPT !.counts = counts] EXCEPT !.item = item]
  BY DEF Answered
<1> HIDE DEF x, counts, item, c
<1>6. /\ c \in Runs /\ c.status = s.status /\ c.stage = s.stage
      /\ c.outcomes = s.outcomes /\ c.used = s.used /\ c.seen = s.seen
      /\ c.startStage = s.startStage
      /\ c.item = item /\ c.counts = counts
  BY <1>3, <1>4, <1>5 DEF Runs
<1> QED BY <1>2, <1>3, <1>4, <1>6 DEF c

\* An answer counts the item it answers.
LEMMA AnsweredCounted ==
  ASSUME NEW s, SoundRun(s), TakesAnswer(s), NEW correct \in BOOLEAN
  PROVE  CountedIn(Answered(s, correct)) /\ s.item.stage = s.stage /\ s.stage \in Stage
<1> DEFINE c == Answered(s, correct)
           t == s.item.stage
<1>1. s \in Runs /\ s.item.stage = s.stage /\ s.stage \in Stage
  BY DEF SoundRun, TakesAnswer, ItemOfStage, Runs
<1>2. /\ c.used = s.used /\ c.seen = s.seen /\ c.item.answered
      /\ \A u \in Stage : u # t => c.counts[u] = s.counts[u]
      /\ Total(c.counts[t]) = Total(s.counts[t]) + 1
  BY <1>1, AnsweredFields
<1>3. /\ Pending(s, t) = 1 /\ \A u : u # t => Pending(s, u) = 0
      /\ \A u : Pending(c, u) = 0
  BY <1>2 DEF Pending, TakesAnswer
<1>4. Shown(c, Paragraphs) = Shown(s, Paragraphs) /\ Shown(c, Stories) = Shown(s, Stories)
  BY <1>2 DEF Shown
<1>5. \A u \in Stage : Total(s.counts[u]) \in Nat
  BY <1>1 DEF Runs, Total, Counters
<1>6. \A u \in Stage : Total(c.counts[u]) + Pending(c, u) = Total(s.counts[u]) + Pending(s, u)
  <2> HIDE DEF c
  <2> QED BY <1>1, <1>2, <1>3, <1>5
<1> HIDE DEF c
<1>7. CountedIn(c)
  BY <1>2, <1>4, <1>6 DEF SoundRun, CountedIn, Stage
<1> QED BY <1>1, <1>7 DEF c

\* A likely level is undecided, and nothing lies between it and the words.
LEMMA JumpBetween ==
  ASSUME NEW s, SoundRun(s), TakesAnswer(s), NEW correct \in BOOLEAN
  PROVE  LET c == Answered(s, correct)
             t == s.item.stage
             d == [c EXCEPT !.stage = FastJump(c, t)]
         IN  /\ SoundRun(d) /\ d.status = "in_progress" /\ d.item.answered
             /\ d.counts = c.counts
             /\ t = "letter" => d.stage = "letter"
<1> DEFINE c == Answered(s, correct)
           t == s.item.stage
           j == FastJump(c, t)
           d == [c EXCEPT !.stage = j]
<1>1. s \in Runs /\ t = s.stage /\ t \in Stage /\ CountedIn(c) /\ s.status = "in_progress"
  BY AnsweredCounted DEF SoundRun, TakesAnswer
<1>2. /\ c \in Runs /\ c.status = s.status /\ c.stage = s.stage
      /\ c.outcomes = s.outcomes /\ c.item.answered
  BY <1>1, AnsweredFields
<1>3. \/ j = t
      \/ t = "word" /\ j = "paragraph" /\ c.outcomes["paragraph"] = Null
      \/ t = "word" /\ j = "letter" /\ c.outcomes["letter"] = Null
  <2> HIDE DEF c
  <2> QED BY <1>1, <1>2 DEF FastJump
<1>4. j \in Stage /\ (t = "letter" => j = "letter")
  BY <1>1, <1>3 DEF Stage
<1> HIDE DEF c, j
<1>5. /\ d \in Runs /\ d.status = "in_progress" /\ d.stage = j /\ d.outcomes = s.outcomes
      /\ d.counts = c.counts /\ d.used = c.used /\ d.seen = c.seen /\ d.item = c.item
  BY <1>1, <1>2, <1>4 DEF Runs
<1>6. CountedIn(d)
  BY <1>1, <1>5, SameCounted
<1>7. Between(s) /\ Apart(s)
  BY DEF SoundRun
<1>8. Between(d)
  <2>1. /\ s.outcomes[t] = Null
        /\ \A u \in Stage :
             /\ s.outcomes[u] = "passed" => LevelRank[u] < LevelRank[t]
             /\ s.outcomes[u] = "failed" => LevelRank[t] < LevelRank[u]
    BY <1>1, <1>7 DEF Between
  <2>2. s.outcomes[j] = Null
    BY <1>2, <1>3, <2>1
  <2>3. \A u \in Stage :
          /\ s.outcomes[u] = "passed" => LevelRank[u] < LevelRank[j]
          /\ s.outcomes[u] = "failed" => LevelRank[j] < LevelRank[u]
    <3>1. CASE j = t
      BY <2>1, <3>1
    <3>2. CASE t = "word" /\ j = "paragraph"
      <4>1. \A u \in Stage : s.outcomes[u] = "passed" => u # "paragraph"
        BY <2>2, <3>2, SomeNull
      <4>2. \A u \in Stage : s.outcomes[u] = "failed" => u # "paragraph"
        BY <2>2, <3>2, SomeNull
      <4> QED BY <2>1, <3>2, <4>1, <4>2, Ranks DEF Stage
    <3>3. CASE t = "word" /\ j = "letter"
      <4>1. \A u \in Stage :
              /\ s.outcomes[u] = "passed" => u # "letter"
              /\ s.outcomes[u] = "failed" => u # "letter"
        BY <2>2, <3>3, SomeNull
      <4> QED BY <2>1, <3>3, <4>1, Ranks DEF Stage
    <3> QED BY <1>3, <3>1, <3>2, <3>3
  <2> QED BY <1>5, <2>2, <2>3 DEF Between
<1>9. ItemOfStage(d) /\ Apart(d)
  BY <1>2, <1>5, <1>7 DEF ItemOfStage, Apart
<1> QED BY <1>2, <1>4, <1>5, <1>6, <1>8, <1>9 DEF SoundRun, c, j

\* Where a decided level leads.
LEMMA LevelAfter ==
  ASSUME NEW s, NEW t \in Stage, s.outcomes[t] \in {"passed", "failed"}
  PROVE  LET r == IF s.outcomes[t] = "passed" THEN LevelRank[t] + 1 ELSE LevelRank[t] - 1
         IN  /\ r \in 1 .. 4 => Adjacent(s, t) = Stages[r]
             /\ r \notin 1 .. 4 => Adjacent(s, t) = Null
             /\ r \in 0 .. 5 /\ Adjacent(s, t) \in Stage \cup {Null}
BY Ranks DEF Adjacent

\* A run that has just decided its level lies apart; where it goes on, the level
\* it goes to is in between, and where it stops, the result is closed off.
LEMMA RunDecided ==
  ASSUME NEW d \in Runs, d.status = "in_progress", NEW t \in Stage,
         d.outcomes[t] \in {"passed", "failed"}, d.item.answered, CountedIn(d),
         \A u \in Stage \ {t} :
           /\ d.outcomes[u] = "passed" => LevelRank[u] < LevelRank[t]
           /\ d.outcomes[u] = "failed" => LevelRank[t] < LevelRank[u]
  PROVE  LET n == AfterDecision(d, t)
         IN  /\ SoundRun(n) /\ n.item.answered /\ n.counts = d.counts
             /\ n.status = "done" => Closed(n)
             /\ n.status \in {"in_progress", "done"}
<1> DEFINE n == AfterDecision(d, t)
           a == Adjacent(d, t)
<1>1. Apart(d)
  BY SomeNull, Ranks DEF Apart
<1>2. CASE Stops(d, t)
  <2>1. n = Finish(d)
    BY <1>2 DEF AfterDecision
  <2>2. /\ n \in Runs /\ n.status = "done" /\ n.result = LevelOf(d)
        /\ n.stage = d.stage /\ n.outcomes = d.outcomes
        /\ n.counts = d.counts /\ n.used = d.used
        /\ n.seen = d.seen /\ n.item = d.item
    BY <2>1, RunFinished
  <2> HIDE DEF n
  <2>3. SoundRun(n)
    BY <1>1, <2>2, SameCounted DEF SoundRun, Between, ItemOfStage, Apart
  <2>4. Closed(n)
    <3>1. CASE d.outcomes[t] = "passed"
      <4>1. LevelOf(d) = t
        BY <3>1, HighestPassed, Ranks
      <4>2. LevelRank[t] = 4 \/ d.outcomes[Stages[LevelRank[t] + 1]] = "failed"
        <5>1. CASE a = Null
          BY <3>1, <5>1, LevelAfter, Ranks, SomeNull
        <5>2. CASE a # Null /\ d.outcomes[a] # Null
          <6>1. a = Stages[LevelRank[t] + 1] /\ a \in Stage /\ LevelRank[a] = LevelRank[t] + 1
            BY <3>1, <5>2, LevelAfter, Ranks
          <6>2. d.outcomes[a] \in {"passed", "failed"}
            BY <5>2, <6>1 DEF Runs
          <6> QED BY <6>1, <6>2, Ranks
        <5> QED BY <1>2, <5>1, <5>2 DEF Stops
      <4>3. t # "beginner"
        BY DEF Stage
      <4> QED BY <2>2, <4>1, <4>2, <4>3 DEF Closed
    <3>2. CASE d.outcomes[t] = "failed" /\ LevelRank[t] = 1
      <4>1. LevelOf(d) = "beginner"
        <5>1. \A u \in Stage : d.outcomes[u] # "passed"
          BY <3>2, Ranks
        <5> QED BY <5>1, NonePassed
      <4> QED BY <2>2, <3>2, <4>1, Ranks DEF Closed
    <3>3. CASE d.outcomes[t] = "failed" /\ LevelRank[t] # 1
      <4>1. a = Stages[LevelRank[t] - 1] /\ a \in Stage /\ LevelRank[a] = LevelRank[t] - 1
        BY <3>3, LevelAfter, Ranks
      <4>2. d.outcomes[a] = "passed"
        <5>1. d.outcomes[a] \in {"passed", "failed"}
          BY <1>2, <4>1, SomeNull DEF Stops, Runs
        <5> QED BY <4>1, <5>1, Ranks
      <4>3. LevelOf(d) = a
        <5>1. \A u \in Stage : d.outcomes[u] = "passed" => LevelRank[u] <= LevelRank[a]
          BY <3>3, <4>1, Ranks
        <5> QED BY <4>1, <4>2, <5>1, HighestPassed
      <4>4. Stages[LevelRank[a] + 1] = t /\ a # "beginner"
        BY <4>1, Ranks DEF Stage
      <4> QED BY <2>2, <3>3, <4>3, <4>4 DEF Closed
    <3> QED BY <3>1, <3>2, <3>3
  <2> QED BY <2>2, <2>3, <2>4 DEF n
<1>3. CASE ~Stops(d, t)
  <2>1. n = [d EXCEPT !.stage = a] /\ a # Null /\ d.outcomes[a] = Null
    BY <1>3 DEF AfterDecision, Stops
  <2>2. a \in Stage
    BY <2>1, LevelAfter
  <2> HIDE DEF n, a
  <2>3. /\ n \in Runs /\ n.status = "in_progress" /\ n.stage = a /\ n.outcomes = d.outcomes
        /\ n.counts = d.counts /\ n.used = d.used /\ n.seen = d.seen /\ n.item = d.item
    BY <2>1, <2>2 DEF Runs
  <2>4. Between(n)
    <3>1. CASE d.outcomes[t] = "passed"
      <4>1. LevelRank[a] = LevelRank[t] + 1
        BY <2>1, <3>1, LevelAfter, Ranks DEF a
      <4>2. \A u \in Stage : d.outcomes[u] \in {"passed", "failed"} => u # a
        BY <2>1, SomeNull
      <4>3. \A u \in Stage :
              /\ d.outcomes[u] = "passed" => LevelRank[u] < LevelRank[a]
              /\ d.outcomes[u] = "failed" => LevelRank[a] < LevelRank[u]
        BY <2>2, <3>1, <4>1, <4>2, Ranks
      <4> QED BY <2>1, <2>3, <4>3 DEF Between
    <3>2. CASE d.outcomes[t] = "failed"
      <4>1. LevelRank[a] = LevelRank[t] - 1
        BY <2>1, <3>2, LevelAfter, Ranks DEF a
      <4>2. \A u \in Stage : d.outcomes[u] \in {"passed", "failed"} => u # a
        BY <2>1, SomeNull
      <4>3. \A u \in Stage :
              /\ d.outcomes[u] = "passed" => LevelRank[u] < LevelRank[a]
              /\ d.outcomes[u] = "failed" => LevelRank[a] < LevelRank[u]
        BY <2>2, <3>2, <4>1, <4>2, Ranks
      <4> QED BY <2>1, <2>3, <4>3 DEF Between
    <3> QED BY <3>1, <3>2
  <2>5. SoundRun(n)
    BY <1>1, <2>3, <2>4, SameCounted DEF SoundRun, ItemOfStage, Apart
  <2> QED BY <2>3, <2>5 DEF n
<1> QED BY <1>2, <1>3

\* What an answer makes of a run.
LEMMA Recorded ==
  ASSUME NEW s, SoundRun(s), NEW correct \in BOOLEAN
  PROVE  LET n == RecordAnswer(s, correct)
         IN  /\ SoundRun(n)
             /\ ~TakesAnswer(s) => n = s
             /\ TakesAnswer(s) => n.item.answered /\ n.status \in {"in_progress", "done"}
             /\ TakesAnswer(s) /\ n.status = "done" => Closed(n)
<1> DEFINE n == RecordAnswer(s, correct)
           t == s.item.stage
           f == Answered(s, correct)
           c == f.counts[t]
           o == OutcomeOf(t, c)
<1>1. CASE ~TakesAnswer(s)
  BY <1>1 DEF RecordAnswer
<1>2. CASE TakesAnswer(s)
  <2>1. s \in Runs /\ t = s.stage /\ t \in Stage /\ CountedIn(f) /\ s.status = "in_progress"
    BY <1>2, AnsweredCounted DEF SoundRun, TakesAnswer
  <2>2. /\ f \in Runs /\ f.status = "in_progress" /\ f.outcomes = s.outcomes
        /\ f.item.answered /\ f.item.stage = t
    BY <2>1, AnsweredFields
  <2>3. /\ o = Null => n = [f EXCEPT !.stage = FastJump(f, t)]
        /\ o # Null => n = AfterDecision([f EXCEPT !.outcomes[t] = o], t)
    <3> DEFINE x == IF correct THEN [s.counts[t] EXCEPT !.correct = @ + 1]
                               ELSE [s.counts[t] EXCEPT !.incorrect = @ + 1]
    <3>1. c = x
      BY <2>1 DEF Answered, Runs, Counters
    <3> HIDE DEF x
    <3>2. f = [s EXCEPT !.counts[t] = x, !.item.answered = TRUE]
      BY DEF Answered, x
    <3>3. n = IF OutcomeOf(t, x) = Null THEN [f EXCEPT !.stage = FastJump(f, t)]
              ELSE AfterDecision([f EXCEPT !.outcomes[t] = OutcomeOf(t, x)], t)
      <4> HIDE DEF f
      <4> QED BY <1>2, <3>2 DEF RecordAnswer, x
    <3> HIDE DEF n, f, c
    <3> QED BY <3>1, <3>3
  <2>4. o \in {"passed", "failed", Null}
    <3> HIDE DEF c
    <3> QED BY <2>1 DEF OutcomeOf, CountVerdict, Stage
  <2>5. CASE o = Null
    BY <1>2, <2>3, <2>5, JumpBetween, SomeNull
  <2>6. CASE o # Null
    <3> DEFINE d == [f EXCEPT !.outcomes[t] = o]
    <3> HIDE DEF f, o
    <3>1. f.outcomes \in [Stage -> {Null, "passed", "failed"}]
      BY <2>2 DEF Runs
    <3>2. /\ [f.outcomes EXCEPT ![t] = o] \in [Stage -> {Null, "passed", "failed"}]
          /\ [f.outcomes EXCEPT ![t] = o][t] = o
          /\ \A u \in Stage \ {t} : [f.outcomes EXCEPT ![t] = o][u] = f.outcomes[u]
      BY <2>1, <2>4, <3>1
    <3>3. /\ d \in Runs /\ d.status = "in_progress" /\ d.outcomes[t] = o /\ d.item.answered
          /\ \A u \in Stage \ {t} : d.outcomes[u] = s.outcomes[u]
          /\ d.counts = f.counts /\ d.used = f.used /\ d.seen = f.seen /\ d.item = f.item
      BY <2>2, <3>2 DEF Runs
    <3> HIDE DEF d
    <3>4. CountedIn(d)
      BY <2>1, <3>3, SameCounted
    <3>5. \A u \in Stage \ {t} :
            /\ d.outcomes[u] = "passed" => LevelRank[u] < LevelRank[t]
            /\ d.outcomes[u] = "failed" => LevelRank[t] < LevelRank[u]
      BY <2>1, <3>3 DEF SoundRun, Between
    <3>6. n = AfterDecision(d, t)
      BY <2>3, <2>6 DEF d
    <3> HIDE DEF n
    <3>7. d.outcomes[t] \in {"passed", "failed"}
      BY <2>4, <2>6, <3>3
    <3>8. SoundRun(n) /\ n.item.answered /\ (n.status = "done" => Closed(n))
          /\ n.status \in {"in_progress", "done"}
      BY <2>1, <3>3, <3>4, <3>5, <3>6, <3>7, RunDecided
    <3> QED BY <1>2, <3>8 DEF n
  <2> QED BY <2>5, <2>6
<1> QED BY <1>1, <1>2

\* What a letter's answer does to the letter test.
LEMMA RecordedLetter ==
  ASSUME NEW s, SoundRun(s), TakesAnswer(s), NEW correct \in BOOLEAN, s.stage = "letter"
  PROVE  LET n == RecordAnswer(s, correct)
             c == [correct   |-> s.counts["letter"].correct + (IF correct THEN 1 ELSE 0),
                   incorrect |-> s.counts["letter"].incorrect + (IF correct THEN 0 ELSE 1)]
         IN  CountVerdict(c) = Null /\ n.status = "in_progress" =>
               /\ n.stage = "letter"
               /\ n.counts["letter"].correct = c.correct
               /\ n.counts["letter"].incorrect = c.incorrect
<1> DEFINE n == RecordAnswer(s, correct)
           f == Answered(s, correct)
           x == f.counts["letter"]
           c == [correct   |-> s.counts["letter"].correct + (IF correct THEN 1 ELSE 0),
                 incorrect |-> s.counts["letter"].incorrect + (IF correct THEN 0 ELSE 1)]
<1>1. s \in Runs /\ s.item.stage = "letter" /\ "letter" \in Stage
  BY AnsweredCounted DEF SoundRun
<1>2. x.correct = c.correct /\ x.incorrect = c.incorrect /\ f.stage = s.stage
  BY <1>1, AnsweredFields
<1>3. OutcomeOf("letter", x) = CountVerdict(c)
  BY <1>2 DEF OutcomeOf, CountVerdict
<1>4. CountVerdict(c) = Null => n = [f EXCEPT !.stage = FastJump(f, "letter")]
  <2> DEFINE y == IF correct THEN [s.counts["letter"] EXCEPT !.correct = @ + 1]
                             ELSE [s.counts["letter"] EXCEPT !.incorrect = @ + 1]
  <2>1. x = y
    BY <1>1 DEF Answered, Runs, Counters
  <2> HIDE DEF y
  <2>2. f = [s EXCEPT !.counts["letter"] = y, !.item.answered = TRUE]
    BY <1>1 DEF Answered, y
  <2> HIDE DEF f, x, c
  <2> QED BY <1>1, <1>3, <2>1, <2>2 DEF RecordAnswer, y
<1>5. CountVerdict(c) = Null => n.stage = "letter" /\ n.counts = f.counts
  <2> DEFINE d == [f EXCEPT !.stage = FastJump(f, s.item.stage)]
  <2>1. d.counts = f.counts /\ d.stage = "letter"
    BY <1>1, JumpBetween
  <2> QED BY <1>1, <1>4, <2>1
<1> QED BY <1>2, <1>5

\* An item of the bank, and a passage that was not seen yet.
LEMMA BankItemSound ==
  ASSUME NEW s, SoundRun(s), s.item.answered, NEW t \in {"letter", "word"},
         s.status = "in_progress" => t = s.stage
  PROVE  LET n == WithBankItem(s, t)
         IN  /\ SoundRun(n) /\ n.status = s.status /\ n.stage = s.stage /\ ~n.item.answered
             /\ n.counts = s.counts
<1> DEFINE n == WithBankItem(s, t)
           used == [s.used EXCEPT ![t] = @ + 1]
           item == [stage |-> t, value |-> Null, answered |-> FALSE]
<1>1. s \in Runs
  BY DEF SoundRun
<1>2. s.used \in [{"letter", "word"} -> Nat] /\ item \in Items /\ t \in Stage
  BY <1>1, ItemTypes DEF Runs, Stage
<1>3. /\ used \in [{"letter", "word"} -> Nat] /\ used[t] = s.used[t] + 1
      /\ \A u \in {"letter", "word"} : u # t => used[u] = s.used[u]
  BY <1>2
<1>4. n = [[s EXCEPT !.item = item] EXCEPT !.used = used]
  BY DEF WithBankItem
<1>5. item.stage = t /\ item.answered = FALSE
  OBVIOUS
<1> HIDE DEF n, used, item
<1>6. /\ n \in Runs /\ n.status = s.status /\ n.stage = s.stage /\ n.item = item
      /\ n.used = used /\ n.counts = s.counts /\ n.seen = s.seen /\ n.outcomes = s.outcomes
  BY <1>1, <1>2, <1>3, <1>4 DEF Runs
<1>7. CountedIn(n)
  <2>1. /\ Pending(n, t) = 1 /\ \A u : u # t => Pending(n, u) = 0
        /\ \A u : Pending(s, u) = 0
    BY <1>5, <1>6 DEF Pending
  <2>2. \A u \in Stage : Total(s.counts[u]) \in Nat
    BY <1>1 DEF Runs, Total, Counters
  <2>3. \A u \in {"letter", "word"} : n.used[u] = Total(n.counts[u]) + Pending(n, u)
    BY <1>3, <1>6, <2>1, <2>2 DEF SoundRun, CountedIn, Stage
  <2>4. Shown(n, Paragraphs) = Shown(s, Paragraphs) /\ Shown(n, Stories) = Shown(s, Stories)
    BY <1>6 DEF Shown
  <2> QED BY <1>6, <2>1, <2>3, <2>4 DEF SoundRun, CountedIn
<1>8. Between(n) /\ ItemOfStage(n) /\ Apart(n)
  BY <1>5, <1>6 DEF SoundRun, Between, ItemOfStage, Apart
<1> QED BY <1>5, <1>6, <1>7, <1>8 DEF SoundRun, n

\* A passage that is drawn was not seen before, so that one more is shown.
LEMMA PassageSound ==
  ASSUME NEW s, SoundRun(s), s.item.answered, s.stage \in {"paragraph", "story"},
         NEW p \in Drawable(s)
  PROVE  LET n == WithPassage(s, p)
         IN  /\ SoundRun(n) /\ n.status = s.status /\ n.stage = s.stage
<1> DEFINE n == WithPassage(s, p)
           item == [stage |-> s.stage, value |-> p, answered |-> FALSE]
           P == IF s.stage = "story" THEN Stories ELSE Paragraphs
<1>1. s \in Runs
  BY DEF SoundRun
<1>2. p \in P /\ p \notin s.seen /\ p \in TestPassages
  BY DEF Drawable, TestPassages
<1>3. item \in Items /\ s.stage \in Stage /\ s.seen \cup {p} \in SUBSET TestPassages
  BY <1>1, <1>2, ItemTypes DEF Runs
<1>4. item.stage = s.stage /\ item.answered = FALSE
  OBVIOUS
<1>5. n = [[s EXCEPT !.item = item] EXCEPT !.seen = s.seen \cup {p}]
  BY DEF WithPassage
<1> HIDE DEF n, item
<1>6. /\ n \in Runs /\ n.status = s.status /\ n.stage = s.stage /\ n.item = item
      /\ n.used = s.used /\ n.counts = s.counts /\ n.seen = s.seen \cup {p}
      /\ n.outcomes = s.outcomes
  BY <1>1, <1>3, <1>5 DEF Runs
<1>7. /\ Shown(n, P) = Shown(s, P) + 1
      /\ Shown(n, Paragraphs) \in Nat /\ Shown(n, Stories) \in Nat
      /\ Shown(s, Paragraphs) \in Nat /\ Shown(s, Stories) \in Nat
  <2>1. \A S : /\ IsFiniteSet(S \cap Paragraphs) /\ IsFiniteSet(S \cap Stories)
               /\ Cardinality(S \cap Paragraphs) \in Nat /\ Cardinality(S \cap Stories) \in Nat
    <3>1. \A S : S \cap Paragraphs \subseteq Paragraphs /\ S \cap Stories \subseteq Stories
      OBVIOUS
    <3> QED BY <3>1, ItemsAssumption, FS_Subset, FS_CardinalityType
  <2>2. IsFiniteSet(s.seen \cap P) /\ p \notin s.seen \cap P
    BY <1>2, <2>1
  <2>3. n.seen \cap P = (s.seen \cap P) \cup {p}
    BY <1>2, <1>6
  <2>4. Cardinality((s.seen \cap P) \cup {p}) = Cardinality(s.seen \cap P) + 1
    BY <2>2, FS_AddElement
  <2> QED BY <2>1, <2>3, <2>4 DEF Shown
<1>8. Shown(n, IF s.stage = "story" THEN Paragraphs ELSE Stories)
        = Shown(s, IF s.stage = "story" THEN Paragraphs ELSE Stories)
  <2>1. p \notin (IF s.stage = "story" THEN Paragraphs ELSE Stories)
    BY <1>2, ItemsAssumption
  <2>2. n.seen \cap (IF s.stage = "story" THEN Paragraphs ELSE Stories)
          = s.seen \cap (IF s.stage = "story" THEN Paragraphs ELSE Stories)
    BY <1>6, <2>1
  <2> QED BY <2>2 DEF Shown
<1>9. CountedIn(n)
  <2>1. /\ Pending(n, s.stage) = 1 /\ \A u : u # s.stage => Pending(n, u) = 0
        /\ \A u : Pending(s, u) = 0
    BY <1>4, <1>6 DEF Pending
  <2>2. \A u \in Stage : Total(s.counts[u]) \in Nat
    BY <1>1 DEF Runs, Total, Counters
  <2>3. \A u \in {"letter", "word"} : n.used[u] = Total(n.counts[u]) + Pending(n, u)
    BY <1>6, <2>1, <2>2 DEF SoundRun, CountedIn, Stage
  <2>4. /\ Total(n.counts["paragraph"]) + Pending(n, "paragraph") <= Shown(n, Paragraphs)
        /\ Total(n.counts["story"]) + Pending(n, "story") <= Shown(n, Stories)
    BY <1>6, <1>7, <1>8, <2>1, <2>2 DEF SoundRun, CountedIn, Stage
  <2> QED BY <2>3, <2>4 DEF CountedIn
<1>10. Between(n) /\ ItemOfStage(n) /\ Apart(n)
  BY <1>4, <1>6 DEF SoundRun, Between, ItemOfStage, Apart
<1> QED BY <1>6, <1>9, <1>10 DEF SoundRun, n

\* An item that is taken back was not counted, and is not any more.
LEMMA TakenBackSound ==
  ASSUME NEW s, SoundRun(s), s.item.stage \in {"paragraph", "story"} \/ s.item.answered
  PROVE  LET n == [s EXCEPT !.item = NoItem]
         IN  /\ SoundRun(n) /\ n.status = s.status /\ n.stage = s.stage /\ n.item.answered
             /\ n.counts = s.counts
<1> DEFINE n == [s EXCEPT !.item = NoItem]
<1>1. s \in Runs
  BY DEF SoundRun
<1>2. /\ n \in Runs /\ n.status = s.status /\ n.stage = s.stage /\ n.item = NoItem
      /\ n.used = s.used /\ n.counts = s.counts /\ n.seen = s.seen
      /\ n.outcomes = s.outcomes
  BY <1>1, ItemTypes DEF Runs
<1> HIDE DEF n
<1>3. CountedIn(n)
  <2>1. \A u : Pending(n, u) = 0 /\ Pending(s, u) \in {0, 1}
    BY <1>2, ItemTypes DEF Pending
  <2>2. Pending(s, "letter") = 0 /\ Pending(s, "word") = 0
    BY DEF Pending
  <2>3. \A u \in Stage : Total(s.counts[u]) \in Nat
    BY <1>1 DEF Runs, Total, Counters
  <2>4. Shown(n, Paragraphs) = Shown(s, Paragraphs) /\ Shown(n, Stories) = Shown(s, Stories)
    BY <1>2 DEF Shown
  <2>5. \A u \in {"letter", "word"} : n.used[u] = Total(n.counts[u]) + Pending(n, u)
    BY <1>2, <2>1, <2>2 DEF SoundRun, CountedIn
  <2>6. Shown(s, Paragraphs) \in Nat /\ Shown(s, Stories) \in Nat
    <3>1. s.seen \cap Paragraphs \subseteq Paragraphs /\ s.seen \cap Stories \subseteq Stories
      OBVIOUS
    <3> QED BY <3>1, ItemsAssumption, FS_Subset, FS_CardinalityType DEF Shown
  <2>7. /\ Total(n.counts["paragraph"]) + Pending(n, "paragraph") <= Shown(n, Paragraphs)
        /\ Total(n.counts["story"]) + Pending(n, "story") <= Shown(n, Stories)
    BY <1>2, <2>1, <2>3, <2>4, <2>6 DEF SoundRun, CountedIn, Stage
  <2> QED BY <2>5, <2>7 DEF CountedIn
<1>4. Between(n) /\ ItemOfStage(n) /\ Apart(n)
  BY <1>2, ItemTypes DEF SoundRun, Between, ItemOfStage, Apart
<1> QED BY <1>2, <1>3, <1>4, ItemTypes DEF SoundRun, n

-----------------------------------------------------------------------------
(* The steps.                                                              *)

\* TestLessons by where they are.
LEMMA TestLessonTypes ==
  /\ \A at \in {"none", "item", "rest", "normal"} :
       PlainLesson(at) \in TestLessons /\ PlainLesson(at).at = at
  /\ \A at \in {"none", "item", "rest", "normal", "letter", "drill"}, n \in Int,
        t \in [correct : Nat, incorrect : Nat, done : BOOLEAN] :
       /\ Lesson(at, t, n) \in TestLessons
       /\ Lesson(at, t, n).at = at /\ Lesson(at, t, n).test = t
BY DEF PlainLesson, Lesson, NoLetters, TestLessons

\* A lesson that tests no letters leaves the letter test's part of the invariant
\* to the run alone.
LEMMA PlainInv ==
  ASSUME NEW l, l \in TestLessons, l.at \notin {"letter", "drill"}, lesson' = l,
         SoundRun(run'), early' \in BOOLEAN, EndInv'
  PROVE  TestInv'
<1>1. LetterInv'
  BY DEF LetterInv
<1> QED BY <1>1 DEF TestInv, RunsOK, SoundRun

\* What a fresh lesson does with a run in progress.
LEMMA DrawInv ==
  ASSUME NEW s, SoundRun(s), s.status = "in_progress", s.item.answered, early = FALSE,
         DrawNext(s)
  PROVE  TestInv'
<1>1. CASE EndEarly(s)
  <2>1. run' = Finish(s) /\ lesson' = PlainLesson("normal") /\ early' = TRUE
    BY <1>1 DEF EndEarly
  <2>2. SoundRun(run') /\ run'.status = "done"
    BY <2>1, FinishSound
  <2>3. EndInv'
    BY <2>1, <2>2 DEF EndInv
  <2> QED BY <2>1, <2>2, <2>3, TestLessonTypes, PlainInv
<1>2. CASE DrawItem(s)
  <2>0. s \in Runs /\ early' = FALSE
    BY <1>2 DEF DrawItem, SoundRun
  <2>1. CASE s.stage = "letter" /\ run' = [s EXCEPT !.item = NoItem] /\ lesson' = LetterLesson(s)
    <3>1. /\ SoundRun(run') /\ run'.status = "in_progress" /\ run'.stage = "letter"
          /\ run'.item.answered /\ run'.counts = s.counts
      BY <2>1, TakenBackSound
    <3>2. s.counts["letter"] \in Counters /\ s.used["letter"] \in Nat
      BY <2>0 DEF Runs, Stage
    <3>3. /\ lesson' \in TestLessons /\ ~lesson'.test.done
          /\ lesson'.test.correct = s.counts["letter"].correct
          /\ lesson'.test.incorrect = s.counts["letter"].incorrect
      <4> DEFINE t == [correct |-> CarriedCounts(s).correct,
                       incorrect |-> CarriedCounts(s).incorrect, done |-> FALSE]
                 n == AserBankSize - s.used["letter"] - 1
      <4>1. t \in [correct : Nat, incorrect : Nat, done : BOOLEAN] /\ n \in Int
        BY <3>2, BankAssumption DEF CarriedCounts, Counters
      <4>2. lesson' = Lesson("letter", t, n)
        BY <2>1 DEF LetterLesson
      <4>3. t.correct = s.counts["letter"].correct /\ ~t.done
            /\ t.incorrect = s.counts["letter"].incorrect
        BY DEF CarriedCounts
      <4> HIDE DEF t, n
      <4> QED BY <4>1, <4>2, <4>3, TestLessonTypes
    <3>4. LetterInv'
      BY <3>1, <3>3 DEF LetterInv
    <3>5. EndInv'
      BY <2>0, <3>1 DEF EndInv
    <3> QED BY <2>0, <3>1, <3>3, <3>4, <3>5 DEF TestInv, RunsOK, SoundRun
  <2>2. CASE s.stage = "word" /\ run' = WithBankItem(s, "word") /\ lesson' = PlainLesson("item")
    <3>1. SoundRun(run') /\ run'.status = "in_progress"
      BY <2>2, BankItemSound
    <3>2. EndInv'
      BY <2>0, <3>1 DEF EndInv
    <3> QED BY <2>0, <2>2, <3>1, <3>2, TestLessonTypes, PlainInv
  <2>3. CASE s.stage \in {"paragraph", "story"} /\ lesson' = PlainLesson("item")
             /\ \E p \in Drawable(s) : run' = WithPassage(s, p)
    <3>1. SoundRun(run') /\ run'.status = "in_progress"
      BY <2>3, PassageSound
    <3>2. EndInv'
      BY <2>0, <3>1 DEF EndInv
    <3> QED BY <2>0, <2>3, <3>1, <3>2, TestLessonTypes, PlainInv
  <2> QED BY <1>2, <2>1, <2>2, <2>3 DEF DrawItem
<1> QED BY <1>1, <1>2 DEF DrawNext

\* A voice note that answers an item, or nothing.
LEMMA TurnInv ==
  ASSUME TestInv, NEW correct \in BOOLEAN, Turn(RecordAnswer(run, correct))
  PROVE  /\ SoundRun(run') /\ EndInv' /\ early' \in BOOLEAN
         /\ run.item.answered => run' = run
<1>1. SoundRun(run) /\ early' = early /\ early \in BOOLEAN
  BY DEF TestInv, RunsOK, Turn
<1>2. CASE TakesAnswer(run)
  <2>1. run' = RecordAnswer(run, correct) /\ run.status = "in_progress" /\ ~run.item.answered
    BY <1>2 DEF Turn, TakesAnswer
  <2>2. SoundRun(run') /\ run'.status \in {"in_progress", "done"}
        /\ (run'.status = "done" => Closed(run'))
    BY <1>1, <1>2, <2>1, Recorded
  <2>3. ~early
    BY <2>1 DEF TestInv, EndInv
  <2>4. EndInv'
    BY <1>1, <2>2, <2>3 DEF EndInv, Closed
  <2> QED BY <1>1, <2>1, <2>2, <2>4
<1>3. CASE ~TakesAnswer(run)
  <2>1. run' = run
    BY <1>1, <1>3, Recorded DEF Turn
  <2> QED BY <1>1, <2>1 DEF TestInv, EndInv, Closed
<1> QED BY <1>2, <1>3

\* The machine goes on with the letter test while the run does.
LEMMA NextLetterInv ==
  ASSUME NEW t \in [correct : Nat, incorrect : Nat, done : BOOLEAN], lesson \in TestLessons,
         lesson' = AfterLetter(t), SoundRun(run'), EndInv', early' \in BOOLEAN,
         ~LeavesLoop(t) =>
           /\ run'.item.answered
           /\ run'.status = "in_progress" =>
                /\ run'.stage = "letter"
                /\ t.correct = run'.counts["letter"].correct
                /\ t.incorrect = run'.counts["letter"].incorrect
  PROVE  TestInv'
<1>1. lesson.queue \in Int
  BY DEF TestLessons
<1>2. CASE LeavesLoop(t)
  <2>1. lesson' = Lesson("item", t, 0)
    BY <1>2 DEF AfterLetter
  <2>2. PICK l : l = Lesson("item", t, 0)
    OBVIOUS
  <2>3. l \in TestLessons /\ l.at = "item"
    BY <2>2, TestLessonTypes
  <2>4. l.at \notin {"letter", "drill"} /\ lesson' = l
    BY <2>1, <2>2, <2>3
  <2> QED BY <2>3, <2>4, PlainInv
<1>3. CASE ~LeavesLoop(t)
  <2>1. lesson' = Lesson("letter", t, lesson.queue - 1) /\ ~t.done
    BY <1>3 DEF AfterLetter, LeavesLoop
  <2>2. lesson' \in TestLessons /\ lesson'.at = "letter" /\ lesson'.test = t
    BY <1>1, <2>1, TestLessonTypes
  <2>3. LetterInv'
    BY <1>3, <2>1, <2>2 DEF LetterInv
  <2> QED BY <2>2, <2>3 DEF TestInv, RunsOK, SoundRun
<1> QED BY <1>2, <1>3

\* The machine counts an answer to a letter.
LEMMA CountType ==
  ASSUME lesson \in TestLessons, NEW correct \in BOOLEAN
  PROVE  /\ Count(correct) \in [correct : Nat, incorrect : Nat, done : BOOLEAN]
         /\ Count(correct).correct = lesson.test.correct + (IF correct THEN 1 ELSE 0)
         /\ Count(correct).incorrect = lesson.test.incorrect + (IF correct THEN 0 ELSE 1)
         /\ Count(correct).done <=>
              CountVerdict([correct   |-> lesson.test.correct + (IF correct THEN 1 ELSE 0),
                            incorrect |-> lesson.test.incorrect + (IF correct THEN 0 ELSE 1)])
                # Null
<1>1. lesson.test \in [correct : Nat, incorrect : Nat, done : BOOLEAN]
  BY DEF TestLessons
<1> DEFINE c == [correct   |-> lesson.test.correct + (IF correct THEN 1 ELSE 0),
                 incorrect |-> lesson.test.incorrect + (IF correct THEN 0 ELSE 1)]
<1>2. c.correct \in Nat /\ c.incorrect \in Nat
  BY <1>1
<1> DEFINE decided == CountVerdict(c) # Null
<1>3. Count(correct) = [correct |-> c.correct, incorrect |-> c.incorrect, done |-> decided]
  BY DEF Count
<1>4. decided \in BOOLEAN
  OBVIOUS
<1> HIDE DEF c, decided
<1>5. Count(correct) \in [correct : Nat, incorrect : Nat, done : BOOLEAN]
  BY <1>2, <1>3, <1>4
<1>6. /\ Count(correct).correct = c.correct /\ Count(correct).incorrect = c.incorrect
      /\ Count(correct).done = decided
  BY <1>3
<1> QED BY <1>5, <1>6 DEF c, decided

\* An answer to an asked letter: the run counts it as the machine does.
LEMMA LetterTurn ==
  ASSUME TestInv, lesson.at = "letter", NEW correct \in BOOLEAN, NEW back \in BOOLEAN,
         back => Count(correct).done,
         Turn(RecordLetter(correct, back))
  PROVE  /\ SoundRun(run') /\ EndInv' /\ early' \in BOOLEAN
         /\ ~back => run'.item.answered
         /\ ~Count(correct).done /\ run'.status = "in_progress" =>
              /\ run'.stage = "letter"
              /\ Count(correct).correct = run'.counts["letter"].correct
              /\ Count(correct).incorrect = run'.counts["letter"].incorrect
<1> DEFINE w == WithBankItem(run, "letter")
           s == RecordAnswer(w, correct)
<1>1. /\ SoundRun(run) /\ lesson \in TestLessons /\ early' = early /\ early \in BOOLEAN
      /\ run.item.answered
  BY DEF TestInv, RunsOK, Turn, LetterInv
<1>2. CASE run.status # "in_progress"
  BY <1>1, <1>2 DEF Turn, TestInv, EndInv, Closed
<1>3. CASE run.status = "in_progress"
  <2>1. /\ run.stage = "letter" /\ ~early
        /\ lesson.test.correct = run.counts["letter"].correct
        /\ lesson.test.incorrect = run.counts["letter"].incorrect
    BY <1>3 DEF TestInv, LetterInv, EndInv
  <2>2. /\ SoundRun(w) /\ w.status = "in_progress" /\ w.stage = "letter" /\ ~w.item.answered
        /\ w.counts = run.counts
    BY <1>1, <1>3, <2>1, BankItemSound
  <2>3. TakesAnswer(w)
    BY <2>2 DEF TakesAnswer
  <2>4. /\ SoundRun(s) /\ s.item.answered /\ s.status \in {"in_progress", "done"}
        /\ s.status = "done" => Closed(s)
    BY <2>2, <2>3, Recorded
  <2>5. ~Count(correct).done /\ s.status = "in_progress" =>
          /\ s.stage = "letter"
          /\ Count(correct).correct = s.counts["letter"].correct
          /\ Count(correct).incorrect = s.counts["letter"].incorrect
    <3> DEFINE c == [correct   |-> w.counts["letter"].correct + (IF correct THEN 1 ELSE 0),
                     incorrect |-> w.counts["letter"].incorrect + (IF correct THEN 0 ELSE 1)]
    <3>1. CountVerdict(c) = Null /\ s.status = "in_progress" =>
            /\ s.stage = "letter"
            /\ s.counts["letter"].correct = c.correct
            /\ s.counts["letter"].incorrect = c.incorrect
      BY <2>2, <2>3, RecordedLetter
    <3>2. /\ c = [correct   |-> lesson.test.correct + (IF correct THEN 1 ELSE 0),
                  incorrect |-> lesson.test.incorrect + (IF correct THEN 0 ELSE 1)]
      BY <2>1, <2>2
    <3>3. /\ Count(correct).done <=> CountVerdict(c) # Null
          /\ Count(correct).correct = c.correct /\ Count(correct).incorrect = c.incorrect
      BY <1>1, <3>2, CountType
    <3> QED BY <3>1, <3>3
  <2>6. run' = IF back /\ s.status = "in_progress" /\ s.stage = "word"
               THEN WithBankItem(s, "word") ELSE s
    BY <1>3 DEF Turn, RecordLetter
  <2> HIDE DEF s
  <2>7. CASE back /\ s.status = "in_progress" /\ s.stage = "word"
    <3>1. SoundRun(run') /\ run'.status = "in_progress"
      BY <2>4, <2>6, <2>7, BankItemSound
    <3> QED BY <1>1, <2>1, <2>7, <3>1 DEF EndInv
  <2>8. CASE ~(back /\ s.status = "in_progress" /\ s.stage = "word")
    <3>1. run' = s
      BY <2>6, <2>8
    <3>2. EndInv'
      BY <1>1, <2>1, <2>4, <3>1 DEF EndInv, Closed
    <3> QED BY <1>1, <2>4, <2>5, <3>1, <3>2
  <2> QED BY <2>7, <2>8
<1> QED BY <1>2, <1>3

\* A new student's run has begun nothing.
LEMMA TestInvInit == TestInit => TestInv
<1> SUFFICES ASSUME TestInit PROVE TestInv
  OBVIOUS
<1> DEFINE n == NewRun(FALSE, Null, "word")
<1>1. SoundRun(n) /\ n \in Runs
  BY NewRunSound DEF Stage, SoundRun
<1>2. run = [n EXCEPT !.status = "none"] /\ early = FALSE
  BY DEF TestInit, NoRun
<1> HIDE DEF n
<1>3. /\ run \in Runs /\ run.status = "none" /\ run.stage = n.stage
      /\ run.outcomes = n.outcomes /\ run.counts = n.counts /\ run.used = n.used
      /\ run.seen = n.seen /\ run.item = n.item
  BY <1>1, <1>2 DEF Runs
<1>4. CountedIn(run)
  BY <1>1, <1>3, SameCounted DEF SoundRun
<1>5. SoundRun(run)
  BY <1>1, <1>3, <1>4 DEF SoundRun, Between, ItemOfStage, Apart
<1>6. lesson \in TestLessons /\ lesson.at \notin {"letter", "drill"}
  BY TestLessonTypes DEF TestInit
<1> QED BY <1>2, <1>3, <1>5, <1>6 DEF TestInv, RunsOK, LetterInv, EndInv

\* Every step keeps the invariant.
LEMMA TestInvStep == TestInv /\ [TestNext]_testVars => TestInv'
<1> SUFFICES ASSUME TestInv, [TestNext]_testVars PROVE TestInv'
  OBVIOUS
<1>0. /\ SoundRun(run) /\ run \in Runs /\ lesson \in TestLessons /\ early \in BOOLEAN
      /\ run.status = "in_progress" => early = FALSE
  BY DEF TestInv, RunsOK, EndInv
<1>1. CASE DeliverAgain
  <2>1. /\ lesson' = PlainLesson("item") /\ run' = run /\ early' = early
        /\ run.status = "in_progress"
    BY <1>1 DEF DeliverAgain
  <2>2. EndInv'
    BY <1>0, <2>1 DEF EndInv
  <2> QED BY <1>0, <2>1, <2>2, TestLessonTypes, PlainInv
<1>2. CASE DeliverAnother
  <2>1. /\ run.status = "in_progress" /\ run.item.stage \in {"paragraph", "story"}
        /\ DrawNext([run EXCEPT !.item = NoItem])
    BY <1>2 DEF DeliverAnother, Gone
  <2> QED BY <1>0, <2>1, TakenBackSound, DrawInv
<1>3. CASE DeliverNext
  BY <1>0, <1>3, DrawInv DEF DeliverNext
<1>4. CASE AfterTheTest
  <2>1. run' = NoRun /\ lesson' = PlainLesson("normal") /\ early' = FALSE
    BY <1>4 DEF AfterTheTest
  <2> DEFINE n == NewRun(FALSE, Null, "word")
  <2>2. SoundRun(n) /\ n \in Runs
    BY NewRunSound DEF Stage, SoundRun
  <2>3. run' = [n EXCEPT !.status = "none"]
    BY <2>1 DEF NoRun
  <2> HIDE DEF n
  <2>4. /\ run' \in Runs /\ run'.status = "none" /\ run'.stage = n.stage
        /\ run'.outcomes = n.outcomes /\ run'.counts = n.counts /\ run'.used = n.used
        /\ run'.seen = n.seen /\ run'.item = n.item
    BY <2>2, <2>3 DEF Runs
  <2>5. CountedIn(run')
    BY <2>2, <2>4, SameCounted DEF SoundRun
  <2>6. SoundRun(run')
    BY <2>2, <2>4, <2>5 DEF SoundRun, Between, ItemOfStage, Apart
  <2>7. EndInv'
    BY <2>1, <2>4 DEF EndInv
  <2> QED BY <2>1, <2>6, <2>7, TestLessonTypes, PlainInv
<1>5. CASE StartRun
  <2>1. PICK bank \in BankOptions(ShownBanks(past)),
             start \in IF lesson.at = "none" THEN {"word"} ELSE Stage \ {"letter"} :
               DrawNext(NewRun(lesson.at = "none", bank, start))
    BY <1>5 DEF StartRun
  <2>2. bank \in Banks /\ start \in Stage
    <3>1. BankOptions(ShownBanks(past)) \subseteq Banks
      BY DEF BankOptions
    <3> QED BY <3>1 DEF Stage
  <2>3. early = FALSE
    BY <1>0, <1>5 DEF StartRun, TestInv, EndInv
  <2>4. SoundRun(NewRun(lesson.at = "none", bank, start))
        /\ NewRun(lesson.at = "none", bank, start).status = "in_progress"
        /\ NewRun(lesson.at = "none", bank, start).item.answered
    BY <2>2, NewRunSound
  <2> QED BY <2>1, <2>3, <2>4, DrawInv
<1>6. CASE AnswerItem
  <2>1. PICK correct \in BOOLEAN : Turn(RecordAnswer(run, correct))
    BY <1>6 DEF AnswerItem
  <2>2. SoundRun(run') /\ EndInv' /\ early' \in BOOLEAN
    BY <2>1, TurnInv
  <2>3. lesson' = PlainLesson("rest")
    BY <1>6 DEF AnswerItem
  <2> QED BY <2>2, <2>3, TestLessonTypes, PlainInv
<1>7. CASE AnswerRest
  <2>1. PICK correct \in BOOLEAN : Turn(RecordAnswer(run, correct))
    BY <1>7 DEF AnswerRest
  <2>2. /\ SoundRun(run') /\ EndInv' /\ early' \in BOOLEAN
        /\ run.item.answered => run' = run
    BY <2>1, TurnInv
  <2>3. lesson' = lesson
    BY <1>7 DEF AnswerRest
  <2>4. LetterInv'
    BY <2>2, <2>3 DEF TestInv, LetterInv
  <2> QED BY <1>0, <2>2, <2>3, <2>4 DEF TestInv, RunsOK, SoundRun
<1>8. CASE TestLetterRight
  <2>1. /\ lesson.at = "letter" /\ lesson' = AfterLetter(Count(TRUE))
        /\ Turn(RecordLetter(TRUE, Count(TRUE).done))
    BY <1>8 DEF TestLetterRight
  <2>2. Count(TRUE) \in [correct : Nat, incorrect : Nat, done : BOOLEAN]
    BY <1>0, CountType
  <2>3. Count(TRUE).done \in BOOLEAN
    BY <2>2
  <2>4. /\ SoundRun(run') /\ EndInv' /\ early' \in BOOLEAN
        /\ ~Count(TRUE).done => run'.item.answered
        /\ ~Count(TRUE).done /\ run'.status = "in_progress" =>
             /\ run'.stage = "letter"
             /\ Count(TRUE).correct = run'.counts["letter"].correct
             /\ Count(TRUE).incorrect = run'.counts["letter"].incorrect
    BY <2>1, <2>3, LetterTurn
  <2> QED BY <1>0, <2>1, <2>2, <2>4, NextLetterInv DEF LeavesLoop
<1>9. CASE TestLetterWrong
  <2>1. /\ lesson.at = "letter" /\ lesson' = [lesson EXCEPT !.at = "drill", !.test = Count(FALSE)]
        /\ Turn(RecordLetter(FALSE, FALSE))
    BY <1>9 DEF TestLetterWrong
  <2>2. Count(FALSE) \in [correct : Nat, incorrect : Nat, done : BOOLEAN]
    BY <1>0, CountType
  <2>3. /\ SoundRun(run') /\ EndInv' /\ early' \in BOOLEAN
        /\ run'.item.answered
        /\ ~Count(FALSE).done /\ run'.status = "in_progress" =>
             /\ run'.stage = "letter"
             /\ Count(FALSE).correct = run'.counts["letter"].correct
             /\ Count(FALSE).incorrect = run'.counts["letter"].incorrect
    BY <2>1, LetterTurn
  <2>4. lesson' \in TestLessons /\ lesson'.at = "drill" /\ lesson'.test = Count(FALSE)
    BY <1>0, <2>1, <2>2 DEF TestLessons
  <2>5. LetterInv'
    BY <2>3, <2>4 DEF LetterInv
  <2> QED BY <2>3, <2>4, <2>5 DEF TestInv, RunsOK, SoundRun
<1>10. CASE LeaveLetter
  <2>1. PICK correct \in BOOLEAN : Turn(RecordAnswer(run, correct))
    BY <1>10 DEF LeaveLetter
  <2>2. lesson.at = "drill" /\ lesson' = AfterLetter(lesson.test) /\ run.item.answered
    BY <1>10 DEF LeaveLetter, TestInv, LetterInv
  <2>3. SoundRun(run') /\ EndInv' /\ early' \in BOOLEAN /\ run' = run
    BY <2>1, <2>2, TurnInv
  <2>4. lesson.test \in [correct : Nat, incorrect : Nat, done : BOOLEAN]
    BY <1>0 DEF TestLessons
  <2>5. ~LeavesLoop(lesson.test) /\ run.status = "in_progress" =>
          /\ run.stage = "letter"
          /\ lesson.test.correct = run.counts["letter"].correct
          /\ lesson.test.incorrect = run.counts["letter"].incorrect
    BY <2>2 DEF TestInv, LetterInv, LeavesLoop
  <2> QED BY <1>0, <2>2, <2>3, <2>4, <2>5, NextLetterInv
<1>11. CASE Cull \/ UNCHANGED testVars
  <2>1. UNCHANGED <<run, lesson, early>>
    BY <1>11 DEF Cull, testVars
  <2> QED BY <2>1 DEF TestInv, RunsOK, LetterInv, EndInv, Closed
<1> QED
  BY <1>1, <1>2, <1>3, <1>4, <1>5, <1>6, <1>7, <1>8, <1>9, <1>10, <1>11 DEF TestNext

-----------------------------------------------------------------------------
\* The invariant of the test runs (aser.ts, aser.service.ts, aser-turn.ts).
LEMMA TestInvAlways == TestSpec => []TestInv
BY TestInvInit, TestInvStep, PTL DEF TestSpec

\* Every item handed out is counted once: recordAserAnswer counts the first answer
\* of an item, whichever turn of the lesson brings it, and an item of the bank that
\* a lesson was left with is the only one that is not counted yet.
THEOREM EveryItemCountedOnce == TestSpec => []CountedOnce
<1>1. TestInv => CountedOnce
  BY DEF TestInv, SoundRun, CountedIn, CountedOnce, Pending, Shown
<1> QED BY <1>1, TestInvAlways, PTL

\* The level a test reports is bracketed by what the student failed, and no level is
\* failed below one that is passed, however the first words jumped.
THEOREM ResultIsBracketed == TestSpec => []Bracketed
<1>1. TestInv => Bracketed
  <2> SUFFICES ASSUME TestInv PROVE Bracketed
    OBVIOUS
  <2>1. Apart(run) /\ (run.status = "done" /\ ~early => Closed(run))
    BY DEF TestInv, SoundRun, EndInv
  <2>2. Apart(run) => \A t, u \in Stage :
          run.outcomes[t] = "passed" /\ run.outcomes[u] = "failed"
            => LevelRank[t] < LevelRank[u]
    BY DEF Apart
  <2> QED BY <2>1, <2>2 DEF Bracketed, Closed
<1> QED BY <1>1, TestInvAlways, PTL

-----------------------------------------------------------------------------
(* What a student is given to read.                                        *)

Texts    == Words \cup Bank \cup TestTexts
Marks    == {"start", "flow", "again", "right", "image", "failed", "first", "retry",
             "tapRight", "tapWrong", "placed", "tested"}
PlanRows == [text : Texts, level : Int, mark : Marks, done : BOOLEAN, test : BOOLEAN]
PlanTypes == rows \in Seq(PlanRows) /\ forced \in Int

\* A step of NewWhileThereAreNew.
NewIfThereIs ==
  LET given == {rows[i].text : i \in DOMAIN rows}
  IN  Started /\ Last(rows').text \in Bank /\ Bank \ given # {}
      => Last(rows').text \notin given

\* ...and those up to a bound a greatest one.
LEMMA GreatestNumber ==
  ASSUME NEW n \in Nat, NEW T \in SUBSET (1 .. n), T # {}
  PROVE  \E m \in T : \A k \in T : k <= m
<1> DEFINE D == {n - k : k \in T}
<1>1. D \in SUBSET Nat /\ D # {}
  <2>1. \A k \in T : n - k \in Nat
    OBVIOUS
  <2> QED BY <2>1
<1>2. PICK d \in D : \A e \in D : d <= e
  BY <1>1, LeastNumber
<1>3. PICK m \in T : d = n - m
  BY <1>2
<1>4. \A k \in T : n - m <= n - k
  BY <1>2, <1>3
<1> QED BY <1>4

\* There is a nearest passage to any level.
LEMMA SomeNearest ==
  ASSUME NEW ps \in SUBSET Bank, ps # {}, NEW level \in Int
  PROVE  NearestPassages(ps, level) # {}
<1> DEFINE D == {Away(p, level) : p \in ps}
<1>1. \A p \in ps : Away(p, level) \in Nat
  <2> TAKE p \in ps
  <2>1. PassageLevel[p] \in Int
    BY PlanAssumption
  <2> QED BY <2>1 DEF Away
<1>2. D \in SUBSET Nat /\ D # {}
  BY <1>1
<1>3. PICK d \in D : \A e \in D : d <= e
  BY <1>2, LeastNumber
<1>4. PICK p \in ps : d = Away(p, level)
  BY <1>3
<1>5. \A q \in ps : Away(p, level) <= Away(q, level)
  BY <1>3, <1>4
<1> QED BY <1>5 DEF NearestPassages

\* The last element of a sequence that grows.
LEMMA Grown ==
  ASSUME NEW S, NEW s \in Seq(S), NEW x \in S
  PROVE  Append(s, x) \in Seq(S) /\ Last(Append(s, x)) = x
BY AppendProperties DEF Last

\* The newest row is of their types.
LEMMA NewestRow ==
  ASSUME PlanTypes, rows # <<>>
  PROVE  Newest \in PlanRows
BY LenProperties, ElementOfSeq, EmptySeq DEF PlanTypes, Newest, Last

\* The next level is a number.
LEMMA LevelType == ASSUME PlanTypes PROVE NextLevel \in Int
<1>1. Base \in Int
  <2>1. CASE Stored # {}
    <3> DEFINE i == CHOOSE i \in Stored : \A k \in Stored : k <= i
    <3>1. Len(rows) \in Nat /\ DOMAIN rows = 1 .. Len(rows)
      BY LenProperties DEF PlanTypes
    <3>2. Stored \in SUBSET (1 .. Len(rows))
      BY <3>1 DEF Stored
    <3>3. \E m \in Stored : \A k \in Stored : k <= m
      BY <2>1, <3>1, <3>2, GreatestNumber
    <3>4. i \in Stored
      BY <3>3
    <3>5. rows[i] \in PlanRows
      BY <3>1, <3>2, <3>4, ElementOfSeq DEF PlanTypes
    <3>6. Base = rows[i].level
      BY <2>1 DEF Base
    <3> HIDE DEF i
    <3> QED BY <3>5, <3>6 DEF PlanRows
  <2>2. CASE Stored = {} /\ rows = <<>>
    BY <2>2 DEF Base
  <2>3. CASE Stored = {} /\ rows # <<>>
    <3>1. Base = Size[Newest.text]
      BY <2>3 DEF Base
    <3>2. Newest.text \in Texts
      BY <2>3, NewestRow DEF PlanRows
    <3> QED BY <3>1, <3>2, PlanAssumption DEF Texts
  <2> QED BY <2>1, <2>2, <2>3
<1>2. {Floor, Threshold, MaxLevel, BoostBy} \subseteq Int
  BY PlanAssumption
<1>3. WordLevel \in Int
  <2> HIDE DEF Base
  <2> QED BY <1>1, <1>2 DEF WordLevel
<1>4. BandSignal \in Int
  BY DEF BandSignal
<1>5. Ratchet \in Int
  BY <1>1, <1>2, <1>3, <1>4 DEF Ratchet, AtMost
<1> QED BY <1>2, <1>5 DEF NextLevel, AtMost, AtLeast, PlanTypes

\* Where an unseen passage is left, one is chosen.
LEMMA NewPassage ==
  ASSUME NEW level \in Int, Bank \ Seen # {}, NEW p \in PassagesFor(level)
  PROVE  p \in Bank \ Seen
<1>1. NearestPassages(Bank \ Seen, level) # {}
  BY SomeNearest
<1> QED BY <1>1 DEF PassagesFor, NearestPassages

\* A student without rows.
LEMMA PlanTypesInit == PlanInit => PlanTypes
BY EmptySeq DEF PlanInit, PlanTypes

\* Every turn writes a row of these types, and only a fresh lesson's row starts one.
LEMMA ReplyTypes ==
  ASSUME PlanTypes, Open, NEW mark \in Marks, mark \notin {"start", "flow"},
         NEW done \in BOOLEAN, Reply(mark, done)
  PROVE  PlanTypes' /\ ~Started
<1> DEFINE x == Row(Newest.text, Newest.level, mark, done)
<1>1. Newest \in PlanRows
  BY NewestRow DEF Open
<1>2. x \in PlanRows /\ x.mark = mark
  BY <1>1 DEF Row, PlanRows
<1>3. rows' = Append(rows, x) /\ forced' = forced
  BY DEF Reply
<1> HIDE DEF x
<1>4. rows' \in Seq(PlanRows) /\ Last(rows') = x
  BY <1>2, <1>3, Grown DEF PlanTypes
<1> QED BY <1>2, <1>3, <1>4 DEF PlanTypes, Started

\* A fresh lesson: a new passage, if there is one, or a word.
LEMMA StartTypes ==
  ASSUME PlanTypes, StartLesson
  PROVE  PlanTypes' /\ NewIfThereIs
<1>1. NextLevel \in Int /\ AtMost(NextLevel, Threshold) \in Int
  BY LevelType, PlanAssumption DEF AtMost
<1>2. forced' = 0
  BY DEF StartLesson
<1>3. ASSUME NEW p \in PassagesFor(NextLevel), NEW mark \in Marks,
             rows' = Append(rows, Row(p, NextLevel, mark, FALSE))
      PROVE  PlanTypes' /\ NewIfThereIs
  <2> DEFINE x == Row(p, NextLevel, mark, FALSE)
  <2>1. p \in Bank
    BY DEF PassagesFor, NearestPassages, Seen
  <2>2. x \in PlanRows /\ x.text = p
    BY <1>1, <2>1 DEF Row, PlanRows, Texts
  <2> HIDE DEF x
  <2>3. rows' \in Seq(PlanRows) /\ Last(rows') = x
    BY <1>3, <2>2, Grown DEF PlanTypes, x
  <2>4. NewIfThereIs
    <3>1. {rows[i].text : i \in DOMAIN rows} \cap Bank = Seen
      BY DEF Seen
    <3>2. Bank \ Seen # {} => p \notin Seen
      BY <1>1, NewPassage
    <3> HIDE DEF Seen
    <3> QED BY <2>1, <2>2, <2>3, <3>1, <3>2 DEF NewIfThereIs
  <2> QED BY <1>2, <2>3, <2>4 DEF PlanTypes
<1>4. ASSUME NEW w \in WordsFor(AtMost(NextLevel, Threshold)),
             rows' = Append(rows, Row(w, AtMost(NextLevel, Threshold), "start", FALSE))
      PROVE  PlanTypes' /\ NewIfThereIs
  <2> DEFINE x == Row(w, AtMost(NextLevel, Threshold), "start", FALSE)
  <2>1. w \in Words /\ w \notin Bank
    BY PlanAssumption DEF WordsFor
  <2>2. x \in PlanRows /\ x.text = w
    BY <1>1, <2>1 DEF Row, PlanRows, Texts, Marks
  <2> HIDE DEF x
  <2>3. rows' \in Seq(PlanRows) /\ Last(rows') = x
    BY <1>4, <2>2, Grown DEF PlanTypes, x
  <2> QED BY <1>2, <2>1, <2>2, <2>3 DEF PlanTypes, NewIfThereIs
<1>5. (IF NextLevel >= FlowLevel THEN "flow" ELSE "start") \in Marks
  BY DEF Marks
<1> QED BY <1>3, <1>4, <1>5 DEF StartLesson

\* A lesson of a test starts nothing.
LEMMA TestTypes ==
  ASSUME PlanTypes, TestLesson
  PROVE  PlanTypes' /\ ~Started
<1>1. PICK t \in TestTexts, l \in {0} \cup Placements :
        /\ rows' = Append(rows, [text |-> t, level |-> 0, done |-> TRUE, test |-> TRUE,
                                 mark |-> IF l > 0 THEN "placed" ELSE "tested"])
        /\ forced' = l
  BY DEF TestLesson
<1> DEFINE x == [text |-> t, level |-> 0, done |-> TRUE, test |-> TRUE,
                 mark |-> IF l > 0 THEN "placed" ELSE "tested"]
<1>2. x \in PlanRows /\ x.test
  <2>1. (IF l > 0 THEN "placed" ELSE "tested") \in Marks
    BY DEF Marks
  <2> QED BY <2>1 DEF PlanRows, Texts
<1>3. l \in Int
  <2>1. Placements \subseteq Nat
    BY PlanAssumption
  <2> QED BY <2>1
<1> HIDE DEF x
<1>4. rows' \in Seq(PlanRows) /\ Last(rows') = x
  BY <1>1, <1>2, Grown DEF PlanTypes, x
<1> QED BY <1>1, <1>2, <1>3, <1>4 DEF PlanTypes, Started

\* Every turn keeps the types and repeats no passage too early.
LEMMA PlanStep ==
  PlanTypes /\ [PlanNext]_planVars => PlanTypes' /\ NewIfThereIs
<1> SUFFICES ASSUME PlanTypes, [PlanNext]_planVars PROVE PlanTypes' /\ NewIfThereIs
  OBVIOUS
<1>0. ~Started => NewIfThereIs
  BY DEF NewIfThereIs
<1>1. CASE UNCHANGED planVars
  BY <1>0, <1>1 DEF planVars, PlanTypes, Started
<1>2. CASE StartLesson
  BY <1>2, StartTypes
<1>3. CASE TestLesson
  BY <1>0, <1>3, TestTypes
<1>4. CASE AnswerWord \/ ReadWrong \/ ReadRight \/ (\E p \in Bank : AnswerQuestion(p))
           \/ VoiceAtQuestion
  <2>1. Open
    BY <1>4 DEF AnswerWord, ReadWrong, ReadRight, AnswerQuestion, VoiceAtQuestion, Reading
  <2>2. \E mark \in {"again", "right", "image", "failed", "first", "retry", "tapRight",
                     "tapWrong"}, done \in BOOLEAN : Reply(mark, done)
    <3>1. CASE ReadRight
      <4>1. Short(Newest.text) \in BOOLEAN
        BY DEF Short
      <4> QED BY <3>1, <4>1 DEF ReadRight
    <3> QED BY <1>4, <3>1 DEF AnswerWord, ReadWrong, AnswerQuestion, VoiceAtQuestion
  <2>3. PICK mark \in {"again", "right", "image", "failed", "first", "retry", "tapRight",
                      "tapWrong"}, done \in BOOLEAN : Reply(mark, done)
    BY <2>2
  <2>4. mark \in Marks /\ mark \notin {"start", "flow"}
    BY DEF Marks
  <2> QED BY <1>0, <2>1, <2>3, <2>4, ReplyTypes
<1> QED BY <1>1, <1>2, <1>3, <1>4 DEF PlanNext

\* For any bank, any windows and thresholds and however long the history: no passage
\* is given again while one was never given (selectNextString, selectPassage).
THEOREM NoRepeatWhileNew == PlanSpec => NewWhileThereAreNew
<1>1. PlanTypes /\ [PlanNext]_planVars => [NewIfThereIs]_planVars
  BY PlanStep
<1>2. PlanTypes /\ [PlanNext]_planVars => PlanTypes'
  BY PlanStep
<1> QED BY <1>1, <1>2, PlanTypesInit, PTL DEF PlanSpec, NewWhileThereAreNew, NewIfThereIs

-----------------------------------------------------------------------------
(* The window.  The n-th last done row of a history is the n-th last of any  *)
(* end of it that holds so many, and its lesson the same if the done row     *)
(* before it is there too.                                                   *)

Above(S, i) == {k \in S : k > i}

\* Some of the positions of a history.
LEMMA AboveFinite ==
  ASSUME NEW m \in Nat, NEW S \in SUBSET (1 .. m)
  PROVE  /\ IsFiniteSet(S) /\ Cardinality(S) \in Nat
         /\ \A i : IsFiniteSet(Above(S, i)) /\ Cardinality(Above(S, i)) \in Nat
         /\ \A T \in SUBSET S : /\ IsFiniteSet(T) /\ Cardinality(T) <= Cardinality(S)
                                /\ Cardinality(T) \in Nat
<1>1. IsFiniteSet(S)
  <2>1. IsFiniteSet(1 .. m)
    BY FS_Interval
  <2> QED BY <2>1, FS_Subset
<1>2. \A i : Above(S, i) \subseteq S
  BY DEF Above
<1> QED BY <1>1, <1>2, FS_Subset, FS_CardinalityType

\* There are as many positions after the n-th last as there should be...
LEMMA NthLastIs ==
  ASSUME NEW m \in Nat, NEW S \in SUBSET (1 .. m), NEW n \in 1 .. Cardinality(S)
  PROVE  NthLast(S, n) \in S /\ Cardinality(Above(S, NthLast(S, n))) = n - 1
<1> DEFINE Q == {x \in Nat : x < Cardinality(S) => \E i \in S : Cardinality(Above(S, i)) = x}
<1>1. /\ IsFiniteSet(S) /\ Cardinality(S) \in Nat /\ S \in SUBSET (0 .. m)
      /\ \A i \in S : i \in 1 .. m /\ i \in Nat
  <2>1. ASSUME NEW i \in S PROVE i \in 1 .. m /\ i \in 0 .. m /\ i \in Nat
    <3>1. i \in 1 .. m
      OBVIOUS
    <3> QED BY <3>1
  <2>2. S \in SUBSET (0 .. m)
    BY <2>1
  <2>3. IsFiniteSet(S) /\ Cardinality(S) \in Nat
    BY AboveFinite
  <2> QED BY <2>1, <2>2, <2>3
<1>2. 0 \in Q
  <2> SUFFICES ASSUME 0 < Cardinality(S) PROVE \E i \in S : Cardinality(Above(S, i)) = 0
    OBVIOUS
  <2>1. S # {}
    BY FS_EmptySet
  <2>2. PICK i : i = Max(S)
    OBVIOUS
  <2>3. i \in S /\ \A k \in S : i >= k
    BY <1>1, <2>1, <2>2, GreatestOf
  <2>4. Above(S, i) = {}
    <3>1. \A k \in S : ~(k > i)
      <4> SUFFICES ASSUME NEW k \in S PROVE ~(k > i)
        OBVIOUS
      <4>1. k \in Nat /\ i \in Nat /\ i >= k
        BY <1>1, <2>3
      <4> QED BY <4>1
    <3> QED BY <3>1 DEF Above
  <2> QED BY <2>3, <2>4, FS_EmptySet
<1>3. ASSUME NEW x \in Nat, x \in Q PROVE x + 1 \in Q
  <2> SUFFICES ASSUME x + 1 < Cardinality(S) PROVE \E i \in S : Cardinality(Above(S, i)) = x + 1
    OBVIOUS
  <2>1. PICK i \in S : Cardinality(Above(S, i)) = x
    BY <1>1, <1>3
  <2> DEFINE T == {k \in S : k < i}
  <2>2. IsFiniteSet(Above(S, i)) /\ i \notin Above(S, i)
    <3>1. IsFiniteSet(Above(S, i))
      BY AboveFinite
    <3>2. i \in Nat /\ ~(i > i)
      BY <1>1
    <3> QED BY <3>1, <3>2 DEF Above
  <2>3. Cardinality(Above(S, i) \cup {i}) = x + 1
    BY <2>1, <2>2, FS_AddElement
  <2>4. T # {}
    <3>1. ASSUME T = {} PROVE S = Above(S, i) \cup {i}
      <4>1. ASSUME NEW k \in S PROVE k = i \/ k \in Above(S, i)
        <5>1. k \in Nat /\ i \in Nat /\ ~(k < i)
          BY <1>1, <3>1
        <5>2. k = i \/ k > i
          BY <5>1
        <5> QED BY <5>2 DEF Above
      <4>2. Above(S, i) \subseteq S
        BY DEF Above
      <4> QED BY <4>1, <4>2
    <3>2. T = {} => Cardinality(S) = x + 1
      BY <2>3, <3>1
    <3>3. ~(x + 1 < x + 1)
      BY <1>3
    <3> QED BY <3>2, <3>3
  <2>5. T \in SUBSET (0 .. m) /\ T \subseteq S
    BY <1>1
  <2>6. PICK j : j = Max(T)
    OBVIOUS
  <2>7. j \in T /\ \A k \in T : j >= k
    <3> HIDE DEF T
    <3> QED BY <2>4, <2>5, <2>6, GreatestOf
  <2>8. Above(S, j) = Above(S, i) \cup {i}
    <3>1. j \in S /\ j < i
      BY <2>7
    <3>2. ASSUME NEW k \in S PROVE k > j <=> (k = i \/ k > i)
      <4>1. k \in Nat /\ i \in Nat /\ j \in Nat
        BY <1>1, <3>1
      <4>2. k < i => j >= k
        BY <2>7
      <4> QED BY <3>1, <4>1, <4>2
    <3> QED BY <3>2 DEF Above
  <2> QED BY <2>3, <2>7, <2>8
<1>4. n - 1 \in Nat /\ n - 1 < Cardinality(S)
  BY <1>1
<1>5. \E i \in S : Cardinality(Above(S, i)) = n - 1
  <2>1. \A x \in Nat : x \in Q
    <3> HIDE DEF Q
    <3> QED BY <1>2, <1>3, CountingUp
  <2> QED BY <1>4, <2>1
<1>6. NthLast(S, n) = CHOOSE i \in S : Cardinality(Above(S, i)) = n - 1
  BY Zenon DEF NthLast, Above
<1>7. PICK c : c = CHOOSE i \in S : Cardinality(Above(S, i)) = n - 1
  OBVIOUS
<1>8. c \in S /\ Cardinality(Above(S, c)) = n - 1
  BY <1>5, <1>7, Zenon
<1> QED BY <1>6, <1>7, <1>8

\* ...and after no other position.
LEMMA NthLastOnly ==
  ASSUME NEW m \in Nat, NEW S \in SUBSET (1 .. m), NEW i \in S, NEW j \in S,
         Cardinality(Above(S, i)) = Cardinality(Above(S, j))
  PROVE  i = j
<1>1. ASSUME NEW a \in S, NEW b \in S, a < b
      PROVE  Cardinality(Above(S, b)) < Cardinality(Above(S, a))
  <2>1. ASSUME NEW k \in S PROVE k \in Nat
    <3>1. k \in 1 .. m
      OBVIOUS
    <3> QED BY <3>1
  <2>2. Above(S, b) \cup {b} \subseteq Above(S, a) /\ b \notin Above(S, b)
    <3>1. a \in Nat /\ b \in Nat /\ b > a /\ ~(b > b)
      BY <1>1, <2>1
    <3>2. ASSUME NEW k \in S, k > b PROVE k > a
      BY <2>1, <3>1, <3>2
    <3> QED BY <3>1, <3>2 DEF Above
  <2>3. /\ IsFiniteSet(Above(S, a)) /\ IsFiniteSet(Above(S, b))
        /\ Cardinality(Above(S, a)) \in Nat /\ Cardinality(Above(S, b)) \in Nat
    BY AboveFinite
  <2>4. Cardinality(Above(S, b) \cup {b}) = Cardinality(Above(S, b)) + 1
    BY <2>2, <2>3, FS_AddElement
  <2>5. Cardinality(Above(S, b) \cup {b}) <= Cardinality(Above(S, a))
    BY <2>2, <2>3, FS_Subset
  <2> QED BY <2>3, <2>4, <2>5
<1>2. i \in 1 .. m /\ j \in 1 .. m /\ Cardinality(Above(S, i)) \in Nat
  BY AboveFinite
<1>3. ~(i < j) /\ ~(j < i)
  <2>1. i < j => Cardinality(Above(S, j)) < Cardinality(Above(S, i))
    BY <1>1
  <2>2. j < i => Cardinality(Above(S, i)) < Cardinality(Above(S, j))
    BY <1>1
  <2> QED BY <1>2, <2>1, <2>2
<1> QED BY <1>2, <1>3

\* r is the end of p, from d + 1 on.
EndOf(r, p, d, X) ==
  /\ p \in Seq(X) /\ r \in Seq(X) /\ d \in Nat /\ Len(p) = Len(r) + d
  /\ \A i \in 1 .. Len(r) : r[i] = p[i + d]

\* The done rows are among the rows.
LEMMA DoneIs ==
  ASSUME NEW X, NEW s \in Seq(X)
  PROVE  DoneAt(s) = {i \in 1 .. Len(s) : s[i].done} /\ Len(s) \in Nat
         /\ DoneAt(s) \in SUBSET (1 .. Len(s))
BY DEF DoneAt

\* Its done rows are those of p, with as many after each.
LEMMA DoneMoves ==
  ASSUME NEW X, NEW p, NEW r, NEW d, EndOf(r, p, d, X), NEW e \in DoneAt(r)
  PROVE  /\ e + d \in DoneAt(p)
         /\ Cardinality(Above(DoneAt(r), e)) = Cardinality(Above(DoneAt(p), e + d))
<1> DEFINE n == Len(r)
<1>1. /\ n \in Nat /\ d \in Nat /\ Len(p) = n + d
      /\ DoneAt(r) = {i \in 1 .. n : r[i].done} /\ DoneAt(p) = {i \in 1 .. n + d : p[i].done}
      /\ \A i \in 1 .. n : r[i] = p[i + d]
  BY DoneIs DEF EndOf
<1> HIDE DEF n
<1>2. ASSUME NEW i \in 1 .. n PROVE i \in DoneAt(r) <=> i + d \in DoneAt(p)
  <2>1. i + d \in 1 .. n + d /\ r[i] = p[i + d]
    BY <1>1
  <2> QED BY <1>1, <2>1
<1>3. e \in 1 .. n /\ e + d \in DoneAt(p)
  BY <1>1, <1>2
<1> DEFINE A == Above(DoneAt(r), e)
           B == Above(DoneAt(p), e + d)
           f == [k \in A |-> k + d]
<1>4. f \in Surjection(A, B) /\ f \in Injection(A, B)
  <2>1. ASSUME NEW k \in A PROVE f[k] \in B
    <3>1. k \in DoneAt(r) /\ k > e /\ k \in 1 .. n /\ f[k] = k + d
      BY <1>1 DEF Above
    <3>2. k + d \in DoneAt(p) /\ k + d > e + d
      BY <1>1, <1>2, <1>3, <3>1
    <3> QED BY <3>1, <3>2 DEF Above
  <2>2. ASSUME NEW x \in B PROVE \E k \in A : f[k] = x
    <3>1. x \in DoneAt(p) /\ x > e + d /\ x \in 1 .. n + d
      BY <1>1 DEF Above
    <3>2. x - d \in 1 .. n /\ x - d > e /\ (x - d) + d = x
      BY <1>1, <1>3, <3>1
    <3>3. x - d \in A
      BY <1>2, <3>1, <3>2 DEF Above
    <3> QED BY <3>2, <3>3
  <2>3. ASSUME NEW k \in A, NEW l \in A, f[k] = f[l] PROVE k = l
    <3>1. k \in 1 .. n /\ l \in 1 .. n /\ k + d = l + d
      BY <1>1, <2>3 DEF Above
    <3> QED BY <1>1, <3>1
  <2>4. f \in [A -> B]
    <3>1. f = [k \in A |-> f[k]]
      OBVIOUS
    <3> HIDE DEF f, A, B
    <3> QED BY <2>1, <3>1
  <2> HIDE DEF f, A, B
  <2> QED BY <2>2, <2>3, <2>4 DEF Surjection, Injection, IsInjective
<1>5. IsFiniteSet(A)
  <2>1. DoneAt(r) \in SUBSET (1 .. n)
    BY <1>1
  <2> QED BY <1>1, <2>1, AboveFinite
<1>6. Cardinality(A) = Cardinality(B)
  <2> HIDE DEF f, A, B
  <2> QED BY <1>4, <1>5, FS_Surjection
<1> QED BY <1>3, <1>6

\* A lesson is the rows after the done row before its own.
LEMMA RowsMove ==
  ASSUME NEW X, NEW p, NEW r, NEW d, EndOf(r, p, d, X), NEW e \in DoneAt(r),
         NEW l \in DoneAt(r), l < e
  PROVE  LessonRows(r, e) = LessonRows(p, e + d)
<1> DEFINE n == Len(r)
           E == {k \in DoneAt(r) : k < e}
           F == {k \in DoneAt(p) : k < e + d}
           Last1(S) == CHOOSE k \in S : \A j \in S : j <= k
<1>1. /\ n \in Nat /\ d \in Nat /\ Len(p) = n + d /\ p \in Seq(X) /\ r \in Seq(X)
      /\ DoneAt(r) \in SUBSET (1 .. n) /\ DoneAt(p) \in SUBSET (1 .. n + d)
      /\ \A i \in 1 .. n : r[i] = p[i + d]
  BY DoneIs DEF EndOf
<1> HIDE DEF n
<1>2. PICK b : b = Max(E)
  OBVIOUS
<1>3. b \in E /\ \A k \in E : b >= k
  <2>1. E # {}
    BY <1>1
  <2>2. E \in SUBSET (0 .. n)
    <3>1. \A i \in 1 .. n : i \in 0 .. n
      BY <1>1
    <3> QED BY <1>1, <3>1
  <2> HIDE DEF E
  <2> QED BY <1>1, <1>2, <2>1, <2>2, GreatestOf
<1>4. /\ b \in 1 .. n /\ e \in 1 .. n /\ b < e /\ b \in DoneAt(r)
      /\ \A k \in E : k <= b /\ k \in 1 .. n
  BY <1>1, <1>3
<1>5. b + d \in F /\ \A k \in F : k <= b + d
  <2>1. b + d \in F
    BY <1>1, <1>4, DoneMoves
  <2>2. ASSUME NEW k \in F PROVE k <= b + d
    <3> SUFFICES ASSUME ~(k <= b + d) PROVE FALSE
      OBVIOUS
    <3>1. k \in 1 .. n + d /\ k < e + d /\ k \in DoneAt(p)
      BY <1>1
    <3>2. k - d \in 1 .. n /\ (k - d) + d = k /\ k - d < e /\ ~(k - d <= b)
      BY <1>1, <1>4, <3>1
    <3>3. k - d \in DoneAt(r)
      <4>1. DoneAt(r) = {i \in 1 .. n : r[i].done} /\ DoneAt(p) = {i \in 1 .. Len(p) : p[i].done}
        BY <1>1, DoneIs DEF n
      <4>2. r[k - d] = p[k]
        BY <1>1, <3>2
      <4>3. p[k].done
        BY <3>1, <4>1
      <4> QED BY <3>2, <4>1, <4>2, <4>3
    <3> QED BY <1>4, <3>2, <3>3
  <2> QED BY <2>1, <2>2
<1>6. Last1(E) = b
  <2>1. \A k \in E : (\A j \in E : j <= k) => k = b
    BY <1>1, <1>3, <1>4
  <2> HIDE DEF E
  <2> QED BY <1>3, <1>4, <2>1
<1>7. Last1(F) = b + d
  <2>1. \A k \in F : k \in Nat
    BY <1>1
  <2>2. \A k \in F : (\A j \in F : j <= k) => k = b + d
    BY <1>1, <1>4, <1>5, <2>1
  <2> HIDE DEF F
  <2> QED BY <1>5, <2>2
<1>8. /\ LessonRows(r, e) = SubSeq(r, b + 1, e)
      /\ LessonRows(p, e + d) = SubSeq(p, b + d + 1, e + d)
  <2>1. E # {} /\ F # {}
    BY <1>3, <1>5
  <2>2. LessonRows(r, e) = SubSeq(r, Last1(E) + 1, e)
    BY <2>1 DEF LessonRows
  <2>3. LessonRows(p, e + d) = SubSeq(p, Last1(F) + 1, e + d)
    BY <2>1 DEF LessonRows
  <2> HIDE DEF Last1
  <2> QED BY <1>6, <1>7, <2>2, <2>3
<1>9. /\ SubSeq(r, b + 1, e) \in Seq(X) /\ Len(SubSeq(r, b + 1, e)) = e - b
      /\ \A i \in 1 .. e - b : SubSeq(r, b + 1, e)[i] = r[b + i]
  <2>1. \A i \in b + 1 .. e : i \in 1 .. Len(r)
    BY <1>1, <1>4 DEF n
  <2>2. \A i \in b + 1 .. e : r[i] \in X
    BY <1>1, <2>1, ElementOfSeq
  <2>3. b + 1 \in Int /\ e \in Int /\ b + 1 <= e /\ e - (b + 1) + 1 = e - b
        /\ \A i \in Int : b + 1 + i - 1 = b + i
    BY <1>4
  <2> QED BY <2>2, <2>3, SubSeqProperties
<1>10. /\ SubSeq(p, b + d + 1, e + d) \in Seq(X) /\ Len(SubSeq(p, b + d + 1, e + d)) = e - b
       /\ \A i \in 1 .. e - b : SubSeq(p, b + d + 1, e + d)[i] = p[b + d + i]
  <2>1. \A i \in b + d + 1 .. e + d : i \in 1 .. Len(p)
    BY <1>1, <1>4
  <2>2. \A i \in b + d + 1 .. e + d : p[i] \in X
    BY <1>1, <2>1, ElementOfSeq
  <2>3. /\ b + d + 1 \in Int /\ e + d \in Int /\ b + d + 1 <= e + d
        /\ (e + d) - (b + d + 1) + 1 = e - b
        /\ \A i \in Int : b + d + 1 + i - 1 = b + d + i
    BY <1>1, <1>4
  <2> QED BY <2>2, <2>3, SubSeqProperties
<1>11. \A i \in 1 .. e - b : r[b + i] = p[b + d + i]
  <2>1. \A i \in 1 .. e - b : b + i \in 1 .. n /\ (b + i) + d = b + d + i
    BY <1>1, <1>4
  <2> QED BY <1>1, <2>1
<1>12. PICK s, t : s = SubSeq(r, b + 1, e) /\ t = SubSeq(p, b + d + 1, e + d)
  OBVIOUS
<1>13. s = t
  <2>1. s \in Seq(X) /\ t \in Seq(X) /\ Len(s) = Len(t) /\ Len(s) = e - b
    BY <1>9, <1>10, <1>12
  <2>2. \A i \in 1 .. Len(s) : s[i] = t[i]
    BY <1>9, <1>10, <1>11, <1>12, <2>1
  <2> QED BY <2>1, <2>2, SeqEqual
<1> QED BY <1>8, <1>12, <1>13

\* The length of what is indexed from 1 to n.
LEMMA LengthIs ==
  ASSUME NEW s, NEW n \in Nat, DOMAIN s = 1 .. n
  PROVE  Len(s) = n
OBVIOUS

\* The n-th last lesson of an end ends in the n-th last done row of the whole, which
\* has no fewer.
LEMMA NthMoves ==
  ASSUME NEW X, NEW p, NEW r, NEW d, EndOf(r, p, d, X), NEW n \in 1 .. Cardinality(DoneAt(r))
  PROVE  /\ n <= Cardinality(DoneAt(p))
         /\ NthLast(DoneAt(r), n) \in DoneAt(r)
         /\ NthLast(DoneAt(p), n) = NthLast(DoneAt(r), n) + d
<1>1. /\ Len(r) \in Nat /\ DoneAt(r) \in SUBSET (1 .. Len(r))
      /\ Len(p) \in Nat /\ DoneAt(p) \in SUBSET (1 .. Len(p))
  BY DoneIs DEF EndOf
<1>2. PICK e : e = NthLast(DoneAt(r), n)
  OBVIOUS
<1>3. e \in DoneAt(r) /\ Cardinality(Above(DoneAt(r), e)) = n - 1
  BY <1>1, <1>2, NthLastIs
<1>4. e + d \in DoneAt(p) /\ Cardinality(Above(DoneAt(p), e + d)) = n - 1
  BY <1>3, DoneMoves
<1>5. n <= Cardinality(DoneAt(p))
  <2>1. /\ IsFiniteSet(DoneAt(p)) /\ IsFiniteSet(Above(DoneAt(p), e + d))
        /\ Cardinality(DoneAt(r)) \in Nat
    BY <1>1, AboveFinite
  <2>2. e + d \notin Above(DoneAt(p), e + d) /\ Above(DoneAt(p), e + d) \subseteq DoneAt(p)
    <3>1. e + d \in Nat
      BY <1>1, <1>4
    <3>2. ~(e + d > e + d)
      BY <3>1
    <3> QED BY <3>2 DEF Above
  <2>3. Cardinality(Above(DoneAt(p), e + d) \cup {e + d}) = (n - 1) + 1
    BY <1>4, <2>1, <2>2, FS_AddElement
  <2>4. Cardinality(Above(DoneAt(p), e + d) \cup {e + d}) <= Cardinality(DoneAt(p))
    BY <1>4, <2>1, <2>2, FS_Subset
  <2>5. n \in Int /\ (n - 1) + 1 = n
    BY <2>1
  <2> QED BY <2>3, <2>4, <2>5
<1>6. PICK g : g = NthLast(DoneAt(p), n)
  OBVIOUS
<1>7. g \in DoneAt(p) /\ Cardinality(Above(DoneAt(p), g)) = n - 1
  <2>1. n \in 1 .. Cardinality(DoneAt(p))
    <3>1. Cardinality(DoneAt(p)) \in Nat /\ Cardinality(DoneAt(r)) \in Nat
      BY <1>1, AboveFinite
    <3> QED BY <1>5, <3>1
  <2> QED BY <1>1, <1>6, <2>1, NthLastIs
<1>8. g = e + d
  BY <1>1, <1>4, <1>7, NthLastOnly
<1> QED BY <1>2, <1>3, <1>5, <1>6, <1>8

\* Before all but the oldest done row there is another.
LEMMA DoneBefore ==
  ASSUME NEW m \in Nat, NEW S \in SUBSET (1 .. m), NEW n \in 1 .. Cardinality(S) - 1
  PROVE  \E l \in S : l < NthLast(S, n)
<1>1. IsFiniteSet(S) /\ Cardinality(S) \in Nat
  BY AboveFinite
<1>2. PICK e : e = NthLast(S, n)
  OBVIOUS
<1>3. e \in S /\ Cardinality(Above(S, e)) = n - 1
  <2>1. n \in 1 .. Cardinality(S)
    BY <1>1
  <2> QED BY <1>2, <2>1, NthLastIs
<1> SUFFICES ASSUME \A l \in S : ~(l < e) PROVE FALSE
  BY <1>2
<1>4. S = Above(S, e) \cup {e} /\ e \notin Above(S, e)
  <2>1. ASSUME NEW k \in S PROVE k = e \/ k > e
    <3>1. k \in 1 .. m /\ e \in 1 .. m /\ ~(k < e)
      BY <1>3
    <3> QED BY <3>1
  <2>2. ~(e > e)
    <3>1. e \in 1 .. m
      BY <1>3
    <3> QED BY <3>1
  <2> QED BY <1>3, <2>1, <2>2 DEF Above
<1>5. Cardinality(S) = (n - 1) + 1
  <2>1. IsFiniteSet(Above(S, e))
    BY AboveFinite
  <2>2. Cardinality(Above(S, e) \cup {e}) = (n - 1) + 1
    BY <1>3, <1>4, <2>1, FS_AddElement
  <2> QED BY <1>4, <2>2
<1> QED BY <1>1, <1>5

\* What an end says of its lessons, but the oldest, the whole history says of them.
LEMMA EndsAgree ==
  ASSUME NEW X, NEW p, NEW r, NEW d, EndOf(r, p, d, X)
  PROVE  /\ Len(Lessons(r, FALSE)) <= Len(Lessons(p, TRUE))
         /\ \A i \in DOMAIN Lessons(r, FALSE) : Lessons(r, FALSE)[i] = Lessons(p, TRUE)[i]
<1>1. /\ Len(r) \in Nat /\ DoneAt(r) \in SUBSET (1 .. Len(r))
      /\ Len(p) \in Nat /\ DoneAt(p) \in SUBSET (1 .. Len(p))
  BY DoneIs DEF EndOf
<1>2. PICK a, b : a = Cardinality(DoneAt(r)) /\ b = Cardinality(DoneAt(p))
  OBVIOUS
<1>3. a \in Nat /\ b \in Nat /\ IsFiniteSet(DoneAt(r))
  BY <1>1, <1>2, AboveFinite
<1>4. PICK n : n = IF DoneAt(r) = {} THEN a ELSE a - 1
  OBVIOUS
<1>5. n \in Nat /\ \A i \in 1 .. n : i \in 1 .. a - 1 /\ i \in 1 .. a
  <2>1. DoneAt(r) # {} => a # 0
    BY <1>2, <1>3, FS_EmptySet
  <2>2. DoneAt(r) = {} => a = 0
    BY <1>2, FS_EmptySet
  <2> QED BY <1>3, <1>4, <2>1, <2>2
<1>6. /\ Lessons(r, FALSE) = [i \in 1 .. n |-> Flags(LessonRows(r, NthLast(DoneAt(r), i)))]
      /\ Lessons(p, TRUE) = [i \in 1 .. b |-> Flags(LessonRows(p, NthLast(DoneAt(p), i)))]
  BY <1>2, <1>4 DEF Lessons
<1>7. ASSUME NEW i \in 1 .. n
      PROVE  /\ i \in 1 .. b
             /\ LessonRows(r, NthLast(DoneAt(r), i)) = LessonRows(p, NthLast(DoneAt(p), i))
  <2>1. i \in 1 .. Cardinality(DoneAt(r)) - 1 /\ i \in 1 .. Cardinality(DoneAt(r))
    BY <1>2, <1>5
  <2>2. PICK e : e = NthLast(DoneAt(r), i)
    OBVIOUS
  <2>3. i <= b /\ e \in DoneAt(r) /\ NthLast(DoneAt(p), i) = e + d
    BY <1>2, <2>1, <2>2, NthMoves
  <2>4. PICK l \in DoneAt(r) : l < e
    BY <1>1, <2>1, <2>2, DoneBefore
  <2>5. LessonRows(r, e) = LessonRows(p, e + d)
    BY <2>3, <2>4, RowsMove
  <2>6. i \in 1 .. b
    BY <1>3, <1>5, <2>3
  <2> QED BY <2>2, <2>3, <2>5, <2>6
<1>8. n <= b
  <2>1. n # 0 => n \in 1 .. n
    BY <1>5
  <2>2. n # 0 => n \in 1 .. b
    BY <1>7, <2>1
  <2> QED BY <1>3, <1>5, <2>2
<1>9. Len(Lessons(r, FALSE)) = n /\ Len(Lessons(p, TRUE)) = b /\ DOMAIN Lessons(r, FALSE) = 1 .. n
  <2>1. DOMAIN Lessons(r, FALSE) = 1 .. n /\ DOMAIN Lessons(p, TRUE) = 1 .. b
    BY <1>6
  <2> QED BY <1>3, <1>5, <2>1, LengthIs
<1> QED BY <1>6, <1>7, <1>8, <1>9

\* The rows that progression reads are rows of the student.
LEMMA ProgressIs ==
  ASSUME NEW X, rows \in Seq(X)
  PROVE  Progress \in Seq(X)
<1>1. PICK s : s = rows
  OBVIOUS
<1>2. Len(s) \in Nat /\ DOMAIN s = 1 .. Len(s) /\ \A i \in 1 .. Len(s) : s[i] \in X
  BY <1>1, LenProperties, ElementOfSeq
<1>3. PICK K : K = Kept
  OBVIOUS
<1>4. K \in SUBSET (1 .. Len(s))
  BY <1>1, <1>2, <1>3 DEF Kept
<1>5. PICK c : c = Cardinality(K)
  OBVIOUS
<1>6. c \in Nat
  BY <1>2, <1>4, <1>5, AboveFinite
<1>7. ASSUME NEW n \in 1 .. c PROVE s[NthLast(K, c + 1 - n)] \in X
  <2>1. c + 1 - n \in 1 .. Cardinality(K)
    BY <1>5, <1>6
  <2>2. PICK m : m = c + 1 - n
    OBVIOUS
  <2>3. NthLast(K, m) \in K
    BY <1>2, <1>4, <2>1, <2>2, NthLastIs
  <2> QED BY <1>2, <1>4, <2>2, <2>3
<1>8. Progress = [n \in 1 .. c |-> s[NthLast(K, c + 1 - n)]]
  BY <1>1, <1>3, <1>5 DEF Progress
<1> QED BY <1>6, <1>7, <1>8, SeqDef

\* The window is an end of them: all, if it is not full.
LEMMA RecentIs ==
  ASSUME NEW X, rows \in Seq(X)
  PROVE  /\ \E d \in Nat : EndOf(Recent, Progress, d, X)
         /\ WholeHistory(Recent) => Recent = Progress
<1>1. PICK p : p = Progress
  OBVIOUS
<1>2. p \in Seq(X) /\ Len(p) \in Nat /\ Window \in Nat
  BY <1>1, ProgressIs, LenProperties, PlanAssumption
<1>3. CASE Len(p) <= Window
  <2>1. Recent = p
    BY <1>1, <1>3 DEF Recent, NewestRows
  <2>2. \A i \in 1 .. Len(p) : p[i] = p[i + 0]
    <3>1. \A i \in 1 .. Len(p) : i + 0 = i
      BY <1>2
    <3> QED BY <3>1
  <2>3. EndOf(p, p, 0, X)
    BY <1>2, <2>2 DEF EndOf
  <2> QED BY <1>1, <2>1, <2>3
<1>4. CASE ~(Len(p) <= Window)
  <2>1. PICK r : r = SubSeq(p, Len(p) - Window + 1, Len(p))
    OBVIOUS
  <2>2. Recent = r
    BY <1>1, <1>4, <2>1 DEF Recent, NewestRows
  <2> DEFINE d == Len(p) - Window
  <2>3. d \in Nat /\ Len(p) = Window + d
    BY <1>2, <1>4
  <2>4. r \in Seq(X) /\ Len(r) = Window /\ \A i \in 1 .. Window : r[i] = p[i + d]
    <3>1. \A i \in d + 1 .. Len(p) : p[i] \in X
      <4> SUFFICES ASSUME NEW i \in d + 1 .. Len(p) PROVE p[i] \in X
        OBVIOUS
      <4>1. i \in 1 .. Len(p)
        BY <1>2, <2>3
      <4> QED BY <1>2, <4>1, ElementOfSeq
    <3>2. /\ r \in Seq(X)
          /\ Len(r) = IF d + 1 <= Len(p) THEN Len(p) - (d + 1) + 1 ELSE 0
          /\ \A i \in 1 .. Len(p) - (d + 1) + 1 : r[i] = p[d + 1 + i - 1]
      <4> HIDE DEF d
      <4>1. d + 1 \in Int /\ Len(p) \in Int
        BY <1>2, <2>3
      <4>2. r = SubSeq(p, d + 1, Len(p))
        BY <2>1 DEF d
      <4> QED BY <3>1, <4>1, <4>2, SubSeqProperties
    <3>3. Len(p) - (d + 1) + 1 = Window /\ (d + 1 <= Len(p) <=> 1 <= Window)
      BY <1>2, <2>3
    <3>4. \A i \in 1 .. Window : d + 1 + i - 1 = i + d
      BY <1>2, <2>3
    <3> HIDE DEF d
    <3> QED BY <1>2, <3>2, <3>3, <3>4
  <2>5. EndOf(r, p, d, X)
    <3> HIDE DEF d
    <3> QED BY <1>2, <2>3, <2>4 DEF EndOf
  <2>6. ~WholeHistory(r)
    BY <1>2, <2>4 DEF WholeHistory
  <2> QED BY <1>1, <2>2, <2>3, <2>5, <2>6
<1> QED BY <1>3, <1>4

\* So the window tells the truth, of any rows.
LEMMA WindowTrue ==
  ASSUME NEW X, rows \in Seq(X)
  PROVE  WindowTellsTheTruth
<1>1. PICK p, r : p = Progress /\ r = Recent
  OBVIOUS
<1>2. PICK d \in Nat : EndOf(r, p, d, X)
  BY <1>1, RecentIs
<1>3. CASE WholeHistory(r)
  <2>1. r = p
    BY <1>1, <1>3, RecentIs
  <2>2. ValidLessons = Lessons(p, TRUE)
    BY <1>1, <1>3, <2>1 DEF ValidLessons, Lessons
  <2>3. Len(Lessons(p, TRUE)) \in Nat
    <3>1. PICK b : b = Cardinality(DoneAt(p))
      OBVIOUS
    <3>2. b \in Nat
      BY <1>2, <3>1, DoneIs, AboveFinite DEF EndOf
    <3>3. Lessons(p, TRUE) = [i \in 1 .. b |-> Flags(LessonRows(p, NthLast(DoneAt(p), i)))]
      BY <3>1 DEF Lessons
    <3>4. DOMAIN Lessons(p, TRUE) = 1 .. b
      BY <3>3
    <3> QED BY <3>2, <3>4, LengthIs
  <2> QED BY <1>1, <2>2, <2>3 DEF WindowTellsTheTruth
<1>4. CASE ~WholeHistory(r)
  <2>1. ValidLessons = Lessons(r, FALSE)
    BY <1>1, <1>4 DEF ValidLessons, Lessons
  <2> QED BY <1>1, <1>2, <2>1, EndsAgree DEF WindowTellsTheTruth
<1> QED BY <1>3, <1>4

\* For any thresholds, any window and however long the history: what the window tells
\* of the lessons it holds is what all the rows tell of them, and the lesson its edge
\* cuts is not among them (extractValidLessons, computeSentenceBandSignal).
THEOREM TheWindowIsRight == PlanSpec => []WindowTellsTheTruth
<1>1. PlanTypes => WindowTellsTheTruth
  BY WindowTrue DEF PlanTypes
<1>2. PlanTypes /\ [PlanNext]_planVars => PlanTypes'
  BY PlanStep
<1> QED BY <1>1, <1>2, PlanTypesInit, PTL DEF PlanSpec

-----------------------------------------------------------------------------
(* The wrong letters.  Steps without a replacement and an addition keep the  *)
(* letters of the word in their order.                                       *)

\* How much of w is found in t, letter by letter.
Finds(iter, w, t) ==
  iter = [s \in SUBSET DOMAIN t |->
            IF s = {} THEN 0 ELSE Found(w, iter[s \ {Max(s)}], t[Max(s)])]

\* The search for the letters of w is a fold over the positions of t.
LEMMA HoldsIsFold ==
  ASSUME NEW w, NEW t
  PROVE  Holds(t, w) <=> (CHOOSE iter : Finds(iter, w, t))[DOMAIN t] = Len(w)
BY Zenon DEF Holds, FoldLeft, MapThenFoldSet, Finds

\* So it goes letter by letter.
LEMMA HoldsSteps ==
  ASSUME NEW L, NEW w \in Seq(L), NEW t \in Seq(L)
  PROVE  \E found : /\ found[0] = 0
                    /\ \A k \in 1 .. Len(t) : found[k] = Found(w, found[k - 1], t[k])
                    /\ Holds(t, w) <=> found[Len(t)] = Len(w)
<1>1. PICK n : n = Len(t)
  OBVIOUS
<1>2. n \in Nat /\ DOMAIN t = 1 .. n
  BY <1>1, LenProperties
<1> DEFINE g == [p \in (1 .. n) \X Nat |-> Found(w, p[2], t[p[1]])]
<1>3. \A i \in 1 .. n, a \in Nat : g[<<i, a>>] = Found(w, a, t[i]) /\ g[<<i, a>>] \in Nat
  BY DEF Found
<1> HIDE DEF g
<1>4. PICK f : LeftFolds(f, n, g, 0) /\ f \in [SUBSET (1 .. n) -> Nat]
  BY <1>2, <1>3, LeftFoldExists
<1>5. Finds(f, w, t)
  <2> DEFINE Here(s) == IF s = {} THEN 0 ELSE g[<<Max(s), f[s \ {Max(s)}]>>]
             There(s) == IF s = {} THEN 0 ELSE Found(w, f[s \ {Max(s)}], t[Max(s)])
  <2>1. ASSUME NEW s \in SUBSET (1 .. n), s # {} PROVE Max(s) \in 1 .. n /\ f[s \ {Max(s)}] \in Nat
    <3>1. \A i \in 1 .. n : i \in 0 .. n
      BY <1>2
    <3>2. s \in SUBSET (0 .. n)
      BY <3>1
    <3>3. Max(s) \in s
      BY <1>2, <2>1, <3>2, GreatestOf
    <3> QED BY <1>4, <3>3
  <2>2. \A s \in SUBSET (1 .. n) : Here(s) = There(s)
    BY <1>3, <2>1
  <2>3. [s \in SUBSET (1 .. n) |-> Here(s)] = [s \in SUBSET (1 .. n) |-> There(s)]
    <3> HIDE DEF Here, There
    <3> QED BY <2>2
  <2> QED BY <1>2, <1>4, <2>3 DEF LeftFolds, Finds
<1>6. PICK iter : iter = CHOOSE h : Finds(h, w, t)
  OBVIOUS
<1>7. Finds(iter, w, t)
  BY <1>5, <1>6, Zenon
<1> DEFINE found == [k \in 0 .. n |-> iter[1 .. k]]
<1>8. found[0] = 0
  <2>1. 1 .. 0 = {} /\ {} \in SUBSET (1 .. n) /\ 0 \in 0 .. n
    BY <1>2
  <2> QED BY <1>2, <1>7, <2>1 DEF Finds
<1>9. ASSUME NEW k \in 1 .. n PROVE found[k] = Found(w, found[k - 1], t[k])
  <2>1. /\ 1 .. k \in SUBSET (1 .. n) /\ 1 .. k # {}
        /\ Max(1 .. k) = k /\ (1 .. k) \ {k} = 1 .. (k - 1)
    BY <1>2, FirstNumbers
  <2>2. PICK s : s = 1 .. k
    OBVIOUS
  <2>3. iter[s] = Found(w, iter[s \ {Max(s)}], t[Max(s)])
    BY <1>2, <1>7, <2>1, <2>2 DEF Finds
  <2>4. k \in 0 .. n /\ k - 1 \in 0 .. n
    BY <1>2
  <2> QED BY <2>1, <2>2, <2>3, <2>4
<1>10. Holds(t, w) <=> found[n] = Len(w)
  <2>1. n \in 0 .. n
    BY <1>2
  <2> QED BY <1>2, <1>6, <2>1, HoldsIsFold
<1> HIDE DEF found
<1> QED BY <1>1, <1>8, <1>9, <1>10

\* The nearest word, word by word.
Nears(iter, w, best, q) ==
  iter = [s \in SUBSET DOMAIN q |->
            IF s = {} THEN best ELSE Nearer(w, iter[s \ {Max(s)}], q[Max(s)])]

\* The search for it is a fold over the positions of the other words.
LEMMA NearestIsFold ==
  ASSUME NEW w, NEW said
  PROVE  NearestWord(w, said)
           = (CHOOSE iter : Nears(iter, w, Head(said), Tail(said)))[DOMAIN Tail(said)]
BY Zenon DEF NearestWord, FoldLeft, MapThenFoldSet, Nears

\* The nearest word is one of the words.
LEMMA NearestIsSaid ==
  ASSUME NEW T, NEW said \in Seq(T), said # <<>>, NEW w
  PROVE  \E k \in DOMAIN said : NearestWord(w, said) = said[k]
<1> DEFINE A == {said[k] : k \in DOMAIN said}
<1>1. Len(said) \in Nat \ {0} /\ DOMAIN said = 1 .. Len(said)
  BY EmptySeq, LenProperties
<1>2. PICK b, q, n : b = Head(said) /\ q = Tail(said) /\ n = Len(said) - 1
  OBVIOUS
<1>3. /\ n \in Nat /\ DOMAIN q = 1 .. n /\ b \in A
      /\ \A i \in 1 .. n : q[i] \in A
  <2>1. b = said[1] /\ 1 \in DOMAIN said
    BY <1>1, <1>2
  <2>2. q \in Seq(T) /\ Len(q) = n /\ \A i \in 1 .. n : q[i] = said[i + 1]
    BY <1>2, HeadTailProperties
  <2>3. \A i \in 1 .. n : i + 1 \in DOMAIN said
    BY <1>1, <1>2
  <2>4. DOMAIN q = 1 .. n
    BY <2>2, LenProperties
  <2> QED BY <1>1, <1>2, <2>1, <2>2, <2>3, <2>4
<1> HIDE DEF A
<1> DEFINE g == [p \in (1 .. n) \X A |-> Nearer(w, p[2], q[p[1]])]
<1>4. \A i \in 1 .. n, a \in A : g[<<i, a>>] = Nearer(w, a, q[i]) /\ g[<<i, a>>] \in A
  BY <1>3 DEF Nearer
<1> HIDE DEF g
<1>5. PICK f : LeftFolds(f, n, g, b) /\ f \in [SUBSET (1 .. n) -> A]
  BY <1>3, <1>4, LeftFoldExists
<1>6. Nears(f, w, b, q)
  <2> DEFINE Here(s) == IF s = {} THEN b ELSE g[<<Max(s), f[s \ {Max(s)}]>>]
             There(s) == IF s = {} THEN b ELSE Nearer(w, f[s \ {Max(s)}], q[Max(s)])
  <2>1. ASSUME NEW s \in SUBSET (1 .. n), s # {} PROVE Max(s) \in 1 .. n /\ f[s \ {Max(s)}] \in A
    <3>1. \A i \in 1 .. n : i \in 0 .. n
      BY <1>3
    <3>2. s \in SUBSET (0 .. n)
      BY <3>1
    <3>3. Max(s) \in s
      BY <1>3, <2>1, <3>2, GreatestOf
    <3> QED BY <1>5, <3>3
  <2>2. \A s \in SUBSET (1 .. n) : Here(s) = There(s)
    BY <1>4, <2>1
  <2>3. [s \in SUBSET (1 .. n) |-> Here(s)] = [s \in SUBSET (1 .. n) |-> There(s)]
    <3> HIDE DEF Here, There
    <3> QED BY <2>2
  <2> QED BY <1>3, <1>5, <2>3 DEF LeftFolds, Nears
<1>7. PICK iter : iter = CHOOSE h : Nears(h, w, b, q)
  OBVIOUS
<1>8. Nears(iter, w, b, q)
  BY <1>6, <1>7, Zenon
<1> DEFINE Q == {k \in Nat : k <= n => iter[1 .. k] \in A}
<1>9. 0 \in Q
  <2>1. 1 .. 0 = {} /\ {} \in SUBSET (1 .. n)
    BY <1>3
  <2>2. iter[1 .. 0] = b
    BY <1>3, <1>8, <2>1 DEF Nears
  <2> QED BY <1>3, <2>2
<1>10. ASSUME NEW k \in Nat, k \in Q PROVE k + 1 \in Q
  <2> SUFFICES ASSUME k + 1 <= n PROVE iter[1 .. (k + 1)] \in A
    OBVIOUS
  <2>1. PICK m : m = k + 1
    OBVIOUS
  <2>2. m \in 1 .. n /\ m - 1 = k /\ iter[1 .. k] \in A
    BY <1>3, <1>10, <2>1
  <2>3. /\ 1 .. m \in SUBSET (1 .. n) /\ 1 .. m # {}
        /\ Max(1 .. m) = m /\ (1 .. m) \ {m} = 1 .. (m - 1)
    BY <1>3, <2>2, FirstNumbers
  <2>4. PICK s : s = 1 .. m
    OBVIOUS
  <2>5. iter[s] = Nearer(w, iter[s \ {Max(s)}], q[Max(s)])
    BY <1>3, <1>8, <2>3, <2>4 DEF Nears
  <2>6. iter[s] = Nearer(w, iter[1 .. k], q[m])
    BY <2>2, <2>3, <2>4, <2>5
  <2>7. iter[s] \in A
    BY <1>3, <2>2, <2>6 DEF Nearer
  <2> QED BY <2>1, <2>4, <2>7
<1>11. n \in Q
  <2>1. \A k \in Nat : k \in Q
    <3> HIDE DEF Q
    <3> QED BY <1>9, <1>10, CountingUp
  <2> QED BY <1>3, <2>1
<1>12. NearestWord(w, said) = iter[1 .. n]
  BY <1>2, <1>3, <1>7, NearestIsFold
<1>13. NearestWord(w, said) \in A
  BY <1>3, <1>11, <1>12
<1> QED BY <1>13 DEF A

\* The edits that lead back from the end.
Backs(back, w, t) ==
  back = [p \in Places(w, t) |->
            IF p = <<0, 0>> THEN <<>>
            ELSE Append(back[Before(w, t, EditMatrix(w, t), p)],
                        Op(w, t, p, Before(w, t, EditMatrix(w, t), p)))]

\* They are such a function.
LEMMA TraceBackIs ==
  ASSUME NEW w, NEW t
  PROVE  TraceBack(w, t) = (CHOOSE back : Backs(back, w, t))[<<Len(w), Len(t)>>]
BY Zenon DEF TraceBack, Backs

\* The place before is one letter back in the one, the other or both; at equal letters
\* it is in both.
OneBack(w, t, m, i, j, x, y) ==
  /\ Before(w, t, m, <<i, j>>) = <<x, y>>
  /\ (x = i - 1 /\ y = j - 1) \/ (x = i /\ y = j - 1) \/ (x = i - 1 /\ y = j)
  /\ i > 0 /\ j > 0 /\ w[i] = t[j] => x = i - 1 /\ y = j - 1

\* There is such a place, but for the first.
LEMMA BeforeIs ==
  ASSUME NEW a \in Nat, NEW b \in Nat, NEW w, NEW t, Len(w) = a, Len(t) = b, NEW m,
         NEW i \in 0 .. a, NEW j \in 0 .. b, i # 0 \/ j # 0
  PROVE  \E x \in 0 .. a, y \in 0 .. b : OneBack(w, t, m, i, j, x, y)
<1> DEFINE At(q) == m[q[1] + 1][q[2] + 1]
           Best(x, y) == IF Better(At(x), At(y)) = At(x) THEN x ELSE y
<1>1. Before(w, t, m, <<i, j>>) =
        IF i = 0 THEN <<i, j - 1>>
        ELSE IF j = 0 THEN <<i - 1, j>>
        ELSE IF w[i] = t[j] THEN <<i - 1, j - 1>>
        ELSE Best(Best(<<i - 1, j - 1>>, <<i, j - 1>>), <<i - 1, j>>)
  BY DEF Before
<1>2. \A x, y : Best(x, y) = x \/ Best(x, y) = y
  OBVIOUS
<1> HIDE DEF Best
<1>3. CASE i = 0
  <2>1. j # 0 /\ j - 1 \in 0 .. b
    BY <1>3
  <2>2. Before(w, t, m, <<i, j>>) = <<i, j - 1>>
    BY <1>1, <1>3
  <2>3. ~(i > 0)
    BY <1>3
  <2> QED BY <1>3, <2>1, <2>2, <2>3 DEF OneBack
<1>4. CASE i # 0 /\ j = 0
  <2>1. i - 1 \in 0 .. a
    BY <1>4
  <2>2. Before(w, t, m, <<i, j>>) = <<i - 1, j>>
    BY <1>1, <1>4
  <2>3. ~(j > 0)
    BY <1>4
  <2> QED BY <1>4, <2>1, <2>2, <2>3 DEF OneBack
<1>5. CASE i # 0 /\ j # 0
  <2>1. i - 1 \in 0 .. a /\ j - 1 \in 0 .. b
    BY <1>5
  <2>2. CASE w[i] = t[j]
    <3>1. Before(w, t, m, <<i, j>>) = <<i - 1, j - 1>>
      BY <1>1, <1>5, <2>2
    <3> QED BY <1>5, <2>1, <3>1 DEF OneBack
  <2>3. CASE w[i] # t[j]
    <3>1. Before(w, t, m, <<i, j>>) = Best(Best(<<i - 1, j - 1>>, <<i, j - 1>>), <<i - 1, j>>)
      BY <1>1, <1>5, <2>3
    <3>2. \/ Before(w, t, m, <<i, j>>) = <<i - 1, j - 1>>
          \/ Before(w, t, m, <<i, j>>) = <<i, j - 1>>
          \/ Before(w, t, m, <<i, j>>) = <<i - 1, j>>
      BY <1>2, <3>1
    <3> QED BY <1>5, <2>1, <2>3, <3>2 DEF OneBack
  <2> QED BY <2>2, <2>3
<1> QED BY <1>3, <1>4, <1>5

Steps(w) == [equal : BOOLEAN, letter : SUBSET {w[i] : i \in DOMAIN w}]

\* A way back exists...
LEMMA BacksExist ==
  ASSUME NEW L, NEW w \in Seq(L), NEW t \in Seq(L)
  PROVE  \E back : Backs(back, w, t)
<1>1. PICK a, b, m : a = Len(w) /\ b = Len(t) /\ m = EditMatrix(w, t)
  OBVIOUS
<1>2. a \in Nat /\ b \in Nat /\ DOMAIN w = 1 .. a
  BY <1>1, LenProperties
<1> DEFINE D == (0 .. a) \X (0 .. b)
           o == <<0, 0>>
           from == [p \in D |-> Before(w, t, m, p)]
           rank == [p \in D |-> p[1] + p[2]]
           V == Seq(Steps(w))
           g == [x \in D \X V |-> Append(x[2], Op(w, t, x[1], Before(w, t, m, x[1])))]
<1>3. rank \in [D -> 0 .. (a + b)]
  BY <1>2
<1>4. ASSUME NEW p \in D, p # o PROVE from[p] \in D /\ rank[from[p]] < rank[p]
  <2>1. PICK i \in 0 .. a, j \in 0 .. b : p = <<i, j>>
    OBVIOUS
  <2>2. PICK x \in 0 .. a, y \in 0 .. b : OneBack(w, t, m, i, j, x, y)
    <3>1. i # 0 \/ j # 0
      BY <1>4, <2>1
    <3> QED BY <1>1, <1>2, <3>1, BeforeIs
  <2>3. x + y < i + j
    BY <1>2, <2>2 DEF OneBack
  <2>4. from[p] = <<x, y>>
    BY <2>1, <2>2 DEF OneBack
  <2>5. rank[from[p]] = x + y /\ rank[p] = i + j
    <3>1. <<x, y>> \in D /\ <<i, j>> \in D
      OBVIOUS
    <3> HIDE DEF from
    <3> QED BY <2>1, <2>4, <3>1
  <2> HIDE DEF from, rank
  <2> QED BY <2>3, <2>4, <2>5
<1>5. ASSUME NEW p \in D \ {o}, NEW v \in V
      PROVE  g[<<p, v>>] = Append(v, Op(w, t, p, Before(w, t, m, p))) /\ g[<<p, v>>] \in V
  <2>1. Op(w, t, p, Before(w, t, m, p)) \in Steps(w)
    <3>1. PICK i \in 0 .. a, j \in 0 .. b : p = <<i, j>> /\ (i # 0 \/ j # 0)
      OBVIOUS
    <3>2. PICK x \in 0 .. a, y \in 0 .. b : OneBack(w, t, m, i, j, x, y)
      BY <1>1, <1>2, <3>1, BeforeIs
    <3>3. PICK e \in BOOLEAN : e = (i > 0 /\ j > 0 /\ w[i] = t[j])
      OBVIOUS
    <3>4. Op(w, t, <<i, j>>, <<x, y>>) = [equal |-> e, letter |-> IF x < i THEN {w[i]} ELSE {}]
      BY <3>3, Zenon DEF Op
    <3>5. x < i => i \in DOMAIN w
      BY <1>2
    <3>6. [equal |-> e, letter |-> IF x < i THEN {w[i]} ELSE {}] \in Steps(w)
      <4> HIDE DEF D, from, rank, V, g
      <4> QED BY <3>5 DEF Steps
    <3>7. Before(w, t, m, <<i, j>>) = <<x, y>>
      BY <3>2 DEF OneBack
    <3> HIDE DEF D, from, rank, V, g
    <3> QED BY <3>1, <3>4, <3>6, <3>7
  <2>2. g[<<p, v>>] = Append(v, Op(w, t, p, Before(w, t, m, p)))
    OBVIOUS
  <2> HIDE DEF g
  <2> QED BY <2>1, <2>2, AppendProperties
<1> HIDE DEF g, from, rank
<1>6. PICK back : Walks(back, D, o, from, g, <<>>) /\ back \in [D -> V]
  <2>1. <<>> \in V /\ a + b \in Nat
    BY <1>2, EmptySeq
  <2>2. \A p \in D \ {o}, v \in V : g[<<p, v>>] \in V
    BY <1>5
  <2> HIDE DEF D, V, o
  <2> QED BY <1>3, <1>4, <2>1, <2>2, WalkExists
<1>7. Backs(back, w, t)
  <2> DEFINE Here(p) == IF p = o THEN <<>> ELSE g[<<p, back[from[p]]>>]
             There(p) == IF p = <<0, 0>> THEN <<>>
                         ELSE Append(back[Before(w, t, m, p)], Op(w, t, p, Before(w, t, m, p)))
  <2>1. ASSUME NEW p \in D PROVE Here(p) = There(p)
    <3>1. CASE p = o
      BY <3>1
    <3>2. CASE p # o
      <4>1. from[p] \in D /\ from[p] = Before(w, t, m, p)
        BY <1>4, <3>2 DEF from
      <4>2. PICK v \in V : v = back[from[p]]
        BY <1>6, <4>1
      <4>3. g[<<p, v>>] = Append(v, Op(w, t, p, Before(w, t, m, p)))
        BY <1>5, <3>2
      <4> QED BY <3>2, <4>1, <4>2, <4>3
    <3> QED BY <3>1, <3>2
  <2>2. [p \in D |-> Here(p)] = [p \in D |-> There(p)]
    <3> HIDE DEF Here, There, D
    <3> QED BY <2>1
  <2>3. back = [p \in D |-> There(p)]
    BY <1>6, <2>2 DEF Walks
  <2>4. D = Places(w, t)
    BY <1>1 DEF Places
  <2> HIDE DEF D
  <2> QED BY <1>1, <2>3, <2>4 DEF Backs
<1> QED BY <1>7

\* Steps that replace and add nothing.
NoLettersLost(ops) == \A k \in DOMAIN ops : ops[k].equal \/ ops[k].letter = {}

\* The first i letters of w are among the first j of t, in their order.
Fits(w, t, found, i, j) ==
  /\ i <= found[j] /\ i <= j
  /\ i = j => \A k \in 1 .. i : w[k] = t[k]

\* One step more.
LEMMA StepFits ==
  ASSUME NEW L, NEW w \in Seq(L), NEW t \in Seq(L), NEW found,
         \A k \in 1 .. Len(t) : found[k] = Found(w, found[k - 1], t[k]) /\ found[k - 1] \in Nat,
         NEW i \in 0 .. Len(w), NEW j \in 0 .. Len(t), NEW m,
         NEW x \in 0 .. Len(w), NEW y \in 0 .. Len(t), OneBack(w, t, m, i, j, x, y),
         Fits(w, t, found, x, y),
         \/ i > 0 /\ j > 0 /\ w[i] = t[j]
         \/ ~(x < i)
  PROVE  Fits(w, t, found, i, j)
<1>1. Len(w) \in Nat /\ Len(t) \in Nat
  BY LenProperties
<1>2. CASE i > 0 /\ j > 0 /\ w[i] = t[j]
  <2>1. x = i - 1 /\ y = j - 1
    BY <1>2 DEF OneBack
  <2>2. j \in 1 .. Len(t) /\ i - 1 \in Nat /\ j - 1 \in Nat
    BY <1>1, <1>2
  <2>3. PICK f \in Nat : f = found[j - 1] /\ found[j] = Found(w, f, t[j])
    BY <2>2
  <2>4. i - 1 <= f /\ i - 1 <= j - 1 /\ (i - 1 = j - 1 => \A k \in 1 .. i - 1 : w[k] = t[k])
    BY <2>1, <2>3 DEF Fits
  <2>5. i <= found[j]
    <3>1. CASE f = i - 1
      <4>1. f < Len(w) /\ f + 1 = i
        BY <1>1, <3>1
      <4>2. found[j] = f + 1
        BY <1>2, <2>3, <4>1 DEF Found
      <4> QED BY <4>1, <4>2
    <3>2. CASE f # i - 1
      <4>1. i <= f
        BY <2>4, <3>2
      <4>2. found[j] = f \/ found[j] = f + 1
        BY <2>3 DEF Found
      <4> QED BY <4>1, <4>2
    <3> QED BY <3>1, <3>2
  <2>6. ASSUME i = j, NEW k \in 1 .. i PROVE w[k] = t[k]
    <3>1. k = i \/ k \in 1 .. i - 1
      OBVIOUS
    <3> QED BY <1>2, <2>4, <2>6, <3>1
  <2>7. i <= j
    BY <2>4
  <2> QED BY <2>5, <2>6, <2>7 DEF Fits
<1>3. CASE ~(i > 0 /\ j > 0 /\ w[i] = t[j])
  <2>1. x = i /\ y = j - 1
    BY <1>3 DEF OneBack
  <2>2. j \in 1 .. Len(t)
    BY <1>1, <2>1
  <2>3. PICK f \in Nat : f = found[j - 1] /\ found[j] = Found(w, f, t[j])
    BY <2>2
  <2>4. i <= f /\ i <= j - 1
    BY <2>1, <2>3 DEF Fits
  <2>5. found[j] = f \/ found[j] = f + 1
    BY <2>3 DEF Found
  <2>6. i <= found[j] /\ i <= j /\ i # j
    BY <2>4, <2>5
  <2> QED BY <2>6 DEF Fits
<1> QED BY <1>2, <1>3

\* So the whole word is, if the whole way has none.
LEMMA AllFits ==
  ASSUME NEW L, NEW w \in Seq(L), NEW t \in Seq(L), NEW found, found[0] = 0,
         \A k \in 1 .. Len(t) : found[k] = Found(w, found[k - 1], t[k])
  PROVE  /\ TraceBack(w, t) \in Seq(Steps(w))
         /\ NoLettersLost(TraceBack(w, t)) => Fits(w, t, found, Len(w), Len(t))
         /\ \A k \in 0 .. Len(t) : found[k] \in 0 .. Len(w)
<1>1. PICK a, b, m : a = Len(w) /\ b = Len(t) /\ m = EditMatrix(w, t)
  OBVIOUS
<1>2. a \in Nat /\ b \in Nat /\ DOMAIN w = 1 .. a
  BY <1>1, LenProperties
<1>3. \A k \in 0 .. b : found[k] \in 0 .. a
  <2> DEFINE Q == {k \in Nat : k <= b => found[k] \in 0 .. a}
  <2>1. 0 \in Q
    BY <1>2
  <2>2. ASSUME NEW k \in Nat, k \in Q PROVE k + 1 \in Q
    <3> SUFFICES ASSUME k + 1 <= b PROVE found[k + 1] \in 0 .. a
      OBVIOUS
    <3>1. k + 1 \in 1 .. b /\ (k + 1) - 1 = k /\ found[k] \in 0 .. a
      BY <1>2, <2>2
    <3>2. found[k + 1] = Found(w, found[k], t[k + 1])
      BY <1>1, <3>1
    <3>3. PICK f \in 0 .. a : f = found[k]
      BY <3>1
    <3> QED BY <1>1, <1>2, <3>2, <3>3 DEF Found
  <2>3. \A k \in Nat : k \in Q
    <3> HIDE DEF Q
    <3> QED BY <2>1, <2>2, CountingUp
  <2> QED BY <2>3
<1>4. PICK back : back = CHOOSE h : Backs(h, w, t)
  OBVIOUS
<1>5. Backs(back, w, t)
  BY <1>4, BacksExist, Zenon
<1> DEFINE Good(i, j) == /\ back[<<i, j>>] \in Seq(Steps(w))
                         /\ NoLettersLost(back[<<i, j>>]) => Fits(w, t, found, i, j)
           Q == {n \in Nat : \A i \in 0 .. a, j \in 0 .. b : i + j <= n => Good(i, j)}
<1>6. Good(0, 0)
  <2>1. <<0, 0>> \in Places(w, t)
    BY <1>1, <1>2 DEF Places
  <2>2. back[<<0, 0>>] = <<>>
    BY <1>5, <2>1 DEF Backs
  <2>3. Fits(w, t, found, 0, 0)
    BY DEF Fits
  <2> QED BY <2>2, <2>3, EmptySeq
<1>7. ASSUME NEW i \in 0 .. a, NEW j \in 0 .. b, i # 0 \/ j # 0,
             NEW x \in 0 .. a, NEW y \in 0 .. b, OneBack(w, t, m, i, j, x, y), Good(x, y)
      PROVE  Good(i, j)
  <2>1. <<i, j>> \in Places(w, t) /\ <<i, j>> # <<0, 0>>
    BY <1>1, <1>7 DEF Places
  <2>2. Before(w, t, m, <<i, j>>) = <<x, y>>
    BY <1>7 DEF OneBack
  <2>3. PICK s \in Seq(Steps(w)) : s = back[<<x, y>>]
    BY <1>7
  <2>4. PICK e \in BOOLEAN : e = (i > 0 /\ j > 0 /\ w[i] = t[j])
    OBVIOUS
  <2>5. Op(w, t, <<i, j>>, <<x, y>>) = [equal |-> e, letter |-> IF x < i THEN {w[i]} ELSE {}]
    BY <2>4, Zenon DEF Op
  <2>6. PICK o : o = [equal |-> e, letter |-> IF x < i THEN {w[i]} ELSE {}]
    OBVIOUS
  <2>7. o \in Steps(w) /\ o.equal = e /\ o.letter = IF x < i THEN {w[i]} ELSE {}
    <3>1. x < i => i \in DOMAIN w
      BY <1>2
    <3> QED BY <2>6, <3>1 DEF Steps
  <2>8. back[<<i, j>>] = Append(s, o)
    <3>1. PICK p : p = <<i, j>>
      OBVIOUS
    <3>2. back[p] = Append(back[Before(w, t, m, p)], Op(w, t, p, Before(w, t, m, p)))
      BY <1>1, <1>5, <2>1, <3>1 DEF Backs
    <3> QED BY <2>2, <2>3, <2>5, <2>6, <3>1, <3>2
  <2>9. /\ Append(s, o) \in Seq(Steps(w)) /\ DOMAIN Append(s, o) = 1 .. Len(s) + 1
        /\ DOMAIN s = 1 .. Len(s) /\ Len(s) \in Nat
        /\ Append(s, o)[Len(s) + 1] = o /\ \A k \in 1 .. Len(s) : Append(s, o)[k] = s[k]
    BY <2>7, AppendProperties, LenProperties
  <2>10. ASSUME NoLettersLost(Append(s, o)) PROVE Fits(w, t, found, i, j)
    <3>1. NoLettersLost(s)
      <4>1. \A k \in 1 .. Len(s) : k \in 1 .. Len(s) + 1
        BY <2>9
      <4> QED BY <2>9, <2>10, <4>1 DEF NoLettersLost
    <3>2. o.equal \/ o.letter = {}
      <4>1. Len(s) + 1 \in 1 .. Len(s) + 1
        BY <2>9
      <4> QED BY <2>9, <2>10, <4>1 DEF NoLettersLost
    <3>3. Fits(w, t, found, x, y)
      BY <1>7, <2>3, <3>1
    <3>4. (i > 0 /\ j > 0 /\ w[i] = t[j]) \/ ~(x < i)
      BY <2>4, <2>7, <3>2
    <3>5. \A k \in 1 .. b : found[k - 1] \in Nat
      <4>1. \A k \in 1 .. b : k - 1 \in 0 .. b
        BY <1>2
      <4> QED BY <1>2, <1>3, <4>1
    <3> HIDE DEF Good, Q
    <3> QED BY <1>1, <1>7, <3>3, <3>4, <3>5, StepFits
  <2> QED BY <2>8, <2>9, <2>10
<1>8. 0 \in Q
  <2>1. \A i \in 0 .. a, j \in 0 .. b : i + j <= 0 => i = 0 /\ j = 0
    BY <1>2
  <2> HIDE DEF Good
  <2> QED BY <1>6, <2>1
<1>9. ASSUME NEW n \in Nat, n \in Q PROVE n + 1 \in Q
  <2> SUFFICES ASSUME NEW i \in 0 .. a, NEW j \in 0 .. b, i + j <= n + 1 PROVE Good(i, j)
    <3> HIDE DEF Good
    <3> QED OBVIOUS
  <2>1. CASE i = 0 /\ j = 0
    BY <1>6, <2>1
  <2>2. CASE i # 0 \/ j # 0
    <3>1. PICK x \in 0 .. a, y \in 0 .. b : OneBack(w, t, m, i, j, x, y)
      BY <1>1, <1>2, <2>2, BeforeIs
    <3>2. x + y <= n
      BY <1>2, <3>1 DEF OneBack
    <3>3. Good(x, y)
      <4> HIDE DEF Good
      <4> QED BY <1>9, <3>2
    <3> HIDE DEF Good
    <3> QED BY <1>7, <2>2, <3>1, <3>3
  <2> QED BY <2>1, <2>2
<1>10. Good(a, b)
  <2>1. \A n \in Nat : n \in Q
    <3> HIDE DEF Q
    <3> QED BY <1>8, <1>9, CountingUp
  <2>2. PICK n \in Nat : n = a + b
    BY <1>2
  <2>3. n \in Q
    <3> HIDE DEF Q
    <3> QED BY <2>1
  <2>4. a \in 0 .. a /\ b \in 0 .. b /\ a + b <= n
    BY <1>2, <2>2
  <2> HIDE DEF Good
  <2> QED BY <2>3, <2>4
<1> QED BY <1>1, <1>3, <1>4, <1>10, TraceBackIs

\* An answer is a sequence of words, none before the first.
WordTypes == word \in WordList /\ answer \in Seq(Seq(Sounds)) /\ answer # <<>>

\* No rule takes what has a wrong letter only.
LEMMA LettersAreWrong == WordTypes => WrongWordHasWrongLetter
<1> SUFFICES ASSUME WordTypes, Outcome(word, answer) = "letters",
                    IncorrectChars(word, answer) = {}
             PROVE  FALSE
  BY DEF WrongWordHasWrongLetter
<1>1. PICK w, said : w = word /\ said = answer
  OBVIOUS
<1> DEFINE M == {w[i] : i \in DOMAIN w}
           L == Sounds \cup M
<1>2. w \in Seq(L) /\ said \in Seq(Seq(Sounds)) /\ said # <<>>
  <2>1. w \in Seq(M)
    BY <1>1, WordAssumption DEF WordTypes
  <2> HIDE DEF M
  <2> QED BY <1>1, <2>1, SeqMonotonic DEF WordTypes
<1>3. PICK k \in DOMAIN said : NearestWord(w, said) = said[k]
  BY <1>2, NearestIsSaid
<1>4. PICK t : t = said[k]
  OBVIOUS
<1>5. t \in Seq(L)
  <2>1. DOMAIN said = 1 .. Len(said)
    BY <1>2, LenProperties
  <2>2. t \in Seq(Sounds)
    BY <1>2, <1>3, <1>4, <2>1, ElementOfSeq
  <2> QED BY <2>2, SeqMonotonic
<1> HIDE DEF M, L
<1>6. PICK found : /\ found[0] = 0
                   /\ \A i \in 1 .. Len(t) : found[i] = Found(w, found[i - 1], t[i])
                   /\ Holds(t, w) <=> found[Len(t)] = Len(w)
  BY <1>2, <1>5, HoldsSteps
<1>7. /\ TraceBack(w, t) \in Seq(Steps(w))
      /\ NoLettersLost(TraceBack(w, t)) => Fits(w, t, found, Len(w), Len(t))
      /\ \A i \in 0 .. Len(t) : found[i] \in 0 .. Len(w)
  BY <1>2, <1>5, <1>6, AllFits
<1>8. NoLettersLost(TraceBack(w, t))
  <2>1. PICK ops : ops = TraceBack(w, t)
    OBVIOUS
  <2>2. UNION {ops[i].letter : i \in Edits(ops)} = {}
    BY <1>1, <1>3, <1>4, <2>1 DEF IncorrectChars
  <2>3. \A i \in DOMAIN ops : ops[i].equal \/ i \in Edits(ops)
    BY DEF Edits
  <2>4. \A i \in Edits(ops) : ops[i].letter = {}
    BY <2>2
  <2> QED BY <2>1, <2>3, <2>4 DEF NoLettersLost
<1>9. Len(w) \in Nat /\ Len(t) \in Nat
  BY <1>2, <1>5, LenProperties
<1>10. Holds(t, w) /\ Len(w) <= Len(t) /\ (Len(w) = Len(t) => \A i \in 1 .. Len(w) : w[i] = t[i])
  <2>1. Fits(w, t, found, Len(w), Len(t)) /\ found[Len(t)] \in 0 .. Len(w)
    BY <1>7, <1>8, <1>9
  <2>2. Len(w) <= found[Len(t)]
    BY <2>1 DEF Fits
  <2>3. found[Len(t)] = Len(w)
    BY <1>9, <2>1, <2>2
  <2> QED BY <1>6, <2>1, <2>3 DEF Fits
<1>11. ~MarkWord(w, said) /\ ~DetectInsertion(w, said)
  BY <1>1 DEF Outcome
<1>12. CASE Len(w) = Len(t)
  <2>1. w = t
    BY <1>2, <1>5, <1>10, <1>12, SeqEqual
  <2> QED BY <1>3, <1>4, <1>11, <2>1 DEF MarkWord
<1>13. CASE Len(t) > Len(w)
  BY <1>3, <1>4, <1>10, <1>11, <1>13 DEF DetectInsertion
<1> QED BY <1>9, <1>10, <1>12, <1>13

\* A student begins with one empty word, and a sound or a pause keeps the shape.
LEMMA WordTypesHold == (WordInit => WordTypes) /\ (WordTypes /\ [WordNext]_wordVars => WordTypes')
<1>1. ASSUME WordInit PROVE WordTypes
  <2>1. <<>> \in Seq(Sounds)
    BY EmptySeq
  <2>2. << <<>> >> \in Seq(Seq(Sounds)) /\ << <<>> >> # <<>>
    <3>1. PICK S : S = Seq(Sounds)
      OBVIOUS
    <3>2. << <<>> >> \in Seq(S)
      BY <2>1, <3>1
    <3> QED BY <3>1, <3>2
  <2> QED BY <1>1, <2>2 DEF WordInit, WordTypes
<1>2. ASSUME WordTypes, [WordNext]_wordVars PROVE WordTypes'
  <2>1. CASE UNCHANGED wordVars
    BY <1>2, <2>1 DEF wordVars, WordTypes
  <2>2. CASE Sound
    <3>1. PICK S, said, n : S = Seq(Sounds) /\ said = answer /\ n = Len(answer)
      OBVIOUS
    <3>2. said \in Seq(S) /\ said # <<>> /\ n \in Nat \ {0} /\ n = Len(said)
      BY <1>2, <3>1, EmptySeq DEF WordTypes
    <3>3. ASSUME NEW x \in Sounds, answer' = [answer EXCEPT ![Len(answer)] = Append(@, x)]
          PROVE  answer' \in Seq(S) /\ answer' # <<>>
      <4>1. said[n] \in S /\ n \in 1 .. Len(said)
        BY <3>2, ElementOfSeq
      <4>2. PICK y : y = Append(said[n], x)
        OBVIOUS
      <4>3. y \in S
        BY <3>1, <4>1, <4>2, AppendProperties
      <4>4. answer' = [said EXCEPT ![n] = y]
        BY <3>1, <3>3, <4>2
      <4>5. [said EXCEPT ![n] = y] \in Seq(S) /\ Len([said EXCEPT ![n] = y]) = n
        BY <3>2, <4>1, <4>3, ExceptSeq
      <4> QED BY <3>2, <4>4, <4>5, EmptySeq
    <3>4. ASSUME answer' = Append(answer, <<>>) PROVE answer' \in Seq(S) /\ answer' # <<>>
      <4>1. <<>> \in S
        BY <3>1, EmptySeq
      <4> QED BY <3>1, <3>2, <3>4, <4>1, AppendProperties, EmptySeq
    <3>5. answer' \in Seq(S) /\ answer' # <<>> /\ word' = word
      BY <2>2, <3>3, <3>4 DEF Sound
    <3> QED BY <1>2, <3>1, <3>5 DEF WordTypes
  <2> QED BY <1>2, <2>1, <2>2 DEF WordNext
<1> QED BY <1>1, <1>2

\* For any words, letters, families and spellings and answers of any length: an answer
\* that the rules take neither for the word nor for a near miss has a letter to drill
\* (markWord, the detectors, identifyCharacterStatus).
THEOREM WrongWordsAreDrilled == WordSpec => []WrongWordHasWrongLetter
BY WordTypesHold, LettersAreWrong, PTL DEF WordSpec

-----------------------------------------------------------------------------
(* The reading of a passage.                                                 *)

WordVerdicts == {"correct", "close", "transposed", "substituted", "omitted"}
ReadWords == [heard : Nat, status : WordVerdicts]

\* The words on the way back from the end.
Alignments(back, ws, heard) ==
  back = [p \in (0 .. Len(ws)) \X (0 .. Len(heard)) |->
            IF p = <<0, 0>> THEN <<>>
            ELSE IF WordBefore(ws, heard, CostTable(ws, heard), p)[1] = p[1]
            THEN back[WordBefore(ws, heard, CostTable(ws, heard), p)]
            ELSE Append(back[WordBefore(ws, heard, CostTable(ws, heard), p)],
                        WordAt(ws, heard, p, WordBefore(ws, heard, CostTable(ws, heard), p)))]

\* They are such a function.
LEMMA AlignedIs ==
  ASSUME NEW ws, NEW heard
  PROVE  Aligned(ws, heard) = (CHOOSE back : Alignments(back, ws, heard))[<<Len(ws), Len(heard)>>]
BY Zenon DEF Aligned, Alignments

\* The place before is one back in the words, the tokens or both.
PlaceBack(ws, heard, m, i, j, x, y) ==
  /\ WordBefore(ws, heard, m, <<i, j>>) = <<x, y>>
  /\ (x = i - 1 /\ y = j - 1) \/ (x = i /\ y = j - 1) \/ (x = i - 1 /\ y = j)

\* There is such a place, but for the first.
LEMMA PlaceBackIs ==
  ASSUME NEW a \in Nat, NEW b \in Nat, NEW ws, NEW heard, NEW m,
         NEW i \in 0 .. a, NEW j \in 0 .. b, i # 0 \/ j # 0
  PROVE  \E x \in 0 .. a, y \in 0 .. b : PlaceBack(ws, heard, m, i, j, x, y)
<1> DEFINE Cost(k, l) == m[k + 1][l + 1]
           match  == Cost(i - 1, j - 1) + MatchCost(ws[i], heard[j])
           insert == Cost(i, j - 1) + InsertionCost(ws, i, heard[j])
<1>1. WordBefore(ws, heard, m, <<i, j>>) =
        IF i > 0 /\ j > 0 /\ Cost(i, j) = match THEN <<i - 1, j - 1>>
        ELSE IF i = 0 \/ (j > 0 /\ Cost(i, j) = insert) THEN <<i, j - 1>>
        ELSE <<i - 1, j>>
  BY DEF WordBefore
<1>2. PICK c, d \in BOOLEAN : c = (Cost(i, j) = match) /\ d = (Cost(i, j) = insert)
  OBVIOUS
<1>3. WordBefore(ws, heard, m, <<i, j>>) =
        IF i > 0 /\ j > 0 /\ c THEN <<i - 1, j - 1>>
        ELSE IF i = 0 \/ (j > 0 /\ d) THEN <<i, j - 1>>
        ELSE <<i - 1, j>>
  BY <1>1, <1>2
<1> HIDE DEF Cost, match, insert
<1>4. CASE i > 0 /\ j > 0 /\ c
  <2>1. /\ i - 1 \in 0 .. a /\ j - 1 \in 0 .. b
        /\ WordBefore(ws, heard, m, <<i, j>>) = <<i - 1, j - 1>>
    BY <1>3, <1>4
  <2> QED BY <2>1 DEF PlaceBack
<1>5. CASE ~(i > 0 /\ j > 0 /\ c) /\ (i = 0 \/ (j > 0 /\ d))
  <2>1. j - 1 \in 0 .. b /\ WordBefore(ws, heard, m, <<i, j>>) = <<i, j - 1>>
    BY <1>3, <1>5
  <2> QED BY <2>1 DEF PlaceBack
<1>6. CASE ~(i > 0 /\ j > 0 /\ c) /\ ~(i = 0 \/ (j > 0 /\ d))
  <2>1. i - 1 \in 0 .. a /\ WordBefore(ws, heard, m, <<i, j>>) = <<i - 1, j>>
    BY <1>3, <1>6
  <2> QED BY <2>1 DEF PlaceBack
<1> QED BY <1>4, <1>5, <1>6

\* A word at a place.
LEMMA WordAtIs ==
  ASSUME NEW ws, NEW heard, NEW i \in Nat, NEW j \in Nat, NEW x, NEW y
  PROVE  /\ WordAt(ws, heard, <<i, j>>, <<x, y>>) \in ReadWords
         /\ y = j => WordAt(ws, heard, <<i, j>>, <<x, y>>).status = "omitted"
<1>1. PICK v : v = Verdict(ws[i], heard[j])
  OBVIOUS
<1>2. v \in WordVerdicts
  <2>1. PICK c : c = MatchCost(ws[i], heard[j])
    OBVIOUS
  <2>2. v = CASE c = 0 -> "correct" [] c = CostClose -> "close" [] OTHER -> "substituted"
    BY <1>1, <2>1 DEF Verdict
  <2> QED BY <2>2 DEF WordVerdicts, CostClose
<1>3. WordAt(ws, heard, <<i, j>>, <<x, y>>) =
        IF y = j THEN [heard |-> 0, status |-> "omitted"] ELSE [heard |-> j, status |-> v]
  BY <1>1 DEF WordAt
<1> QED BY <1>2, <1>3 DEF ReadWords, WordVerdicts

\* A way back exists...
LEMMA AlignmentsExist ==
  ASSUME NEW W, NEW ws \in Seq(W), NEW T, NEW heard \in Seq(T)
  PROVE  \E back : Alignments(back, ws, heard)
<1>1. PICK a, b, m : a = Len(ws) /\ b = Len(heard) /\ m = CostTable(ws, heard)
  OBVIOUS
<1>2. a \in Nat /\ b \in Nat
  BY <1>1, LenProperties
<1> DEFINE D == (0 .. a) \X (0 .. b)
           o == <<0, 0>>
           from == [p \in D |-> WordBefore(ws, heard, m, p)]
           rank == [p \in D |-> p[1] + p[2]]
           V == Seq(ReadWords)
           Value(p, v) == IF WordBefore(ws, heard, m, p)[1] = p[1] THEN v
                          ELSE Append(v, WordAt(ws, heard, p, WordBefore(ws, heard, m, p)))
           g == [x \in D \X V |-> Value(x[1], x[2])]
<1>3. rank \in [D -> 0 .. (a + b)]
  BY <1>2
<1>4. ASSUME NEW p \in D, p # o PROVE from[p] \in D /\ rank[from[p]] < rank[p]
  <2>1. PICK i \in 0 .. a, j \in 0 .. b : p = <<i, j>>
    OBVIOUS
  <2>2. PICK x \in 0 .. a, y \in 0 .. b : PlaceBack(ws, heard, m, i, j, x, y)
    <3>1. i # 0 \/ j # 0
      BY <1>4, <2>1
    <3> QED BY <1>2, <3>1, PlaceBackIs
  <2>3. x + y < i + j
    BY <1>2, <2>2 DEF PlaceBack
  <2>4. from[p] = <<x, y>>
    BY <2>1, <2>2 DEF PlaceBack
  <2>5. rank[from[p]] = x + y /\ rank[p] = i + j
    <3>1. <<x, y>> \in D /\ <<i, j>> \in D
      OBVIOUS
    <3> HIDE DEF from
    <3> QED BY <2>1, <2>4, <3>1
  <2> HIDE DEF from, rank
  <2> QED BY <2>3, <2>4, <2>5
<1>5. ASSUME NEW p \in D \ {o}, NEW v \in V PROVE g[<<p, v>>] = Value(p, v) /\ g[<<p, v>>] \in V
  <2>1. g[<<p, v>>] = Value(p, v)
    OBVIOUS
  <2>2. PICK i \in 0 .. a, j \in 0 .. b : p = <<i, j>> /\ (i # 0 \/ j # 0)
    OBVIOUS
  <2>3. PICK x \in 0 .. a, y \in 0 .. b : PlaceBack(ws, heard, m, i, j, x, y)
    BY <1>2, <2>2, PlaceBackIs
  <2>4. i \in Nat /\ j \in Nat /\ WordBefore(ws, heard, m, <<i, j>>) = <<x, y>>
    BY <2>3 DEF PlaceBack
  <2>5. PICK w \in ReadWords : w = WordAt(ws, heard, <<i, j>>, <<x, y>>)
    BY <2>4, WordAtIs
  <2>6. Value(p, v) = IF x = i THEN v ELSE Append(v, w)
    <3> HIDE DEF D, from, rank, V, g
    <3> QED BY <2>2, <2>4, <2>5
  <2> HIDE DEF D, from, rank, g, Value
  <2> QED BY <2>1, <2>5, <2>6, AppendProperties
<1> HIDE DEF g, from, rank, Value
<1>6. PICK back : Walks(back, D, o, from, g, <<>>) /\ back \in [D -> V]
  <2>1. <<>> \in V /\ a + b \in Nat
    BY <1>2, EmptySeq
  <2>2. \A p \in D \ {o}, v \in V : g[<<p, v>>] \in V
    BY <1>5
  <2> HIDE DEF D, V, o
  <2> QED BY <1>3, <1>4, <2>1, <2>2, WalkExists
<1>7. Alignments(back, ws, heard)
  <2> DEFINE Here(p) == IF p = o THEN <<>> ELSE g[<<p, back[from[p]]>>]
             There(p) == IF p = <<0, 0>> THEN <<>>
                         ELSE IF WordBefore(ws, heard, m, p)[1] = p[1]
                         THEN back[WordBefore(ws, heard, m, p)]
                         ELSE Append(back[WordBefore(ws, heard, m, p)],
                                     WordAt(ws, heard, p, WordBefore(ws, heard, m, p)))
  <2>1. ASSUME NEW p \in D PROVE Here(p) = There(p)
    <3>1. CASE p = o
      BY <3>1
    <3>2. CASE p # o
      <4>1. from[p] \in D /\ from[p] = WordBefore(ws, heard, m, p)
        BY <1>4, <3>2 DEF from
      <4>2. PICK v \in V : v = back[from[p]]
        BY <1>6, <4>1
      <4>3. g[<<p, v>>] = Value(p, v)
        BY <1>5, <3>2
      <4>4. There(p) = Value(p, v)
        BY <3>2, <4>1, <4>2 DEF Value
      <4> HIDE DEF There
      <4> QED BY <3>2, <4>2, <4>3, <4>4
    <3> QED BY <3>1, <3>2
  <2>2. [p \in D |-> Here(p)] = [p \in D |-> There(p)]
    <3> HIDE DEF Here, There, D
    <3> QED BY <2>1
  <2>3. back = [p \in D |-> There(p)]
    BY <1>6, <2>2 DEF Walks
  <2>4. D = (0 .. Len(ws)) \X (0 .. Len(heard))
    BY <1>1
  <2> HIDE DEF D
  <2> QED BY <1>1, <2>3, <2>4 DEF Alignments
<1> QED BY <1>7

\* ...and has an entry for each word, all of them left out if nothing was heard.
LEMMA AlignedWords ==
  ASSUME NEW W, NEW ws \in Seq(W), NEW T, NEW heard \in Seq(T)
  PROVE  /\ Aligned(ws, heard) \in Seq(ReadWords) /\ Len(Aligned(ws, heard)) = Len(ws)
         /\ heard = <<>> => \A k \in 1 .. Len(ws) : Aligned(ws, heard)[k].status = "omitted"
<1>1. PICK a, b, m : a = Len(ws) /\ b = Len(heard) /\ m = CostTable(ws, heard)
  OBVIOUS
<1>2. a \in Nat /\ b \in Nat
  BY <1>1, LenProperties
<1>3. PICK back : back = CHOOSE h : Alignments(h, ws, heard)
  OBVIOUS
<1>4. Alignments(back, ws, heard)
  BY <1>3, AlignmentsExist, Zenon
<1> DEFINE Good(i, j) == /\ back[<<i, j>>] \in Seq(ReadWords) /\ Len(back[<<i, j>>]) = i
                         /\ j = 0 => \A k \in 1 .. i : back[<<i, j>>][k].status = "omitted"
           Q == {n \in Nat : \A i \in 0 .. a, j \in 0 .. b : i + j <= n => Good(i, j)}
<1>5. Good(0, 0)
  <2>1. <<0, 0>> \in (0 .. Len(ws)) \X (0 .. Len(heard))
    BY <1>1, <1>2
  <2>2. back[<<0, 0>>] = <<>>
    BY <1>4, <2>1 DEF Alignments
  <2> QED BY <2>2, EmptySeq
<1>6. ASSUME NEW i \in 0 .. a, NEW j \in 0 .. b, i # 0 \/ j # 0,
             NEW x \in 0 .. a, NEW y \in 0 .. b, PlaceBack(ws, heard, m, i, j, x, y), Good(x, y)
      PROVE  Good(i, j)
  <2>1. /\ <<i, j>> \in (0 .. Len(ws)) \X (0 .. Len(heard)) /\ <<i, j>> # <<0, 0>>
        /\ i \in Nat /\ j \in Nat
    BY <1>1, <1>6
  <2>2. WordBefore(ws, heard, m, <<i, j>>) = <<x, y>>
    BY <1>6 DEF PlaceBack
  <2>3. PICK s \in Seq(ReadWords) : s = back[<<x, y>>]
    BY <1>6
  <2>4. PICK w \in ReadWords : /\ w = WordAt(ws, heard, <<i, j>>, <<x, y>>)
                               /\ y = j => w.status = "omitted"
    BY <2>1, WordAtIs
  <2>5. back[<<i, j>>] = IF x = i THEN s ELSE Append(s, w)
    <3>0. <<i, j>>[1] = i
      OBVIOUS
    <3>1. PICK p : p = <<i, j>> /\ p[1] = i
      BY <3>0
    <3>2. back[p] = IF WordBefore(ws, heard, m, p)[1] = p[1] THEN back[WordBefore(ws, heard, m, p)]
                    ELSE Append(back[WordBefore(ws, heard, m, p)],
                                WordAt(ws, heard, p, WordBefore(ws, heard, m, p)))
      BY <1>1, <1>4, <2>1, <3>1 DEF Alignments
    <3>3. <<x, y>>[1] = x
      OBVIOUS
    <3> QED BY <2>2, <2>3, <2>4, <3>1, <3>2, <3>3
  <2>6. Len(s) = x /\ (y = 0 => \A k \in 1 .. x : s[k].status = "omitted")
    BY <1>6, <2>3
  <2>7. CASE x = i
    <3>1. j # 0
      BY <1>6, <2>7 DEF PlaceBack
    <3> QED BY <2>3, <2>5, <2>6, <2>7, <3>1
  <2>8. CASE x # i
    <3>1. x + 1 = i /\ (j = 0 => y = j)
      BY <1>2, <1>6, <2>8 DEF PlaceBack
    <3>2. /\ Append(s, w) \in Seq(ReadWords) /\ Len(Append(s, w)) = x + 1
          /\ Append(s, w)[x + 1] = w /\ \A k \in 1 .. x : Append(s, w)[k] = s[k]
      BY <2>6, AppendProperties
    <3>3. ASSUME j = 0, NEW k \in 1 .. i PROVE Append(s, w)[k].status = "omitted"
      <4>1. k = x + 1 \/ k \in 1 .. x
        BY <3>1
      <4> QED BY <2>4, <2>6, <3>1, <3>2, <3>3, <4>1
    <3> QED BY <2>5, <2>8, <3>1, <3>2, <3>3
  <2> QED BY <2>7, <2>8
<1>7. 0 \in Q
  <2>1. \A i \in 0 .. a, j \in 0 .. b : i + j <= 0 => i = 0 /\ j = 0
    BY <1>2
  <2> HIDE DEF Good
  <2> QED BY <1>5, <2>1
<1>8. ASSUME NEW n \in Nat, n \in Q PROVE n + 1 \in Q
  <2> SUFFICES ASSUME NEW i \in 0 .. a, NEW j \in 0 .. b, i + j <= n + 1 PROVE Good(i, j)
    <3> HIDE DEF Good
    <3> QED OBVIOUS
  <2>1. CASE i = 0 /\ j = 0
    BY <1>5, <2>1
  <2>2. CASE i # 0 \/ j # 0
    <3>1. PICK x \in 0 .. a, y \in 0 .. b : PlaceBack(ws, heard, m, i, j, x, y)
      BY <1>2, <2>2, PlaceBackIs
    <3>2. x + y <= n
      BY <1>2, <3>1 DEF PlaceBack
    <3>3. Good(x, y)
      <4> HIDE DEF Good
      <4> QED BY <1>8, <3>2
    <3> HIDE DEF Good
    <3> QED BY <1>6, <2>2, <3>1, <3>3
  <2> QED BY <2>1, <2>2
<1>9. Good(a, b)
  <2>1. \A n \in Nat : n \in Q
    <3> HIDE DEF Q
    <3> QED BY <1>7, <1>8, CountingUp
  <2>2. PICK n \in Nat : n = a + b
    BY <1>2
  <2>3. n \in Q
    <3> HIDE DEF Q
    <3> QED BY <2>1
  <2>4. a \in 0 .. a /\ b \in 0 .. b /\ a + b <= n
    BY <1>2, <2>2
  <2> HIDE DEF Good
  <2> QED BY <2>3, <2>4
<1>10. heard = <<>> => b = 0
  BY <1>1
<1>11. Aligned(ws, heard) = back[<<a, b>>]
  BY <1>1, <1>3, AlignedIs
<1> QED BY <1>1, <1>9, <1>10, <1>11

\* The marks, word by word.
MarkFolds(iter, ws, heard, words, idx) ==
  iter = [s \in SUBSET DOMAIN idx |->
            IF s = {} THEN <<>> ELSE Marked(ws, heard, words, iter[s \ {Max(s)}], idx[Max(s)])]

\* They are a fold over the positions of the words.
LEMMA StatusesIsFold ==
  ASSUME NEW ws, NEW heard
  PROVE  Statuses(ws, heard)
           = (CHOOSE iter : MarkFolds(iter, ws, heard, Aligned(ws, heard), [i \in DOMAIN ws |-> i]))
               [DOMAIN [i \in DOMAIN ws |-> i]]
BY Zenon DEF Statuses, FoldLeftDomain, FoldLeft, MapThenFoldSet, MarkFolds

\* What has been marked after k words: they, and the next one if the two are swapped.
MarkedSoFar(done, words, n, k) ==
  /\ done \in Seq(WordVerdicts) /\ k <= Len(done) /\ Len(done) <= k + 1 /\ Len(done) <= n
  /\ (\A i \in 1 .. n : words[i].status = "omitted")
     => \A i \in 1 .. Len(done) : done[i] = "omitted"

\* One more word.
LEMMA MarkedMore ==
  ASSUME NEW W, NEW ws \in Seq(W), NEW heard, NEW words \in Seq(ReadWords), Len(words) = Len(ws),
         NEW k \in 1 .. Len(ws), NEW done, MarkedSoFar(done, words, Len(ws), k - 1)
  PROVE  MarkedSoFar(Marked(ws, heard, words, done, k), words, Len(ws), k)
<1>1. PICK n : n = Len(ws)
  OBVIOUS
<1>2. n \in Nat /\ k \in 1 .. n /\ Len(done) \in Nat /\ done \in Seq(WordVerdicts)
  BY <1>1, LenProperties DEF MarkedSoFar
<1>3. k - 1 <= Len(done) /\ Len(done) <= (k - 1) + 1 /\ Len(done) <= n
  BY <1>1 DEF MarkedSoFar
<1>4. CASE k <= Len(done)
  <2>1. Marked(ws, heard, words, done, k) = done
    BY <1>4 DEF Marked
  <2>2. Len(done) <= k + 1
    BY <1>2, <1>3
  <2> QED BY <1>1, <1>2, <1>3, <1>4, <2>1, <2>2 DEF MarkedSoFar
<1>5. CASE ~(k <= Len(done))
  <2>1. Len(done) = k - 1
    BY <1>2, <1>3, <1>5
  <2>2. CASE k < n /\ Swapped(ws, heard, words, k)
    <3>1. PICK two : two = <<"transposed", "transposed">>
      OBVIOUS
    <3>2. two \in Seq(WordVerdicts) /\ Len(two) = 2
      BY <3>1 DEF WordVerdicts
    <3>3. Marked(ws, heard, words, done, k) = done \o two
      BY <1>1, <1>5, <2>2, <3>1 DEF Marked
    <3>4. done \o two \in Seq(WordVerdicts) /\ Len(done \o two) = (k - 1) + 2
      <4>1. PICK V : V = WordVerdicts
        OBVIOUS
      <4>2. done \o two \in Seq(V) /\ Len(done \o two) = Len(done) + Len(two)
        BY <1>2, <3>2, <4>1, ConcatProperties
      <4> QED BY <2>1, <3>2, <4>1, <4>2
    <3>5. words[k].status # "omitted"
      BY <2>2 DEF Swapped
    <3>6. k <= (k - 1) + 2 /\ (k - 1) + 2 <= k + 1 /\ (k - 1) + 2 <= n
      BY <1>2, <2>2
    <3> QED BY <1>1, <1>2, <3>3, <3>4, <3>5, <3>6 DEF MarkedSoFar
  <2>3. CASE ~(k < n /\ Swapped(ws, heard, words, k))
    <3>1. PICK v : v = words[k].status
      OBVIOUS
    <3>2. v \in WordVerdicts
      <4>1. words[k] \in ReadWords
        BY <1>1, <1>2, ElementOfSeq
      <4> QED BY <3>1, <4>1 DEF ReadWords
    <3>3. Marked(ws, heard, words, done, k) = Append(done, v)
      BY <1>1, <1>5, <2>3, <3>1 DEF Marked
    <3>4. /\ Append(done, v) \in Seq(WordVerdicts) /\ Len(Append(done, v)) = k
          /\ Append(done, v)[k] = v /\ \A i \in 1 .. k - 1 : Append(done, v)[i] = done[i]
      <4>1. (k - 1) + 1 = k
        BY <1>2
      <4> QED BY <1>2, <2>1, <3>2, <4>1, AppendProperties
    <3>5. ASSUME \A i \in 1 .. n : words[i].status = "omitted", NEW i \in 1 .. k
          PROVE  Append(done, v)[i] = "omitted"
      <4>1. CASE i = k
        BY <1>2, <3>1, <3>4, <3>5, <4>1
      <4>2. CASE i # k
        <5>1. i \in 1 .. k - 1
          BY <1>2, <4>2
        <5>2. \A l \in 1 .. Len(done) : done[l] = "omitted"
          BY <1>1, <3>5 DEF MarkedSoFar
        <5> QED BY <2>1, <3>4, <5>1, <5>2
      <4> QED BY <4>1, <4>2
    <3>6. k <= k /\ k <= k + 1 /\ k <= n
      BY <1>2
    <3> QED BY <1>1, <3>3, <3>4, <3>5, <3>6 DEF MarkedSoFar
  <2> QED BY <2>2, <2>3
<1> QED BY <1>4, <1>5

\* Each word has a verdict; all are left out if nothing was heard.
LEMMA StatusesAre ==
  ASSUME NEW W, NEW ws \in Seq(W), NEW T, NEW heard \in Seq(T)
  PROVE  /\ \A i \in 1 .. Len(ws) : Statuses(ws, heard)[i] \in WordVerdicts
         /\ heard = <<>> => \A i \in 1 .. Len(ws) : Statuses(ws, heard)[i] = "omitted"
<1>1. PICK n, words, idx : /\ n = Len(ws) /\ words = Aligned(ws, heard)
                           /\ idx = [i \in DOMAIN ws |-> i]
  OBVIOUS
<1>2. /\ n \in Nat /\ words \in Seq(ReadWords) /\ Len(words) = n
      /\ heard = <<>> => \A i \in 1 .. n : words[i].status = "omitted"
  BY <1>1, LenProperties, AlignedWords
<1>3. DOMAIN idx = 1 .. n /\ \A i \in 1 .. n : idx[i] = i
  BY <1>1, LenProperties
<1> DEFINE V == {d \in Seq(WordVerdicts) : Len(d) <= n}
           g == [x \in (1 .. n) \X Seq(WordVerdicts) |-> Marked(ws, heard, words, x[2], x[1])]
<1>4. \A i \in 1 .. n, d \in Seq(WordVerdicts) :
        g[<<i, d>>] = Marked(ws, heard, words, d, i) /\ g[<<i, d>>] \in Seq(WordVerdicts)
  <2>1. ASSUME NEW i \in 1 .. n, NEW d \in Seq(WordVerdicts)
        PROVE  Marked(ws, heard, words, d, i) \in Seq(WordVerdicts)
    <3>1. PICK v : v = words[i].status
      OBVIOUS
    <3>2. v \in WordVerdicts
      <4>1. words[i] \in ReadWords
        BY <1>2, ElementOfSeq
      <4> QED BY <3>1, <4>1 DEF ReadWords
    <3>3. PICK two : two = <<"transposed", "transposed">>
      OBVIOUS
    <3>4. two \in Seq(WordVerdicts)
      BY <3>3 DEF WordVerdicts
    <3>5. Append(d, v) \in Seq(WordVerdicts) /\ d \o two \in Seq(WordVerdicts)
      BY <3>2, <3>4, AppendProperties, ConcatProperties
    <3> QED BY <3>1, <3>3, <3>5 DEF Marked
  <2> QED BY <2>1
<1> HIDE DEF g
<1>5. PICK f : LeftFolds(f, n, g, <<>>) /\ f \in [SUBSET (1 .. n) -> Seq(WordVerdicts)]
  <2>1. PICK S : S = Seq(WordVerdicts)
    OBVIOUS
  <2>2. <<>> \in S
    BY <2>1, EmptySeq
  <2> QED BY <1>2, <1>4, <2>1, <2>2, LeftFoldExists
<1>6. MarkFolds(f, ws, heard, words, idx)
  <2> DEFINE Here(s) == IF s = {} THEN <<>> ELSE g[<<Max(s), f[s \ {Max(s)}]>>]
             There(s) == IF s = {} THEN <<>>
                         ELSE Marked(ws, heard, words, f[s \ {Max(s)}], idx[Max(s)])
  <2>1. ASSUME NEW s \in SUBSET (1 .. n), s # {}
        PROVE  Max(s) \in 1 .. n /\ f[s \ {Max(s)}] \in Seq(WordVerdicts)
    <3>1. \A i \in 1 .. n : i \in 0 .. n
      BY <1>2
    <3>2. s \in SUBSET (0 .. n)
      BY <3>1
    <3>3. Max(s) \in s
      BY <1>2, <2>1, <3>2, GreatestOf
    <3> QED BY <1>5, <3>3
  <2>2. \A s \in SUBSET (1 .. n) : Here(s) = There(s)
    BY <1>3, <1>4, <2>1
  <2>3. [s \in SUBSET (1 .. n) |-> Here(s)] = [s \in SUBSET (1 .. n) |-> There(s)]
    <3> HIDE DEF Here, There
    <3> QED BY <2>2
  <2> QED BY <1>3, <1>5, <2>3 DEF LeftFolds, MarkFolds
<1>7. PICK iter : iter = CHOOSE h : MarkFolds(h, ws, heard, words, idx)
  OBVIOUS
<1>8. MarkFolds(iter, ws, heard, words, idx)
  BY <1>6, <1>7, Zenon
<1> DEFINE Q == {k \in Nat : k <= n => MarkedSoFar(iter[1 .. k], words, n, k)}
<1>9. 0 \in Q
  <2>1. 1 .. 0 = {} /\ {} \in SUBSET (1 .. n)
    BY <1>2
  <2>2. iter[1 .. 0] = <<>>
    BY <1>3, <1>8, <2>1 DEF MarkFolds
  <2>3. MarkedSoFar(<<>>, words, n, 0)
    BY <1>2, EmptySeq DEF MarkedSoFar
  <2> QED BY <2>2, <2>3
<1>10. ASSUME NEW k \in Nat, k \in Q PROVE k + 1 \in Q
  <2> SUFFICES ASSUME k + 1 <= n PROVE MarkedSoFar(iter[1 .. (k + 1)], words, n, k + 1)
    OBVIOUS
  <2>1. PICK m : m = k + 1
    OBVIOUS
  <2>2. m \in 1 .. n /\ m - 1 = k /\ MarkedSoFar(iter[1 .. k], words, n, k)
    BY <1>2, <1>10, <2>1
  <2>3. /\ 1 .. m \in SUBSET (1 .. n) /\ 1 .. m # {}
        /\ Max(1 .. m) = m /\ (1 .. m) \ {m} = 1 .. (m - 1)
    BY <1>2, <2>2, FirstNumbers
  <2>4. PICK s : s = 1 .. m
    OBVIOUS
  <2>5. iter[s] = Marked(ws, heard, words, iter[s \ {Max(s)}], idx[Max(s)])
    BY <1>3, <1>8, <2>3, <2>4 DEF MarkFolds
  <2>6. PICK done : done = iter[1 .. k]
    OBVIOUS
  <2>7. iter[s] = Marked(ws, heard, words, done, m)
    BY <1>3, <2>2, <2>3, <2>4, <2>5, <2>6
  <2>8. MarkedSoFar(Marked(ws, heard, words, done, m), words, Len(ws), m)
    <3>1. MarkedSoFar(done, words, Len(ws), m - 1) /\ m \in 1 .. Len(ws) /\ Len(words) = Len(ws)
      BY <1>1, <1>2, <2>2, <2>6
    <3> QED BY <1>2, <3>1, MarkedMore
  <2> QED BY <1>1, <2>1, <2>4, <2>7, <2>8
<1>11. MarkedSoFar(iter[1 .. n], words, n, n)
  <2>1. \A k \in Nat : k \in Q
    <3> HIDE DEF Q
    <3> QED BY <1>9, <1>10, CountingUp
  <2>2. n \in Q
    <3> HIDE DEF Q
    <3> QED BY <1>2, <2>1
  <2> QED BY <1>2, <2>2
<1>12. PICK st : st = Statuses(ws, heard)
  OBVIOUS
<1>13. st = iter[1 .. n]
  BY <1>1, <1>3, <1>7, <1>12, StatusesIsFold
<1>14. st \in Seq(WordVerdicts) /\ Len(st) = n
  <2>1. st \in Seq(WordVerdicts) /\ n <= Len(st) /\ Len(st) <= n
    BY <1>11, <1>13 DEF MarkedSoFar
  <2>2. Len(st) \in Nat
    BY <2>1, LenProperties
  <2> QED BY <1>2, <2>1, <2>2
<1>15. \A i \in 1 .. n : st[i] \in WordVerdicts
  BY <1>14, ElementOfSeq
<1>16. heard = <<>> => \A i \in 1 .. n : st[i] = "omitted"
  BY <1>2, <1>11, <1>13, <1>14 DEF MarkedSoFar
<1> QED BY <1>1, <1>12, <1>15, <1>16

\* How good a verdict is says which one it is.
LEMMA RankIs ==
  \A v \in WordVerdicts :
    /\ Rank[v] \in 0 .. 4
    /\ v = "correct" <=> Rank[v] = 0
    /\ v = "transposed" <=> Rank[v] = 2
    /\ v \in {"substituted", "omitted"} <=> Rank[v] >= 3
    /\ v = "omitted" <=> Rank[v] = 4
BY DEF WordVerdicts, Rank

\* There is a best one.
LEMMA BestOfIs ==
  ASSUME NEW S \in SUBSET WordVerdicts, S # {}
  PROVE  BestOf(S) \in S /\ \A t \in S : Rank[BestOf(S)] <= Rank[t]
<1> DEFINE R == {Rank[t] : t \in S}
<1>1. R \in SUBSET Nat /\ R # {}
  <2>1. \A t \in S : Rank[t] \in Nat
    BY RankIs
  <2> QED BY <2>1
<1>2. PICK m \in R : \A k \in R : m <= k
  <2> HIDE DEF R
  <2> QED BY <1>1, LeastNumber
<1>3. \E s \in S : \A t \in S : Rank[s] <= Rank[t]
  BY <1>2
<1> QED BY <1>3 DEF BestOf

\* One more engine hears at least what was heard, if anything was.
LEMMA HeardMore ==
  ASSUME NEW T, NEW notes \in Seq(Seq(T)), NEW h \in Seq(T)
  PROVE  Heard(notes) = {<<>>} \/ Heard(notes) \subseteq Heard(Append(notes, h))
<1>1. PICK s : s = Append(notes, h)
  OBVIOUS
<1>2. PICK U : U = Seq(T)
  OBVIOUS
<1>3. Len(s) = Len(notes) + 1 /\ s \in Seq(U) /\ \A i \in 1 .. Len(notes) : s[i] = notes[i]
  BY <1>1, <1>2, AppendProperties
<1>4. Len(notes) \in Nat /\ DOMAIN notes = 1 .. Len(notes) /\ DOMAIN s = 1 .. Len(s)
  BY <1>2, <1>3, LenProperties
<1>5. ToSet(notes) \subseteq ToSet(s)
  BY <1>3, <1>4 DEF ToSet
<1> QED BY <1>1, <1>5 DEF Heard

\* Something was heard, if only nothing.
LEMMA HeardIs ==
  ASSUME NEW T, NEW notes \in Seq(Seq(T))
  PROVE  Heard(notes) # {} /\ \A note \in Heard(notes) : note \in Seq(T)
<1>1. PICK U : U = Seq(T)
  OBVIOUS
<1>2. \A i \in DOMAIN notes : notes[i] \in U
  BY <1>1, ElementOfSeq, LenProperties
<1>3. ToSet(notes) \subseteq U /\ <<>> \in U
  BY <1>1, <1>2, EmptySeq DEF ToSet
<1> QED BY <1>1, <1>3 DEF Heard

\* A fused reading has the best verdict on each word.
LEMMA FusedIs ==
  ASSUME NEW W, NEW ws \in Seq(W), NEW T, NEW notes \in Seq(Seq(T)), NEW n, n = Len(ws)
  PROVE  /\ Fused(ws, notes) \in Seq(WordVerdicts) /\ Len(Fused(ws, notes)) = n
         /\ \A i \in 1 .. n :
              /\ \E note \in Heard(notes) : Fused(ws, notes)[i] = Statuses(ws, note)[i]
              /\ \A note \in Heard(notes) :
                   Rank[Fused(ws, notes)[i]] <= Rank[Statuses(ws, note)[i]]
<1>1. PICK H : H = Heard(notes)
  OBVIOUS
<1>2. H # {} /\ \A note \in H : note \in Seq(T)
  BY <1>1, HeardIs
<1>3. n \in Nat /\ DOMAIN ws = 1 .. n
  BY LenProperties
<1> DEFINE At(i) == {statuses[i] : statuses \in {Statuses(ws, note) : note \in H}}
<1>4. PICK f : f = Fused(ws, notes)
  OBVIOUS
<1>5. f = [i \in 1 .. n |-> BestOf(At(i))]
  BY <1>1, <1>3, <1>4, Zenon DEF Fused
<1>6. ASSUME NEW i \in 1 .. n
      PROVE  /\ f[i] \in WordVerdicts
             /\ \E note \in H : f[i] = Statuses(ws, note)[i]
             /\ \A note \in H : Rank[f[i]] <= Rank[Statuses(ws, note)[i]]
  <2>1. \A note \in H : Statuses(ws, note)[i] \in WordVerdicts
    BY <1>2, StatusesAre
  <2>2. PICK S : S = At(i)
    OBVIOUS
  <2>3. /\ \A note \in H : Statuses(ws, note)[i] \in S
        /\ \A t \in S : \E note \in H : t = Statuses(ws, note)[i]
    BY <2>2, Zenon
  <2>4. S \in SUBSET WordVerdicts /\ S # {}
    BY <1>2, <2>1, <2>3
  <2>5. f[i] = BestOf(S)
    BY <1>5, <2>2, Zenon
  <2>6. BestOf(S) \in S /\ \A t \in S : Rank[BestOf(S)] <= Rank[t]
    BY <2>4, BestOfIs
  <2> QED BY <2>3, <2>4, <2>5, <2>6
<1>7. f \in Seq(WordVerdicts) /\ Len(f) = n
  <2>1. f \in [1 .. n -> WordVerdicts]
    BY <1>5, <1>6, Zenon
  <2> QED BY <1>3, <2>1
<1> QED BY <1>1, <1>4, <1>6, <1>7

\* No word gets worse by one more engine.
LEMMA NoWordWorse ==
  ASSUME NEW W, NEW ws \in Seq(W), NEW T, NEW notes \in Seq(Seq(T)), NEW h \in Seq(T),
         NEW n, n = Len(ws)
  PROVE  \A i \in 1 .. n :
           Rank[Fused(ws, Append(notes, h))[i]] <= Rank[Fused(ws, notes)[i]]
<1>1. PICK more : more = Append(notes, h)
  OBVIOUS
<1>2. more \in Seq(Seq(T))
  <2>1. PICK U : U = Seq(T)
    OBVIOUS
  <2> QED BY <1>1, <2>1, AppendProperties
<1>3. PICK a, b : a = Fused(ws, more) /\ b = Fused(ws, notes)
  OBVIOUS
<1>4. n \in Nat
  BY LenProperties
<1>5. ASSUME NEW i \in 1 .. n PROVE Rank[a[i]] <= Rank[b[i]]
  <2>1. /\ \A note \in Heard(more) : Rank[a[i]] <= Rank[Statuses(ws, note)[i]]
        /\ a \in Seq(WordVerdicts) /\ Len(a) = n
    BY <1>2, <1>3, FusedIs
  <2>2. PICK note \in Heard(notes) : b[i] = Statuses(ws, note)[i]
    BY <1>3, FusedIs
  <2>3. CASE Heard(notes) \subseteq Heard(more)
    BY <2>1, <2>2, <2>3
  <2>4. CASE Heard(notes) = {<<>>}
    <3>1. note = <<>>
      BY <2>2, <2>4
    <3>2. note \in Seq(T)
      BY <3>1, EmptySeq
    <3>3. b[i] = "omitted"
      BY <2>2, <3>1, <3>2, StatusesAre
    <3>4. a[i] \in WordVerdicts
      BY <2>1, ElementOfSeq
    <3>5. Rank[b[i]] = 4
      BY <3>3 DEF Rank
    <3>6. \A v \in WordVerdicts : Rank[v] \in 0 .. 4
      BY RankIs
    <3>7. Rank[a[i]] \in 0 .. 4
      BY <3>4, <3>6
    <3> QED BY <3>5, <3>7
  <2> QED BY <1>1, <2>3, <2>4, HeardMore
<1> QED BY <1>1, <1>3, <1>5

\* The transposed words of odd places in their runs: one for each swapped pair.
PairsIn(statuses, n, O) ==
  /\ O \in SUBSET (1 .. n)
  /\ \A k \in 1 .. n : k \in O <=> statuses[k] = "transposed" /\ k - 1 \notin O

ErrorPlaces(statuses, n, O) ==
  {k \in 1 .. n : statuses[k] \in {"substituted", "omitted"} \/ k \in O}

\* How long the run of transposed words is.
TransposedRuns(runs, statuses) ==
  runs = [i \in 0 .. Len(statuses) |->
           IF i = 0 \/ statuses[i] # "transposed" THEN 0 ELSE runs[i - 1] + 1]

\* The errors are counted with it...
LEMMA ErrorsByRuns ==
  ASSUME NEW statuses
  PROVE  Errors(statuses) =
           Cardinality({i \in DOMAIN statuses :
                          statuses[i] \in {"substituted", "omitted"}
                          \/ (CHOOSE runs : TransposedRuns(runs, statuses))[i] % 2 = 1})
BY Zenon DEF Errors, TransposedRuns

\* ...and it exists.
LEMMA RunsExist ==
  ASSUME NEW statuses, NEW n \in Nat, n = Len(statuses)
  PROVE  \E runs \in [0 .. n -> Nat] : TransposedRuns(runs, statuses)
<1> DEFINE D == 0 .. n
           from == [p \in D |-> p - 1]
           rank == [p \in D |-> p]
           Value(p, v) == IF statuses[p] # "transposed" THEN 0 ELSE v + 1
           g == [x \in D \X Nat |-> Value(x[1], x[2])]
<1>1. ASSUME NEW p \in D, p # 0 PROVE from[p] \in D /\ rank[from[p]] < rank[p]
  <2>1. p - 1 \in D /\ p - 1 < p
    BY <1>1
  <2> QED BY <2>1
<1>2. \A p \in D, v \in Nat : g[<<p, v>>] = Value(p, v) /\ Value(p, v) \in Nat
  OBVIOUS
<1>3. rank \in [D -> 0 .. n]
  OBVIOUS
<1>4. from = [p \in D |-> p - 1]
  OBVIOUS
<1> HIDE DEF g, rank, from
<1>5. PICK runs : Walks(runs, D, 0, from, g, 0) /\ runs \in [D -> Nat]
  <2>1. PICK N : N = Nat
    OBVIOUS
  <2>2. 0 \in N /\ \A p \in D \ {0}, v \in N : g[<<p, v>>] \in N
    BY <1>2, <2>1
  <2> HIDE DEF D
  <2> QED BY <1>1, <1>3, <2>1, <2>2, WalkExists
<1>6. ASSUME NEW p \in D
      PROVE  (IF p = 0 THEN 0 ELSE g[<<p, runs[from[p]]>>])
               = (IF p = 0 \/ statuses[p] # "transposed" THEN 0 ELSE runs[p - 1] + 1)
  <2>1. CASE p = 0
    BY <2>1
  <2>2. CASE p # 0
    <3>1. p - 1 \in D /\ from[p] = p - 1
      BY <1>4, <2>2
    <3>2. PICK v \in Nat : v = runs[p - 1]
      BY <1>5, <3>1
    <3> QED BY <1>2, <2>2, <3>1, <3>2
  <2> QED BY <2>1, <2>2
<1>7. runs = [p \in D |-> IF p = 0 THEN 0 ELSE g[<<p, runs[from[p]]>>]]
  BY <1>5, Zenon DEF Walks
<1>8. runs = [p \in D |-> IF p = 0 \/ statuses[p] # "transposed" THEN 0 ELSE runs[p - 1] + 1]
  <2> DEFINE Here(p) == IF p = 0 THEN 0 ELSE g[<<p, runs[from[p]]>>]
             There(p) == IF p = 0 \/ statuses[p] # "transposed" THEN 0 ELSE runs[p - 1] + 1
  <2>1. \A p \in D : Here(p) = There(p)
    BY <1>6
  <2>2. runs = [p \in D |-> Here(p)]
    BY <1>7
  <2>3. [p \in D |-> Here(p)] = [p \in D |-> There(p)]
    <3> HIDE DEF Here, There, D
    <3> QED BY <2>1
  <2> HIDE DEF Here, D
  <2> QED BY <2>2, <2>3
<1> QED BY <1>5, <1>8 DEF TransposedRuns

\* There is one error for each word misread or left out and for each pair.
LEMMA ErrorsAre ==
  ASSUME NEW statuses \in Seq(WordVerdicts), NEW n, n = Len(statuses)
  PROVE  \E O : PairsIn(statuses, n, O)
                /\ Errors(statuses) = Cardinality(ErrorPlaces(statuses, n, O))
<1>1. n \in Nat /\ DOMAIN statuses = 1 .. n
  BY LenProperties
<1>2. PICK runs : runs = CHOOSE h : TransposedRuns(h, statuses)
  OBVIOUS
<1>3. TransposedRuns(runs, statuses)
  BY <1>1, <1>2, RunsExist, Zenon
<1>4. \A i \in 0 .. n :
        runs[i] = IF i = 0 \/ statuses[i] # "transposed" THEN 0 ELSE runs[i - 1] + 1
  BY <1>3 DEF TransposedRuns
<1> DEFINE Q == {k \in Nat : k <= n => runs[k] \in Nat}
<1>5. 0 \in Q
  BY <1>1, <1>4
<1>6. ASSUME NEW k \in Nat, k \in Q PROVE k + 1 \in Q
  <2> SUFFICES ASSUME k + 1 <= n PROVE runs[k + 1] \in Nat
    OBVIOUS
  <2>1. k + 1 \in 0 .. n /\ k + 1 # 0 /\ (k + 1) - 1 = k /\ runs[k] \in Nat
    BY <1>1, <1>6
  <2>2. runs[k + 1] = IF statuses[k + 1] # "transposed" THEN 0 ELSE runs[k] + 1
    BY <1>4, <2>1
  <2> QED BY <2>1, <2>2
<1>7. \A k \in Nat : k \in Q
  <2> HIDE DEF Q
  <2> QED BY <1>5, <1>6, CountingUp
<1>8. \A i \in 0 .. n : runs[i] \in Nat
  BY <1>1, <1>7
<1> HIDE DEF Q
<1> DEFINE O == {i \in 1 .. n : runs[i] % 2 = 1}
<1>9. PairsIn(statuses, n, O)
  <2>1. ASSUME NEW k \in 1 .. n
        PROVE  k \in O <=> statuses[k] = "transposed" /\ k - 1 \notin O
    <3>1. k - 1 \in 0 .. n /\ k \in 0 .. n /\ k # 0
      BY <1>1
    <3>2. PICK r \in Nat : r = runs[k - 1]
      BY <1>8, <3>1
    <3>3. runs[k] = IF statuses[k] # "transposed" THEN 0 ELSE r + 1
      BY <1>4, <3>1, <3>2
    <3>4. k - 1 \in O <=> r % 2 = 1
      <4>1. CASE k - 1 = 0
        <5>1. r = 0
          BY <1>1, <1>4, <3>2, <4>1
        <5> QED BY <4>1, <5>1
      <4>2. CASE k - 1 # 0
        <5>1. k - 1 \in 1 .. n
          BY <1>1, <4>2
        <5> QED BY <3>2, <5>1
      <4> QED BY <4>1, <4>2
    <3>5. (r + 1) % 2 = 1 <=> ~(r % 2 = 1)
      OBVIOUS
    <3>6. k \in O <=> runs[k] % 2 = 1
      OBVIOUS
    <3>7. 0 % 2 # 1
      OBVIOUS
    <3> HIDE DEF O
    <3> QED BY <3>3, <3>4, <3>5, <3>6, <3>7
  <2> QED BY <2>1 DEF PairsIn
<1>10. {i \in DOMAIN statuses : statuses[i] \in {"substituted", "omitted"} \/ runs[i] % 2 = 1}
         = ErrorPlaces(statuses, n, O)
  BY <1>1 DEF ErrorPlaces
<1>11. Errors(statuses) = Cardinality(ErrorPlaces(statuses, n, O))
  BY <1>2, <1>10, ErrorsByRuns
<1> HIDE DEF O
<1> QED BY <1>9, <1>11

\* One place more is counted at most once.
LEMMA OneMorePlace ==
  ASSUME NEW n \in Nat, NEW E \in SUBSET (1 .. n), NEW k \in Nat
  PROVE  /\ Cardinality(E \cap (1 .. k)) \in Nat
         /\ Cardinality(E \cap (1 .. (k + 1))) =
              Cardinality(E \cap (1 .. k)) + IF k + 1 \in E THEN 1 ELSE 0
<1>1. IsFiniteSet(E)
  <2>1. IsFiniteSet(1 .. n)
    BY FS_Interval
  <2> QED BY <2>1, FS_Subset
<1>2. PICK F, G : F = E \cap (1 .. k) /\ G = E \cap (1 .. (k + 1))
  OBVIOUS
<1>3. IsFiniteSet(F) /\ Cardinality(F) \in Nat /\ k + 1 \notin F
  <2>1. F \subseteq E
    BY <1>2
  <2>2. k + 1 \notin F
    BY <1>2
  <2> QED BY <1>1, <2>1, <2>2, FS_Subset, FS_CardinalityType
<1>4. G = IF k + 1 \in E THEN F \cup {k + 1} ELSE F
  <2>1. ASSUME NEW i PROVE i \in 1 .. (k + 1) <=> i \in 1 .. k \/ i = k + 1
    OBVIOUS
  <2> QED BY <1>2, <2>1
<1>5. Cardinality(F \cup {k + 1}) = Cardinality(F) + 1
  BY <1>3, FS_AddElement
<1>6. Cardinality(G) = Cardinality(F) + IF k + 1 \in E THEN 1 ELSE 0
  <2>1. CASE k + 1 \in E
    BY <1>4, <1>5, <2>1
  <2>2. CASE k + 1 \notin E
    BY <1>3, <1>4, <2>2
  <2> QED BY <2>1, <2>2
<1> QED BY <1>2, <1>3, <1>6

\* Better words make no more errors: a pair that loses a word keeps its error at
\* the other.
LEMMA NoMoreErrors ==
  ASSUME NEW a \in Seq(WordVerdicts), NEW b \in Seq(WordVerdicts), NEW n, n = Len(a), n = Len(b),
         \A i \in 1 .. n : Rank[a[i]] <= Rank[b[i]]
  PROVE  Errors(a) <= Errors(b) /\ Errors(a) \in Nat /\ Errors(b) \in Nat
<1>1. n \in Nat
  BY LenProperties
<1>2. PICK O : PairsIn(a, n, O) /\ Errors(a) = Cardinality(ErrorPlaces(a, n, O))
  BY ErrorsAre
<1>3. PICK P : PairsIn(b, n, P) /\ Errors(b) = Cardinality(ErrorPlaces(b, n, P))
  BY ErrorsAre
<1>4. PICK E, F : E = ErrorPlaces(a, n, O) /\ F = ErrorPlaces(b, n, P)
  OBVIOUS
<1>5. E \in SUBSET (1 .. n) /\ F \in SUBSET (1 .. n)
  BY <1>4 DEF ErrorPlaces
<1> DEFINE Owed(k) == IF k \in P /\ k \notin O THEN 1 ELSE 0
           Q == {k \in Nat : k <= n => Cardinality(E \cap (1 .. k)) + Owed(k)
                                         <= Cardinality(F \cap (1 .. k))}
<1>6. 0 \in Q
  <2>1. 1 .. 0 = {} /\ 0 \notin P
    BY <1>3 DEF PairsIn
  <2>2. E \cap (1 .. 0) = {} /\ F \cap (1 .. 0) = {} /\ Cardinality({}) = 0
    BY <2>1, FS_EmptySet
  <2> QED BY <2>1, <2>2
<1>7. ASSUME NEW k \in Nat, k \in Q PROVE k + 1 \in Q
  <2> SUFFICES ASSUME k + 1 <= n
               PROVE  Cardinality(E \cap (1 .. (k + 1))) + Owed(k + 1)
                        <= Cardinality(F \cap (1 .. (k + 1)))
    OBVIOUS
  <2>1. PICK m : m = k + 1
    OBVIOUS
  <2>2. m \in 1 .. n /\ m - 1 = k
    BY <1>1, <2>1
  <2>3. PICK e, f \in Nat : e = Cardinality(E \cap (1 .. k)) /\ f = Cardinality(F \cap (1 .. k))
    BY <1>1, <1>5, OneMorePlace
  <2>4. /\ Cardinality(E \cap (1 .. m)) = e + IF m \in E THEN 1 ELSE 0
        /\ Cardinality(F \cap (1 .. m)) = f + IF m \in F THEN 1 ELSE 0
    BY <1>1, <1>5, <2>1, <2>3, OneMorePlace
  <2>5. e + Owed(k) <= f
    BY <1>1, <1>7, <2>2, <2>3
  <2>6. /\ m \in O <=> a[m] = "transposed" /\ k \notin O
        /\ m \in P <=> b[m] = "transposed" /\ k \notin P
    BY <1>2, <1>3, <2>2 DEF PairsIn
  <2>7. /\ m \in E <=> a[m] \in {"substituted", "omitted"} \/ m \in O
        /\ m \in F <=> b[m] \in {"substituted", "omitted"} \/ m \in P
    BY <1>4, <2>2 DEF ErrorPlaces
  <2>8. PICK x, y \in 0 .. 4 :
          /\ x <= y
          /\ (a[m] = "transposed" <=> x = 2) /\ (a[m] \in {"substituted", "omitted"} <=> x >= 3)
          /\ (b[m] = "transposed" <=> y = 2) /\ (b[m] \in {"substituted", "omitted"} <=> y >= 3)
    <3>1. a[m] \in WordVerdicts /\ b[m] \in WordVerdicts
      BY <2>2, ElementOfSeq
    <3>2. PICK x, y : x = Rank[a[m]] /\ y = Rank[b[m]]
      OBVIOUS
    <3> QED BY <2>2, <3>1, <3>2, RankIs
  <2>9. CASE y >= 3
    <3>1. m \in F /\ m \notin P
      BY <2>6, <2>7, <2>8, <2>9
    <3> QED BY <2>1, <2>3, <2>4, <2>5, <3>1
  <2>10. CASE y < 2
    <3>1. m \notin E /\ m \notin P
      BY <2>6, <2>7, <2>8, <2>10
    <3> QED BY <2>1, <2>3, <2>4, <2>5, <3>1
  <2>11. CASE y = 2 /\ x # 2
    <3>1. m \notin E /\ (m \in P => m \in F)
      BY <2>6, <2>7, <2>8, <2>11
    <3> QED BY <2>1, <2>3, <2>4, <2>5, <3>1
  <2>12. CASE y = 2 /\ x = 2
    <3>1. /\ (m \in O <=> k \notin O) /\ (m \in P <=> k \notin P)
          /\ (m \in E <=> m \in O) /\ (m \in F <=> m \in P)
      BY <2>6, <2>7, <2>8, <2>12
    <3> QED BY <2>1, <2>3, <2>4, <2>5, <3>1
  <2> QED BY <2>8, <2>9, <2>10, <2>11, <2>12
<1>8. \A k \in Nat : k \in Q
  <2> HIDE DEF Q
  <2> QED BY <1>6, <1>7, CountingUp
<1>9. E \cap (1 .. n) = E /\ F \cap (1 .. n) = F
  BY <1>5
<1>10. Cardinality(E) + Owed(n) <= Cardinality(F)
  <2>1. n \in Q
    <3> HIDE DEF Q
    <3> QED BY <1>1, <1>8
  <2>2. Cardinality(E \cap (1 .. n)) + Owed(n) <= Cardinality(F \cap (1 .. n))
    BY <1>1, <2>1
  <2> HIDE DEF Owed, Q
  <2> QED BY <1>9, <2>2
<1>11. Cardinality(E) \in Nat /\ Cardinality(F) \in Nat
  BY <1>1, <1>5, <1>9, OneMorePlace
<1> QED BY <1>2, <1>3, <1>4, <1>10, <1>11

\* What the state holds.
ReadTypes ==
  /\ targets \in Passages
  /\ hearing \in Seq(Tokens) /\ engines \in Seq(Seq(Tokens))

\* The words stay a passage, and what is heard tokens.
LEMMA ReadTypesHold == ReadSpec => []ReadTypes
<1>1. ReadInit => ReadTypes
  <2> SUFFICES ASSUME ReadInit PROVE ReadTypes
    OBVIOUS
  <2>1. PICK U : U = Seq(Tokens)
    OBVIOUS
  <2>2. <<>> \in U /\ <<>> \in Seq(U)
    BY <2>1, EmptySeq
  <2> QED BY <2>1, <2>2 DEF ReadInit, ReadTypes
<1>2. ReadTypes /\ [ReadNext]_readVars => ReadTypes'
  <2> SUFFICES ASSUME ReadTypes, [ReadNext]_readVars PROVE ReadTypes'
    OBVIOUS
  <2>1. PICK U : U = Seq(Tokens)
    OBVIOUS
  <2>2. CASE Hear
    <3>1. PICK t \in Tokens : hearing' = Append(hearing, t)
      BY <2>2 DEF Hear
    <3>2. PICK h \in Seq(Tokens) : h = hearing
      BY DEF ReadTypes
    <3>3. Append(h, t) \in Seq(Tokens)
      BY AppendProperties
    <3> QED BY <2>2, <3>1, <3>2, <3>3 DEF Hear, ReadTypes
  <2>3. CASE EngineDone
    <3>1. PICK h \in U, e \in Seq(U) : h = hearing /\ e = engines
      BY <2>1 DEF ReadTypes
    <3>2. Append(e, h) \in Seq(U) /\ <<>> \in U
      BY <2>1, AppendProperties, EmptySeq
    <3> QED BY <2>1, <2>3, <3>1, <3>2 DEF EngineDone, ReadTypes
  <2>4. CASE UNCHANGED readVars
    BY <2>4 DEF readVars, ReadTypes
  <2> QED BY <2>2, <2>3, <2>4 DEF ReadNext
<1> QED BY <1>1, <1>2, PTL DEF ReadSpec

\* Better words are fewer flawed ones, and the same or fewer to drill.
LEMMA NoMoreFlaws ==
  ASSUME NEW W, NEW ws \in Seq(W), NEW n, n = Len(ws),
         NEW a \in Seq(WordVerdicts), NEW b \in Seq(WordVerdicts), n = Len(a), n = Len(b),
         \A i \in 1 .. n : Rank[a[i]] <= Rank[b[i]]
  PROVE  /\ Flawed(a) <= Flawed(b) /\ Flawed(a) \in Nat /\ Flawed(b) \in Nat
         /\ DrillWords(ws, a) \subseteq DrillWords(ws, b)
<1>1. n \in Nat /\ DOMAIN a = 1 .. n /\ DOMAIN b = 1 .. n /\ DOMAIN ws = 1 .. n
  BY LenProperties
<1>2. ASSUME NEW i \in 1 .. n
      PROVE  /\ a[i] # "correct" => b[i] # "correct"
             /\ a[i] \in {"substituted", "omitted"} => b[i] \in {"substituted", "omitted"}
  <2>1. a[i] \in WordVerdicts /\ b[i] \in WordVerdicts
    BY <1>1, ElementOfSeq
  <2>2. PICK x, y : x = Rank[a[i]] /\ y = Rank[b[i]]
    OBVIOUS
  <2>3. /\ x \in 0 .. 4 /\ (a[i] = "correct" <=> x = 0)
        /\ (a[i] \in {"substituted", "omitted"} <=> x >= 3)
    BY <2>1, <2>2, RankIs
  <2>4. /\ y \in 0 .. 4 /\ (b[i] = "correct" <=> y = 0)
        /\ (b[i] \in {"substituted", "omitted"} <=> y >= 3)
    BY <2>1, <2>2, RankIs
  <2>5. x <= y
    BY <2>2
  <2> QED BY <2>3, <2>4, <2>5
<1>3. PICK A, B : /\ A = {i \in DOMAIN a : a[i] # "correct"}
                  /\ B = {i \in DOMAIN b : b[i] # "correct"}
  OBVIOUS
<1>4. A \subseteq B /\ B \subseteq 1 .. n
  BY <1>1, <1>2, <1>3
<1>5. IsFiniteSet(B) /\ IsFiniteSet(A) /\ Cardinality(A) <= Cardinality(B)
  <2>1. IsFiniteSet(1 .. n)
    BY <1>1, FS_Interval
  <2>2. IsFiniteSet(B)
    BY <1>4, <2>1, FS_Subset
  <2> QED BY <1>4, <2>2, FS_Subset
<1>6. Cardinality(A) \in Nat /\ Cardinality(B) \in Nat
  BY <1>5, FS_CardinalityType
<1>7. DrillWords(ws, a) \subseteq DrillWords(ws, b)
  BY <1>1, <1>2 DEF DrillWords
<1> QED BY <1>3, <1>5, <1>6, <1>7 DEF Flawed

\* Better words pass if the others do.
LEMMA BetterPasses ==
  ASSUME NEW a \in Seq(WordVerdicts), NEW b \in Seq(WordVerdicts), Len(a) = Len(b),
         Errors(a) <= Errors(b), Errors(a) \in Nat, Errors(b) \in Nat,
         Flawed(a) <= Flawed(b), Flawed(a) \in Nat, Flawed(b) \in Nat
  PROVE  Passed(b) => Passed(a)
<1>1. PICK r : r = FlawedTenths * Len(b)
  OBVIOUS
<1>2. r \in Nat /\ ErrorBudget \in Nat
  <2>1. Len(b) \in Nat /\ FlawedTenths \in Nat /\ ErrorBudget \in Nat
    BY LenProperties, ReadAssumption
  <2> QED BY <1>1, <2>1
<1>3. Passed(b) <=> Errors(b) <= ErrorBudget /\ 10 * Flawed(b) <= r
  BY <1>1 DEF Passed
<1>4. Passed(a) <=> Errors(a) <= ErrorBudget /\ 10 * Flawed(a) <= r
  BY <1>1 DEF Passed
<1> QED BY <1>2, <1>3, <1>4

\* Whatever one more engine makes of a voice note, no error is added, no other
\* word is drilled and a passed reading stays passed (assessSentence).
THEOREM MoreEnginesNeverHurt == ReadSpec => AnotherEngineNeverHurts
<1>1. ASSUME ReadTypes, ReadNext, engines' # engines
      PROVE  LET before == Fused(targets, engines)
                 after  == Fused(targets, engines')
             IN  /\ Errors(after) <= Errors(before)
                 /\ DrillWords(targets, after) \subseteq DrillWords(targets, before)
                 /\ Passed(before) => Passed(after)
  <2>1. engines' = Append(engines, hearing)
    BY <1>1 DEF ReadNext, Hear, EngineDone
  <2>2. PICK ws, h, notes, n : ws = targets /\ h = hearing /\ notes = engines /\ n = Len(ws)
    OBVIOUS
  <2>3. PICK W : ws \in Seq(W)
    BY <1>1, <2>2, ReadAssumption DEF ReadTypes
  <2>4. h \in Seq(Tokens) /\ notes \in Seq(Seq(Tokens))
    BY <1>1, <2>2 DEF ReadTypes
  <2>5. PICK more : more = Append(notes, h)
    OBVIOUS
  <2>6. more \in Seq(Seq(Tokens))
    <3>1. PICK U : U = Seq(Tokens)
      OBVIOUS
    <3> QED BY <2>4, <2>5, <3>1, AppendProperties
  <2>7. PICK a, b : a = Fused(ws, more) /\ b = Fused(ws, notes)
    OBVIOUS
  <2>8. a \in Seq(WordVerdicts) /\ Len(a) = n
    BY <2>2, <2>3, <2>6, <2>7, FusedIs
  <2>9. b \in Seq(WordVerdicts) /\ Len(b) = n
    BY <2>2, <2>3, <2>4, <2>7, FusedIs
  <2>10. \A i \in 1 .. n : Rank[a[i]] <= Rank[b[i]]
    BY <2>2, <2>3, <2>4, <2>5, <2>7, NoWordWorse
  <2>11. Errors(a) <= Errors(b) /\ Errors(a) \in Nat /\ Errors(b) \in Nat
    BY <2>8, <2>9, <2>10, NoMoreErrors
  <2>12. /\ Flawed(a) <= Flawed(b) /\ Flawed(a) \in Nat /\ Flawed(b) \in Nat
         /\ DrillWords(ws, a) \subseteq DrillWords(ws, b)
    BY <2>2, <2>3, <2>8, <2>9, <2>10, NoMoreFlaws
  <2>13. Passed(b) => Passed(a)
    BY <2>8, <2>9, <2>11, <2>12, BetterPasses
  <2>14. Fused(targets, engines) = b /\ Fused(targets, engines') = a
    BY <2>1, <2>2, <2>5, <2>7
  <2> QED BY <2>2, <2>11, <2>12, <2>13, <2>14
<1>2. ReadTypes /\ [ReadNext]_readVars
        => [engines' # engines /\ engines # <<>> =>
              LET before == Fused(targets, engines)
                  after  == Fused(targets, engines')
              IN  /\ Errors(after) <= Errors(before)
                  /\ DrillWords(targets, after) \subseteq DrillWords(targets, before)
                  /\ Passed(before) => Passed(after)]_readVars
  BY <1>1
<1> QED BY <1>2, ReadTypesHold, PTL DEF ReadSpec, AnotherEngineNeverHurts
===============================================================================
