--------------------------- MODULE MCLessonMachine ---------------------------
(* A small instance, for TLC, of the lesson and of what it is built on: four
   letters, two of them without a picture, which is every way two letters with
   and two without can follow each other, and a letter test that passes at two
   right and fails at three wrong, which its bank of four letters always
   decides; passages of two and three words, in which two words sound alike
   one way; words of up to four letters; and a ladder of two word levels and
   three passage levels with windows of four to six rows; and the ASER test,
   whose levels are passed at three right and failed at three wrong, which a bank
   of five items always decides and two words do not, with two paragraphs and a
   spare one, one story, two banks and three runs, so that a cycle of banks ends
   and the next one starts.  The five parts share no state here: a behaviour is
   one of a lesson, of a reading of a passage, of an answer to a word, of a
   student's lessons one after the other, or of a student's test runs. *)
EXTENDS LessonMachine, SentenceReading, WordReading, LessonPlanning, AserRun, TLC

CONSTANTS ka, kha, nya, nna, aa, sun, moon, sum, um, far, w1, w2, w3, p3, q3, p4,
          a1, a2, a3, s1, b1, b2

VARIABLE part

MCLetters == {ka, kha, nya, nna}
MCNoImage == {nya, nna}

MCPassages == {<<sun, moon>>, <<sun, moon, sun>>, <<sun, sun, moon>>}
MCTokens == {sun, moon, sum, um, far}
MCSame == {<<sun, sun>>, <<moon, moon>>, <<moon, sun>>}
MCNear == {<<sun, sum>>, <<moon, sum>>}

MCWordList == {<<ka, nya>>, <<ka, nya, aa>>, <<ka, kha, ka>>, <<nya, ka, nya, ka>>}
MCRespelt == {<<  <<ka, nya>>, <<nya, nya, aa>>  >>}
MCJoined == {<<  <<ka, nya, aa>>, <<ka, aa, nya>>  >>}

MCSize == (w1 :> 1) @@ (w2 :> 1) @@ (w3 :> 2) @@ (p3 :> 4) @@ (q3 :> 4) @@ (p4 :> 5)
MCPassageLevel == (p3 :> 3) @@ (q3 :> 3) @@ (p4 :> 4)

MCParagraphs == {a1, a2, a3}
MCStories    == {s1}
MCBanks      == {b1, b2}
Alike        == Permutations(MCParagraphs) \cup Permutations(MCBanks)

others  == <<readVars, wordVars, planVars>>
allVars == <<part, vars, others, testVars>>

MCInit ==
  /\ part \in {"lesson", "passage", "word", "student", "test"}
  /\ IF part = "lesson" THEN Init ELSE InitWith("complete", <<>>, NoAser, FALSE, FALSE)
  /\ IF part = "passage" THEN ReadInit
     ELSE targets = <<sun>> /\ hearing = <<>> /\ engines = <<>>
  /\ IF part = "word" THEN WordInit ELSE word = <<ka, nya>> /\ answer = << <<>> >>
  /\ PlanInit
  /\ IF part = "test" THEN TestInit
     ELSE /\ run = NoRun /\ past = <<>> /\ early = FALSE
          /\ lesson = PlainLesson("none") /\ live = {}

MCNext ==
  /\ UNCHANGED part
  /\ \/ part = "lesson" /\ Next /\ UNCHANGED <<others, testVars>>
     \/ part = "passage" /\ ReadNext /\ UNCHANGED <<vars, wordVars, planVars, testVars>>
     \/ part = "word" /\ WordNext /\ UNCHANGED <<vars, readVars, planVars, testVars>>
     \/ part = "student" /\ PlanNext /\ UNCHANGED <<vars, readVars, wordVars, testVars>>
     \/ part = "test" /\ TestNext /\ UNCHANGED <<vars, others>>
     \/ part # "lesson" /\ UNCHANGED allVars  \* the parts with a bound stop at it

MCSpec == MCInit /\ [][MCNext]_allVars
=============================================================================
