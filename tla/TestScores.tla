----------------------------- MODULE TestScores -----------------------------
(* The digital reading tests: what a pool of first attempts scores
   (literacy/score/literacy-test-scores.ts), which ages sit which test
   (literacy/score/age-bands.ts), and the per-letter scores with their bins
   (literacy/score/score.service.ts).

   The state is one student's book: the first attempts at the questions of a
   test, the scores of one letter, the answer to the age question.  A behaviour
   fills one of the three: they do not depend on each other. *)
EXTENDS Integers, Sequences, FiniteSets, FiniteSetsExt, SequencesExt

CONSTANTS
  NipunCount,   \* NIPUN_QUESTION_COUNT
  MplBCount,    \* MPL_B_QUESTION_COUNT
  MinTypes,     \* MPL_B_MIN_DISTINCT_TYPES
  Batches,      \* MPL_B_BATCHES: a sequence of [types, required]
  QuestionTypes,
  NoType,       \* a question without question_type
  None,         \* no value
  MaxPool,      \* bound: attempts in a pool
  MaxScores,    \* bound: answers about one letter
  MaxMonths     \* bound: months looked ahead

ASSUME CountsAssumption ==
  /\ {NipunCount, MplBCount, MinTypes} \subseteq Nat \ {0}
  /\ {MaxPool, MaxScores, MaxMonths} \subseteq Nat
  /\ NoType \notin QuestionTypes
  /\ Batches \in Seq([types : SUBSET QuestionTypes, required : Nat])
\* The batches ask for what fits into a test.
Asked == MapThenSumSet(LAMBDA k : Batches[k].required, DOMAIN Batches)
ASSUME BatchesAssumption == MinTypes + Asked <= MplBCount
\* None is no selection.
ASSUME NoneAssumption == \A selected \in SUBSET (1..MaxPool) : selected # None

VARIABLES
  pool,     \* the first attempts of a test, in the order they were made
  history,  \* the scores of a letter, the seed first
  child     \* None, or when its account was made and the age it said

book == <<pool, history, child>>

-----------------------------------------------------------------------------
(* Snapshots.  The attempts a snapshot counts are their positions in the pool,
   or None when it does not hold enough. *)

Attempts == [right : BOOLEAN, type : QuestionTypes \cup {NoType}]

\* The n most recent of some positions.
Recent(S, n) == {i \in S : Cardinality({j \in S : j > i}) < n}

\* The most recent attempts.
NipunSelected(p) ==
  IF Len(p) < NipunCount THEN None ELSE Recent(DOMAIN p, NipunCount)

\* A mutant: types are looked for among the last MplBCount attempts only.
TypeRepsLately(p) ==
  LET typed == {i \in Recent(DOMAIN p, MplBCount) : p[i].type # NoType}
      newest == {i \in typed : \A j \in typed : p[j].type = p[i].type => j <= i}
  IN Recent(newest, MinTypes)

\* The most recent attempt at each type...
Newest(p) ==
  LET typed == {i \in DOMAIN p : p[i].type # NoType}
  IN {i \in typed : \A j \in typed : p[j].type = p[i].type => j <= i}

\* ...and those of the MinTypes most recent types.
TypeReps(p) == Recent(Newest(p), MinTypes)

OfBatch(p, batch) == {i \in DOMAIN p : p[i].type \in batch.types}

\* The selection with a batch's missing attempts, most recent first; None
\* stays None, and becomes of a selection whose batch cannot be filled.
WithBatch(p, selected, batch) ==
  LET have == Cardinality(selected \cap OfBatch(p, batch))
      more == IF have >= batch.required THEN {}
              ELSE Recent(OfBatch(p, batch) \ selected, batch.required - have)
  IN IF selected = None \/ have + Cardinality(more) < batch.required THEN None
     ELSE selected \cup more

Batched(p) == FoldLeft(LAMBDA selected, batch : WithBatch(p, selected, batch), TypeReps(p), Batches)

MplBSelected(p) ==
  IF Len(p) < MplBCount \/ Cardinality(TypeReps(p)) < MinTypes \/ Batched(p) = None
  THEN None
  ELSE Batched(p) \cup Recent(DOMAIN p \ Batched(p), MplBCount - Cardinality(Batched(p)))

Selected(p, test) == IF test = "nipun" THEN NipunSelected(p) ELSE MplBSelected(p)

\* snapshotSeries: the points of every prefix that has one.  The history's
\* last entry is what the student's page shows as the latest.
Series(p, test) == {n \in 1..Len(p) : Selected(SubSeq(p, 1, n), test) # None}

SeriesLatest(p, test) ==
  LET points == Series(p, test)
  IN IF points = {} THEN None
     ELSE [at |-> Max(points), counted |-> Selected(SubSeq(p, 1, Max(points)), test)]

\* snapshotLatest: the point of the whole pool alone, for the nightly run.
LatestPoint(p, test) ==
  IF p = <<>> \/ Selected(p, test) = None THEN None
  ELSE [at |-> Len(p), counted |-> Selected(p, test)]

\* The score the nightly run stores is the latest point of the history the
\* student's page draws, and an MPL-B score is over exactly its number of
\* questions: a pool that was once enough stays enough, whatever is answered
\* next (snapshotLatest, snapshotSeries, mplBSnapshot).
LatestEndsTheSeries ==
  /\ \A test \in {"nipun", "mplB"} : LatestPoint(pool, test) = SeriesLatest(pool, test)
  /\ MplBSelected(pool) # None => Cardinality(MplBSelected(pool)) = MplBCount

-----------------------------------------------------------------------------
(* Ages.  A month is counted from year 0, January is 0; a calendar month
   1..12 is given apart. *)

Bands == {<<"nipun_g1", 6, 7>>, <<"nipun_g2", 7, 8>>, <<"nipun_g3", 8, 9>>, <<"mpl_b", 10, 11>>}

\* assumedBirth: the birth month a child with or without a birth_month is
\* given.  Without one, the age and a half on the day of onboarding; July when
\* the birth year lies after it.
Born(birthYear, birthMonth, created) ==
  IF birthMonth # None THEN birthYear * 12 + birthMonth - 1
  ELSE IF birthYear <= created \div 12
       THEN created - 12 * (created \div 12 - birthYear) - 6
  ELSE birthYear * 12 + 6

AgeOn(month, birthYear, birthMonth, created) ==
  (month - Born(birthYear, birthMonth, created)) \div 12

\* A mutant: the upper bound belongs to the band.
InBandClosed(band, age) == band[2] <= age /\ age <= band[3]

InBand(band, age) == band[2] <= age /\ age < band[3]

\* A child who said an age in the year its account was made has that age on
\* the day it was asked, in whatever month, until half a year has passed since
\* the account was made; and on every date a child sits at most one test, each
\* for twelve months of its life (onboarding recorded birth_year as the IST
\* year of the turn less the age; assumedBirth, ageOn, inBand).
StatedAgeHolds ==
  child # None =>
    LET birthYear == child.asked \div 12 - child.age
        ageAt(month) == AgeOn(month, birthYear, None, child.created)
    IN /\ child.asked \div 12 = child.created \div 12 => ageAt(child.asked) = child.age
       /\ \A month \in child.asked..(child.asked + MaxMonths) :
            Cardinality({b \in Bands : InBand(b, ageAt(month))}) <= 1
       /\ \A b \in Bands : child.age < b[2] =>
            Cardinality({month \in child.asked..(child.asked + MaxMonths) :
                           InBand(b, ageAt(month))}) = 12

-----------------------------------------------------------------------------
(* Letters.  A score is counted in thousandths.  A history is the seed score
   and then the score after each answer about the letter. *)

MinScore == -10000

\* A mutant: nothing holds a score up.
NewScoreNoFloor(previous, right) == previous + (IF right THEN 1010 ELSE -3001)

\* calculateNewScore
NewScore(previous, right) ==
  Max({MinScore, previous + (IF right THEN 1010 ELSE -3001)})

\* getLetterBins, of a letter that was seeded
Bin(h) ==
  IF Len(h) <= 1 THEN "untouched"
  ELSE IF Last(h) <= h[1] THEN "regressed"
  ELSE IF Len(h) >= 4 /\ Min(ToSet(h)) <= h[1] - 4000 THEN "learnt"
  ELSE "improved"

\* As many right answers as lead from the floor above the seed, and the score
\* after each of them.
Climb == (history[1] - MinScore) \div 1010 + 1
Climbed[n \in 0..Climb] ==
  IF n = 0 THEN Last(history) ELSE NewScore(Climbed[n - 1], TRUE)

\* A right answer never loses a letter: learnt stays learnt, improved does not
\* regress.  A learnt letter that a wrong answer takes back is learnt again, not
\* merely improved, as soon as it is above its seed.  And the floor
\* keeps every letter within reach: however often it was wrong, as many right
\* answers as from the floor bring it back above its seed (getLetterBins,
\* calculateNewScore, MIN_SCORE).
LettersWithinReach ==
  LET again == Append(history, NewScore(Last(history), TRUE))
  IN /\ Bin(history) = "learnt" => Bin(again) = "learnt"
     /\ Bin(history) = "improved" => Bin(again) \in {"improved", "learnt"}
     /\ (\E n \in DOMAIN history : Bin(SubSeq(history, 1, n)) = "learnt") =>
          Bin(history) # "improved"
     /\ Climbed[Climb] > history[1]

-----------------------------------------------------------------------------
(* The book being filled *)

Seeds == {0, 1000, 7000}

BookInit ==
  /\ pool = <<>> /\ history = <<0>> /\ child = None

\* dedupeFirstAttempts keeps the first answer to each question: one more.
Attempt ==
  /\ Len(history) = 1 /\ child = None /\ Len(pool) < MaxPool
  /\ \E a \in Attempts : pool' = Append(pool, a)
  /\ UNCHANGED <<history, child>>

\* createSeedScores gives the letter its seed.
SeedLetter ==
  /\ pool = <<>> /\ child = None /\ history = <<0>>
  /\ \E seed \in Seeds : history' = <<seed>>
  /\ UNCHANGED <<pool, child>>

\* gradeAndRecord inserts a score computed from the latest one.
Grade ==
  /\ pool = <<>> /\ child = None /\ Len(history) <= MaxScores
  /\ \E right \in BOOLEAN : history' = Append(history, NewScore(Last(history), right))
  /\ UNCHANGED <<pool, child>>

\* The account is made in some month of a year; the age is asked up to half a
\* year later.
SayAge ==
  /\ pool = <<>> /\ Len(history) = 1 /\ child = None
  /\ \E created \in 240..251, later \in 0..5, age \in 5..12 :
       child' = [created |-> created, asked |-> created + later, age |-> age]
  /\ UNCHANGED <<pool, history>>

BookNext == Attempt \/ SeedLetter \/ Grade \/ SayAge

BookSpec == BookInit /\ [][BookNext]_book
=============================================================================
