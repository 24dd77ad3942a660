------------------------------ MODULE MCScores ------------------------------
(* A small instance of the nightly results, and of the scores they hold, for
   TLC: two students, two schools and a block, three nights; tests of two and
   four questions over three question types.  A behaviour fills a student's book,
   or runs three nights while everyone stays where they are, or runs two nights
   while students change school and no script is run. *)
EXTENDS NightlyResults, TestScores, TLC

CONSTANTS r1, r2, r3

VARIABLE part

MCBatches == << [types |-> {r1}, required |-> 1], [types |-> {r2}, required |-> 1] >>

MCInit == Init /\ BookInit /\ part \in {"book", "nights", "moves"}

\* The bounds of the two parts with nights.
Stay == used'.moves = 0 /\ used'.failures + used'.manual + used'.scripts <= 2
Leave == used'.scripts = 0 /\ day' <= 2 /\ (day > 0 => UNCHANGED answers)
         /\ \A s \in Students : Cardinality(answers'[s]) <= 1

MCNext ==
  /\ UNCHANGED part
  /\ \/ part = "book" /\ BookNext /\ UNCHANGED vars
     \/ part = "nights" /\ Next /\ Stay /\ UNCHANGED book
     \/ part = "moves" /\ Next /\ Leave /\ UNCHANGED book

MCSpec == MCInit /\ [][MCNext]_<<vars, book, part>> /\ Fairness
=============================================================================
