--------------------------- MODULE SentenceReading ---------------------------
(***************************************************************************)
(* How a reading of a passage is judged (sentence-assessment.ts): every    *)
(* engine's transcript is aligned with the passage's words, each word      *)
(* takes its best verdict over the engines, and the flawed words, the      *)
(* errors and the speed decide.  Words are model values; how far a token   *)
(* is from a word is a constant, as what the spellings say is left out.    *)
(* A behaviour is a voice note being transcribed: engine after engine,     *)
(* token after token.                                                      *)
(***************************************************************************)
EXTENDS Integers, Sequences, FiniteSets, SequencesExt

CONSTANTS Passages,      \* the passages a student may be given: sequences of words
          Tokens,        \* what an engine may hear
          Same,          \* pairs <<word, token>>: equal, or accepted by markWord
          Near,          \* pairs <<word, token>> one akshara apart
          Fillers,       \* the tokens that are DISFLUENCY_TOKENS
          Hard,          \* the words with a letter outside TEACHABLE_GRAPHEMES
          FlawedTenths,  \* FLAWED_WORD_RATIO_MAX, in tenths
          ErrorBudget,   \* readErrorBudget of the passages' length
          MaxHeard,      \* bound: tokens of a voice note over all transcripts
          MaxEngines     \* bound: transcripts of one voice note

ASSUME ReadAssumption ==
  /\ \A p \in Passages : p \in Seq({p[i] : i \in DOMAIN p})
  /\ FlawedTenths \in Nat /\ ErrorBudget \in Nat

VARIABLES targets,   \* the passage's words
          hearing,   \* the transcript that is being heard
          engines    \* the transcripts that are complete

readVars == <<targets, hearing, engines>>

\* Costs, in halves.
CostClose == 1
CostGap == 2

MatchCost(target, token) ==
  IF <<target, token>> \in Same THEN 0
  ELSE IF <<target, token>> \in Near THEN CostClose
  ELSE 2

\* A filler is free, and so is a token that repeats the word before; i = 0 is
\* the place before the first word.
InsertionCost(ws, i, token) ==
  IF token \in Fillers \/ (i > 0 /\ MatchCost(ws[i], token) = 0)
  THEN 0 ELSE CostGap

Least(a, b) == IF a < b THEN a ELSE b

\* The cost table, row i + 1 for the first i words, column j + 1 for the first
\* j tokens.
FirstRow(ws, heard) ==
  FoldLeft(LAMBDA row, token : Append(row, Last(row) + InsertionCost(ws, 0, token)),
           <<0>>, heard)

NextRow(ws, heard, above, i) ==
  FoldLeftDomain(
    LAMBDA row, j :
      Append(row, Least(above[j] + MatchCost(ws[i], heard[j]),
                        Least(row[j] + InsertionCost(ws, i, heard[j]),
                              above[j + 1] + CostGap))),
    <<above[1] + CostGap>>, heard)

CostTable(ws, heard) ==
  FoldLeftDomain(LAMBDA rows, i : Append(rows, NextRow(ws, heard, rows[i], i)),
                 <<FirstRow(ws, heard)>>, ws)

Verdict(target, token) ==
  CASE MatchCost(target, token) = 0         -> "correct"
    [] MatchCost(target, token) = CostClose -> "close"
    [] OTHER                                -> "substituted"

\* The traceback: the place before p, after i words and j tokens.  A match comes
\* before an insertion before an omission; before the first word there are only
\* insertions.
WordBefore(ws, heard, table, p) ==
  LET i == p[1]
      j == p[2]
      Cost(a, b) == table[a + 1][b + 1]
      match  == Cost(i - 1, j - 1) + MatchCost(ws[i], heard[j])
      insert == Cost(i, j - 1) + InsertionCost(ws, i, heard[j])
  IN  IF i > 0 /\ j > 0 /\ Cost(i, j) = match THEN <<i - 1, j - 1>>
      ELSE IF i = 0 \/ (j > 0 /\ Cost(i, j) = insert) THEN <<i, j - 1>>
      ELSE <<i - 1, j>>

\* The word at p, if the traceback came from q.
WordAt(ws, heard, p, q) ==
  IF q[2] = p[2] THEN [heard |-> 0, status |-> "omitted"]
  ELSE [heard |-> p[2], status |-> Verdict(ws[p[1]], heard[p[2]])]

Aligned(ws, heard) ==
  LET table == CostTable(ws, heard)
      back[p \in (0 .. Len(ws)) \X (0 .. Len(heard))] ==
        LET q == WordBefore(ws, heard, table, p)
        IN  IF p = <<0, 0>> THEN <<>>
            ELSE IF q[1] = p[1] THEN back[q]
            ELSE Append(back[q], WordAt(ws, heard, p, q))
  IN  back[<<Len(ws), Len(heard)>>]

\* markTranspositions: two neighbours read in each other's place, from the left.
Swapped(ws, heard, words, i) ==
  /\ {words[i].status, words[i + 1].status} \subseteq {"substituted", "close"}
  /\ MatchCost(ws[i], heard[words[i + 1].heard]) = 0
  /\ MatchCost(ws[i + 1], heard[words[i].heard]) = 0

Marked(ws, heard, words, done, i) ==
  IF i <= Len(done) THEN done
  ELSE IF i < Len(ws) /\ Swapped(ws, heard, words, i)
  THEN done \o <<"transposed", "transposed">>
  ELSE Append(done, words[i].status)

Statuses(ws, heard) ==
  LET words == Aligned(ws, heard)
  IN  FoldLeftDomain(LAMBDA done, i : Marked(ws, heard, words, done, i), <<>>, ws)

\* STATUS_RANK.
Rank == [correct |-> 0, close |-> 1, transposed |-> 2, substituted |-> 3, omitted |-> 4]
BestOf(statuses) == CHOOSE s \in statuses : \A t \in statuses : Rank[s] <= Rank[t]

\* What the engines heard; with none, nothing was heard.
Heard(notes) ==
  LET spoken == ToSet(notes) \ {<<>>}
  IN  IF spoken = {} THEN {<<>>} ELSE spoken

\* A word takes its best status over them.
FusedLast(ws, notes) == Statuses(ws, Last(notes))   \* mutant
Fused(ws, notes) ==
  LET all == {Statuses(ws, note) : note \in Heard(notes)}
  IN  [i \in DOMAIN ws |-> BestOf({statuses[i] : statuses \in all})]

\* One error per word that was misread or left out, and one per swapped pair:
\* half a run of transposed words, rounded up.
Errors(statuses) ==
  LET run[i \in 0 .. Len(statuses)] ==
        IF i = 0 \/ statuses[i] # "transposed" THEN 0 ELSE run[i - 1] + 1
  IN  Cardinality({i \in DOMAIN statuses :
                     statuses[i] \in {"substituted", "omitted"} \/ run[i] % 2 = 1})

Flawed(statuses) == Cardinality({i \in DOMAIN statuses : statuses[i] # "correct"})

\* assessSentence, for a voice note that is fast enough.
Passed(statuses) ==
  /\ Errors(statuses) <= ErrorBudget
  /\ 10 * Flawed(statuses) <= FlawedTenths * Len(statuses)

\* selectDrillWord: the words that may be drilled, none when there is none.
DrillWords(ws, statuses) ==
  {i \in DOMAIN ws : statuses[i] \in {"substituted", "omitted"} /\ ws[i] \notin Hard}
-----------------------------------------------------------------------------
ReadInit == targets \in Passages /\ hearing = <<>> /\ engines = <<>>

\* An engine hears one more token.
Hear ==
  /\ Len(engines) < MaxEngines
  /\ Len(hearing) + Len(FlattenSeq(engines)) < MaxHeard
  /\ \E t \in Tokens : hearing' = Append(hearing, t)
  /\ UNCHANGED <<targets, engines>>

\* An engine has heard the whole note.
EngineDone ==
  /\ Len(engines) < MaxEngines
  /\ engines' = Append(engines, hearing) /\ hearing' = <<>>
  /\ UNCHANGED targets

ReadNext == Hear \/ EngineDone

ReadSpec == ReadInit /\ [][ReadNext]_readVars
-----------------------------------------------------------------------------

\* Whatever one more engine makes of the note, no word gets a worse verdict, no
\* error is added, no other word is drilled and a passed reading stays passed,
\* although a swapped pair may lose one of its words to the other engine.
AnotherEngineNeverHurts ==
  [][engines' # engines /\ engines # <<>> =>
       LET before == Fused(targets, engines)
           after  == Fused(targets, engines')
       IN  /\ Errors(after) <= Errors(before)
           /\ DrillWords(targets, after) \subseteq DrillWords(targets, before)
           /\ Passed(before) => Passed(after)]_readVars
=============================================================================
