----------------------------- MODULE WordReading -----------------------------
(***************************************************************************)
(* How the answer to a word is judged: markWord and the near misses of     *)
(* evaluate-answer.utils.ts, in the order in which the word state of the   *)
(* lesson machine asks for them, and the letters that a wrong answer is    *)
(* drilled on (identify-character-status.utils.ts).  Letters are model     *)
(* values; the tables of spellings the engines are known to confuse are    *)
(* constants.  A behaviour is an answer being heard, letter by letter.     *)
(***************************************************************************)
EXTENDS Integers, Sequences, FiniteSets, SequencesExt

CONSTANTS WordList,    \* the words a lesson may ask: sequences of letters
          Sounds,      \* the letters an answer may hold
          Consonants,  \* CONSONANT_SET
          Matras,      \* VOWEL_MATRA_SET
          LongA,       \* LONG_A
          Families,    \* FAMILIES: sets of letters that sound alike
          Respelt,     \* <<word, token>>: spellings taken for the word
          Joined,      \* <<word, letters>>: answers taken for a word that was split
          MaxSounds    \* bound: letters and pauses of an answer

ASSUME WordAssumption == \A w \in WordList : w \in Seq({w[i] : i \in DOMAIN w})

VARIABLES word,     \* the word asked
          answer    \* the words of the answer

wordVars == <<word, answer>>

Equivalent(x, y) == x = y \/ \E f \in Families : {x, y} \subseteq f

\* The word in any spelling that sounds like it, with letters before it or not.
SoundsLike(w, t) ==
  /\ Len(t) >= Len(w)
  /\ \A i \in DOMAIN w : Equivalent(t[i + Len(t) - Len(w)], w[i])

\* The rules that read the answer as one word.
SplitByEngine(w, said) ==
  \E p \in Joined :
    /\ p[1] = w
    /\ \E i \in 0 .. Len(FlattenSeq(said)) - Len(p[2]) :
         SubSeq(FlattenSeq(said), i + 1, i + Len(p[2])) = p[2]

\* The known misspellings of one word.
Misspelt(w, t) == <<w, t>> \in Respelt

\* A long a at the end may be swallowed.
SchwaDeleted(w, t) == Last(w) = LongA /\ t = Front(w)

MarkWord(w, said) ==
  \/ SplitByEngine(w, said)
  \/ \E k \in DOMAIN said :
       said[k] = w \/ Misspelt(w, said[k]) \/ SchwaDeleted(w, said[k])
       \/ SoundsLike(w, said[k])

DetectIncorrectEndMatra(w, said) == \E k \in DOMAIN said : said[k] = Append(w, LongA)

\* A matra between the second and the third consonant of four.
ConsonantPlaces(s) == {i \in DOMAIN s : s[i] \in Consonants}
MatraInTheMiddle(s) ==
  \E i \in DOMAIN s :
    s[i] \in Matras /\ Cardinality({c \in ConsonantPlaces(s) : c < i}) = 2

DetectIncorrectMiddleMatra(w, said) ==
  LET s == FlattenSeq(said)
  IN  /\ Cardinality(ConsonantPlaces(w)) = 4 /\ Cardinality(ConsonantPlaces(s)) = 4
      /\ ~MatraInTheMiddle(w) /\ MatraInTheMiddle(s)

\* A longer word that holds the letters of the word in their order.
Found(w, n, x) == IF n < Len(w) /\ x = w[n + 1] THEN n + 1 ELSE n
Holds(t, w) == FoldLeft(LAMBDA n, x : Found(w, n, x), 0, t) = Len(w)

DetectInsertion(w, said) ==
  \E k \in DOMAIN said : Len(said[k]) > Len(w) /\ Holds(said[k], w)

\* The word state of the lesson machine: which of its guards takes an answer to
\* a word that is asked for the first time.
Outcome(w, said) ==
  IF MarkWord(w, said) THEN "right"
  ELSE IF DetectIncorrectEndMatra(w, said) THEN "endMatra"
  ELSE IF DetectIncorrectMiddleMatra(w, said) THEN "middleMatra"
  ELSE IF DetectInsertion(w, said) THEN "insertion"
  ELSE "letters"
-----------------------------------------------------------------------------
(* identify-character-status.utils.ts: the edits that lead from a heard    *)
(* word to the asked one.                                                  *)

Cell(cost, matches) == [cost |-> cost, matches |-> matches]

\* The cheaper cell, of two that cost the same the one with more letters right.
Better(x, y) ==
  IF y.cost < x.cost \/ (y.cost = x.cost /\ y.matches > x.matches) THEN y ELSE x

Edited(x) == Cell(x.cost + 1, x.matches)

\* buildMatrix: row i + 1 for the first i letters of w, column j + 1 for the
\* first j letters of t.
EditRow(w, t, above, i) ==
  FoldLeftDomain(
    LAMBDA row, j :
      Append(row, IF w[i] = t[j] THEN Cell(above[j].cost, above[j].matches + 1)
                  ELSE Better(Better(Edited(row[j]), Edited(above[j + 1])),
                              Edited(above[j]))),
    <<Cell(i, 0)>>, t)

EditMatrix(w, t) ==
  FoldLeftDomain(LAMBDA rows, i : Append(rows, EditRow(w, t, rows[i], i)),
                 <<[j \in 1 .. Len(t) + 1 |-> Cell(j - 1, 0)]>>, w)

\* traceBack: the place before p, after i letters of w and j letters of t.  An
\* equal letter is always taken as such; else the best of a replacement, a
\* deletion and an insertion, the first of them when in doubt.
Places(w, t) == (0 .. Len(w)) \X (0 .. Len(t))
Before(w, t, m, p) ==
  LET i == p[1]
      j == p[2]
      At(q) == m[q[1] + 1][q[2] + 1]
      Best(x, y) == IF Better(At(x), At(y)) = At(x) THEN x ELSE y
  IN  IF i = 0 THEN <<i, j - 1>>
      ELSE IF j = 0 THEN <<i - 1, j>>
      ELSE IF w[i] = t[j] THEN <<i - 1, j - 1>>
      ELSE Best(Best(<<i - 1, j - 1>>, <<i, j - 1>>), <<i - 1, j>>)

\* A step is the letter of w it deals with, none for a deletion.
Op(w, t, p, q) ==
  [equal  |-> p[1] > 0 /\ p[2] > 0 /\ w[p[1]] = t[p[2]],
   letter |-> IF q[1] < p[1] THEN {w[p[1]]} ELSE {}]

TraceBack(w, t) ==
  LET m == EditMatrix(w, t)
      back[p \in Places(w, t)] ==
        IF p = <<0, 0>> THEN <<>>
        ELSE Append(back[Before(w, t, m, p)], Op(w, t, p, Before(w, t, m, p)))
  IN  back[<<Len(w), Len(t)>>]

\* The places of the edits in the steps.
Edits(ops) == {k \in DOMAIN ops : ~ops[k].equal}

\* The heard word that is nearest to the asked one, the first of several.
Closeness(w, t) ==
  LET ops == TraceBack(w, t)
  IN  Cell(Cardinality(Edits(ops)), Len(ops) - Cardinality(Edits(ops)))

Nearer(w, best, t) ==
  IF Better(Closeness(w, best), Closeness(w, t)) = Closeness(w, best) THEN best ELSE t
NearestWord(w, said) ==
  FoldLeft(LAMBDA best, t : Nearer(w, best, t), Head(said), Tail(said))

\* The letters an edit of the nearest word replaces or adds.
LettersRemoved(w, said) ==   \* mutant: only letters that are missing are wrong
  {w[i] : i \in DOMAIN w} \ ToSet(NearestWord(w, said))
IncorrectChars(w, said) ==
  LET ops == TraceBack(w, NearestWord(w, said))
  IN  UNION {ops[k].letter : k \in Edits(ops)}
-----------------------------------------------------------------------------
WordInit == word \in WordList /\ answer = << <<>> >>

\* One more letter, or a pause between two words.
Sound ==
  /\ Len(FlattenSeq(answer)) + Len(answer) <= MaxSounds
  /\ \/ \E x \in Sounds : answer' = [answer EXCEPT ![Len(answer)] = Append(@, x)]
     \/ Last(answer) # <<>> /\ answer' = Append(answer, <<>>)
  /\ UNCHANGED word

WordNext == Sound

WordSpec == WordInit /\ [][WordNext]_wordVars
-----------------------------------------------------------------------------
\* A wrong answer always has a letter to drill: an answer that no rule takes for
\* the word or for a near miss leaves at least one letter, although markWord
\* lets letters of a family pass and the edits do not, and the rules look at
\* other words of the answer than the edits.
WrongWordHasWrongLetter == Outcome(word, answer) = "letters" => IncorrectChars(word, answer) # {}

=============================================================================
