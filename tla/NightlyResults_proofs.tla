------------------------- MODULE NightlyResults_proofs ------------------------
(***************************************************************************)
(* What holds of the nightly results for any students, schools, batches and *)
(* nights, and any failures, crashes, manual runs and moves; and of the     *)
(* letters and ages they are computed from, for any answers.                *)
(***************************************************************************)
EXTENDS NightlyResults, TestScores, SequenceTheorems, FoldLemmas

RowType == [at : Nat, counted : SUBSET Nat]

\* The clock: every stamp lies in the past.
Clock ==
  /\ day \in Days /\ now \in Nat
  /\ midnight \in [Days -> Nat] /\ \A d \in Days : midnight[d] <= now
  /\ answers \in [Students -> SUBSET (1 .. now)]
  /\ results \in [Students -> [Days -> RowType \cup {Nothing}]]
  /\ \A s \in Students : \A r \in RowsOf(s) : r.at <= now

\* A row of the student of that time or later.
HasRow(s, t) == \E r \in RowsOf(s) : r.at >= t

\* A newest row with scores holds every answer before it, but for those that slipped.
Counted ==
  \A s \in Students : \A r \in RowsOf(s) :
    (\A other \in RowsOf(s) : r.at >= other.at) =>
      (r.counted # {} => \A a \in answers[s] : a <= r.at => a \in r.counted \cup Slipped(s))

\* Whom a run has still to score.
Open == IF run.at = "batch" THEN run.todo \cup DOMAIN run.read
        ELSE IF run.at = "students" THEN run.todo ELSE {}

\* Whoever a run did not choose, or has scored, has a row that is no older than
\* any answer it has to count.
RunInv ==
  /\ run.at \in {"idle", "candidates", "students", "batch", "cohort", "write"}
  /\ run.at \in {"candidates", "students", "batch"} => run.date \in Days
  /\ Open \subseteq Students
  /\ run.at \in {"students", "batch"} =>
       /\ \A s \in Students : run.asked[s] \subseteq answers[s]
       /\ \A s \in Students \ Open : \A a \in run.asked[s] : HasRow(s, a)
  /\ run.at = "batch" =>
       \A s \in DOMAIN run.read : /\ run.read[s] \subseteq Nat
                                  /\ answers[s] \subseteq run.read[s] \cup Slipped(s)

NightInv == Clock /\ Counted /\ RunInv /\ MissedIsPickedUp

-----------------------------------------------------------------------------
(* The newest row.                                                         *)

\* ...so a student with rows has a newest one.
LEMMA LatestRow ==
  ASSUME Clock, NEW s \in Students, RowsOf(s) # {}
  PROVE  /\ Latest(s) \in RowsOf(s)
         /\ \A other \in RowsOf(s) : Latest(s).at >= other.at
<1> DEFINE D == {now - r.at : r \in RowsOf(s)}
<1>1. \A r \in RowsOf(s) : r \in RowType /\ r.at \in Nat /\ now - r.at \in Nat
  BY DEF Clock, RowsOf, RowType
<1>2. D \in SUBSET Nat /\ D # {}
  BY <1>1
<1>3. PICK m \in D : \A k \in D : m <= k
  BY <1>2, LeastNumber
<1>4. PICK r \in RowsOf(s) : m = now - r.at
  BY <1>3
<1>5. \A other \in RowsOf(s) : now - r.at <= now - other.at
  BY <1>3, <1>4
<1>6. \A other \in RowsOf(s) : r.at >= other.at
  BY <1>1, <1>5 DEF Clock
<1> QED BY <1>6 DEF Latest


-----------------------------------------------------------------------------
(* Steps that write no answer and no row of a student.                     *)
LEMMA StillStep ==
  ASSUME NightInv, day' \in Days, UNCHANGED <<now, midnight, answers, results, slipped>>
  PROVE  /\ Clock' /\ Counted'
         /\ \A s : RowsOf(s)' = RowsOf(s) /\ Slipped(s)' = Slipped(s)
         /\ \A s \in Students : \A t : HasRow(s, t) => HasRow(s, t)'
<1>1. \A s : RowsOf(s)' = RowsOf(s) /\ Slipped(s)' = Slipped(s)
  BY DEF RowsOf, Slipped
<1>2. Clock'
  BY <1>1 DEF NightInv, Clock
<1>3. Counted'
  BY <1>1 DEF NightInv, Counted
<1>4. \A s \in Students : \A t : HasRow(s, t) => HasRow(s, t)'
  BY <1>1 DEF HasRow
<1> QED BY <1>1, <1>2, <1>3, <1>4

\* A run whose students are all read goes by what it has read.
LEMMA ReadOut ==
  ASSUME NightInv, UNCHANGED <<day, now, midnight, answers, results, slipped>>,
         run.at \in {"cohort", "write"}, run'.at \in {"idle", "write"},
         run'.at = "write" => /\ run'.asked = run.asked /\ run'.kept = run.kept
                              /\ run'.veiled = run.veiled
  PROVE  NightInv'
<1>1. Clock' /\ Counted'
  BY StillStep DEF NightInv, Clock
<1>2. \A s : Slipped(s)' = Slipped(s)
  BY StillStep DEF NightInv, Clock
<1>3. RunInv'
  BY DEF RunInv, Open
<1>4. MissedIsPickedUp'
  BY <1>2 DEF NightInv, MissedIsPickedUp
<1> QED BY <1>1, <1>3, <1>4 DEF NightInv

\* The queue, the row of a crashed run, and a run that ends.
LEMMA QueueStep ==
  ASSUME NightInv,
         \/ SixHours \/ (\E full \in BOOLEAN : Manual(full)) \/ (\E job \in jobs : Take(job))
         \/ Finish \/ Fail \/ Crash \/ (\E s \in Students : Move(s)) \/ UNCHANGED vars
  PROVE  NightInv'
<1>1. UNCHANGED <<day, now, midnight, answers, results, slipped>>
  BY DEF SixHours, Manual, Take, Finish, Fail, Crash, Move, vars
<1>2. \/ run' = run
      \/ run' = Idle
      \/ \E kind, full : run' = [at |-> "candidates", kind |-> kind, full |-> full, date |-> day]
  <2>1. CASE \E job \in jobs : Take(job)
    BY <2>1 DEF Take
  <2>2. CASE ~\E job \in jobs : Take(job)
    BY <2>2 DEF SixHours, Manual, Finish, Fail, Crash, Move, vars
  <2> QED BY <2>1, <2>2
<1>3. Clock' /\ Counted' /\ day \in Days
  BY <1>1, StillStep DEF NightInv, Clock
<1>4. /\ \A s : Slipped(s)' = Slipped(s)
      /\ \A s \in Students : \A a : HasRow(s, a) => HasRow(s, a)'
  BY <1>1, <1>3, StillStep
<1>5. RunInv' /\ MissedIsPickedUp'
  <2>1. CASE run' = run
    <3>1. Open' = Open
      BY <2>1 DEF Open
    <3>2. RunInv /\ MissedIsPickedUp
      BY DEF NightInv
    <3>3. MissedIsPickedUp'
      BY <1>4, <2>1, <3>2 DEF MissedIsPickedUp
    <3>4. RunInv'
      BY <1>1, <1>4, <2>1, <3>1, <3>2 DEF RunInv
    <3> QED BY <3>3, <3>4
  <2>2. CASE run' = Idle
    BY <2>2 DEF Idle, RunInv, Open, MissedIsPickedUp
  <2>3. CASE \E kind, full : run' = [at |-> "candidates", kind |-> kind, full |-> full, date |-> day]
    BY <1>3, <2>3 DEF RunInv, Open, MissedIsPickedUp
  <2> QED BY <1>2, <2>1, <2>2, <2>3
<1> QED BY <1>3, <1>5 DEF NightInv

\* A run chooses whom to score: whoever it leaves out has no answer that is not
\* before a row of theirs.
LEMMA SelectStep == ASSUME NightInv, SelectCandidates PROVE NightInv'
<1>1. /\ run.at = "candidates" /\ run.date \in Days /\ day' \in Days
      /\ UNCHANGED <<day, now, midnight, answers, results, slipped>>
  BY DEF SelectCandidates, NightInv, RunInv, Clock
<1>2. PICK k, date, todo : /\ run' = [at |-> "students", kind |-> k, date |-> date,
                                      todo |-> todo, asked |-> answers]
                           /\ todo = Candidates(run.full) /\ date \in Days
  BY <1>1 DEF SelectCandidates
<1>3. Open' = todo
  BY <1>2 DEF Open
<1>4. ASSUME NEW s \in Students \ todo, NEW a \in answers[s]
      PROVE  HasRow(s, a)
  <2>1. a \in Nat
    BY DEF NightInv, Clock
  <2>2. PICK r \in RowsOf(s) : ~(a > r.at)
    BY <1>2, <1>4 DEF Candidates
  <2>3. r.at \in Nat
    BY DEF NightInv, Clock, RowsOf, RowType
  <2> QED BY <2>1, <2>2, <2>3 DEF HasRow
<1>5. RunInv'
  <2>1. \A s \in Students \ todo : \A a \in answers[s] : HasRow(s, a)'
    BY <1>1, <1>4, StillStep
  <2> QED BY <1>1, <1>2, <1>3, <2>1 DEF RunInv, Candidates
<1>6. MissedIsPickedUp'
  BY <1>2 DEF MissedIsPickedUp
<1> QED BY <1>1, <1>5, <1>6, StillStep DEF NightInv

\* A batch is read.
LEMMA ReadBatchStep == ASSUME NightInv, ReadBatch PROVE NightInv'
<1>1. /\ run.at = "students" /\ run.date \in Days /\ day' \in Days
      /\ UNCHANGED <<day, now, midnight, answers, results, slipped>>
  BY DEF ReadBatch, NightInv, RunInv, Clock
<1>2. PICK k, date, batch, left, asked :
        /\ run' = [at |-> "batch", kind |-> k, date |-> date, todo |-> left,
                   asked |-> asked, read |-> [s \in batch |-> answers[s]]]
        /\ batch \subseteq run.todo /\ left = run.todo \ batch
        /\ date = run.date /\ asked = run.asked
  BY DEF ReadBatch
<1>3. Open' = run.todo /\ Open = run.todo /\ DOMAIN run'.read = batch
  BY <1>1, <1>2 DEF Open
<1>4. \A s \in batch : s \in Students
  BY <1>1, <1>2, <1>3 DEF NightInv, RunInv
<1>5. RunInv'
  <2>1. run'.at = "batch" /\ run'.date \in Days /\ run'.asked = run.asked
    BY <1>1, <1>2
  <2>2. \A s \in Students : run'.asked[s] \subseteq answers[s]
    BY <1>1, <2>1 DEF NightInv, RunInv
  <2>3. \A s \in Students \ Open' : \A a \in run'.asked[s] : HasRow(s, a)'
    <3> TAKE s \in Students \ Open'
    <3>1. \A a \in run.asked[s] : HasRow(s, a)
      BY <1>1, <1>3 DEF NightInv, RunInv
    <3> QED BY <1>1, <2>1, <3>1, StillStep
  <2>4. \A s \in batch : run'.read[s] = answers[s] /\ answers[s] \subseteq Nat
    BY <1>2, <1>4 DEF NightInv, Clock
  <2>5. Open' \subseteq Students
    BY <1>3 DEF NightInv, RunInv
  <2> QED BY <1>1, <1>3, <1>4, <2>1, <2>2, <2>3, <2>4, <2>5 DEF RunInv
<1>6. MissedIsPickedUp'
  BY <1>2 DEF MissedIsPickedUp
<1> QED BY <1>1, <1>5, <1>6, StillStep DEF NightInv

\* What was chosen has been read: each newest row is no older than any answer the
\* run had to count, so it holds that answer or veils it.
LEMMA ReadLatestStep == ASSUME NightInv, ReadLatest PROVE NightInv'
<1>1. /\ run.at = "students" /\ run.todo = {} /\ Open = {} /\ day' \in Days
      /\ UNCHANGED <<day, now, midnight, answers, results, slipped>>
  BY DEF ReadLatest, Open, NightInv, Clock
<1>2. PICK k, date, asked, scored, onBlock, veiled, kept :
        /\ run' = [at |-> "cohort", kind |-> k, date |-> date, asked |-> asked,
                   scored |-> scored, onBlock |-> onBlock, veiled |-> veiled, kept |-> kept]
        /\ asked = run.asked /\ veiled = [s \in Students |-> Veiled(s)]
        /\ kept = [s \in Students |-> IF RowsOf(s) = {} THEN {} ELSE Latest(s).counted]
  BY DEF ReadLatest
<1>3. \A s \in Students : /\ run.asked[s] \subseteq answers[s]
                          /\ \A a \in run.asked[s] : HasRow(s, a)
  BY <1>1 DEF NightInv, RunInv
<1>4. RunInv'
  BY <1>2 DEF RunInv, Open
<1>5. ASSUME NEW s \in Students, NEW a \in run.asked[s]
      PROVE  a \in kept[s] \cup Slipped(s) \cup veiled[s]
  <2>1. PICK r \in RowsOf(s) : r.at >= a
    BY <1>3 DEF HasRow
  <2>2. /\ Latest(s) \in RowsOf(s)
        /\ \A other \in RowsOf(s) : Latest(s).at >= other.at
    BY <2>1, LatestRow DEF NightInv
  <2>3. a \in Nat /\ r.at \in Nat /\ Latest(s).at \in Nat /\ a \in answers[s]
    BY <1>3, <2>2 DEF NightInv, Clock, RowsOf, RowType
  <2>4. a <= Latest(s).at
    BY <2>1, <2>2, <2>3
  <2>5. CASE Latest(s).counted = {}
    BY <1>2, <2>1, <2>3, <2>4, <2>5 DEF Veiled
  <2>6. CASE Latest(s).counted # {}
    <3>1. a \in Latest(s).counted \cup Slipped(s)
      BY <2>2, <2>3, <2>4, <2>6 DEF NightInv, Counted
    <3> QED BY <1>2, <2>1, <3>1
  <2> QED BY <2>5, <2>6
<1>6. MissedIsPickedUp'
  <2>1. run'.asked = run.asked /\ run'.kept = kept /\ run'.veiled = veiled
    BY <1>2
  <2> QED BY <1>1, <1>5, <2>1, StillStep DEF MissedIsPickedUp
<1> QED BY <1>1, <1>4, <1>6, StillStep DEF NightInv

\* The rest of a run goes by what it read.
LEMMA RollUpStep == ASSUME NightInv, ReadCohort \/ WriteGeo PROVE NightInv'
<1>1. UNCHANGED <<day, now, midnight, answers, results, slipped>> /\ run.at \in {"cohort", "write"}
  BY DEF ReadCohort, WriteGeo
<1>2. CASE ReadCohort
  <2>1. PICK k, date, onBlock, vectors, todo :
          run' = [at |-> "write", kind |-> k, date |-> date, asked |-> run.asked,
                  kept |-> run.kept, veiled |-> run.veiled, onBlock |-> onBlock,
                  vectors |-> vectors, todo |-> todo]
    BY <1>2 DEF ReadCohort
  <2>2. run'.at = "write" /\ run'.asked = run.asked /\ run'.kept = run.kept /\ run'.veiled = run.veiled
    BY <2>1
  <2> QED BY <1>1, <2>2, ReadOut
<1>3. CASE WriteGeo
  <2>1. PICK chunk : run' = [run EXCEPT !.todo = @ \ chunk]
    BY <1>3 DEF WriteGeo
  <2>2. /\ run'.at = run.at /\ run.at = "write"
        /\ run'.asked = run.asked /\ run'.kept = run.kept /\ run'.veiled = run.veiled
    BY <1>3, <2>1 DEF WriteGeo
  <2> QED BY <1>1, <2>2, ReadOut
<1> QED BY <1>2, <1>3

\* An answer comes in: it is newer than every row, and if its student's batch
\* has been read it slips.
LEMMA AnswerStep == ASSUME NightInv, NEW s \in Students, Answer(s) PROVE NightInv'
<1>1. /\ now' = now + 1 /\ answers' = [answers EXCEPT ![s] = @ \cup {now'}]
      /\ slipped' = IF InFlight(s) THEN slipped \cup {<<s, now'>>} ELSE slipped
      /\ UNCHANGED <<day, midnight, results, run>>
  BY DEF Answer
<1>2. /\ \A t \in Students : RowsOf(t)' = RowsOf(t)
      /\ \A t : Slipped(t) \subseteq Slipped(t)'
  <2>1. now \in Nat
    BY DEF NightInv, Clock
  <2> QED BY <1>1, <2>1 DEF RowsOf, Slipped
<1>3. /\ \A t \in Students : \A a \in answers'[t] : a \in answers[t] \/ (t = s /\ a = now + 1)
      /\ \A t \in Students : answers[t] \subseteq answers'[t]
  BY <1>1 DEF NightInv, Clock
<1>4. Clock'
  <2>1. now \in Nat /\ now' = now + 1
    BY <1>1 DEF NightInv, Clock
  <2>2. answers' \in [Students -> SUBSET (1 .. now')]
    <3>1. \A t \in Students : answers'[t] \subseteq 1 .. now'
      BY <1>3, <2>1 DEF NightInv, Clock
    <3>2. answers' = [t \in Students |-> answers'[t]]
      BY <1>1 DEF NightInv, Clock
    <3> QED BY <3>1, <3>2
  <2>3. /\ \A d \in Days : midnight'[d] <= now'
        /\ midnight' \in [Days -> Nat] /\ day' \in Days
    BY <1>1, <2>1 DEF NightInv, Clock
  <2>4. /\ results' \in [Students -> [Days -> RowType \cup {Nothing}]]
        /\ \A t \in Students : \A r \in RowsOf(t)' : r.at <= now'
    <3>1. \A t \in Students : \A r \in RowsOf(t) : r.at \in Nat
      BY DEF NightInv, Clock, RowsOf, RowType
    <3> QED BY <1>1, <1>2, <2>1, <3>1 DEF NightInv, Clock
  <2> QED BY <2>1, <2>2, <2>3, <2>4 DEF Clock
<1>5. Counted'
  <2> SUFFICES ASSUME NEW t \in Students, NEW r \in RowsOf(t), r.counted # {},
                      \A other \in RowsOf(t) : r.at >= other.at,
                      NEW a \in answers'[t], a <= r.at
               PROVE  a \in r.counted \cup Slipped(t)'
    BY <1>2 DEF Counted
  <2>1. a \in answers[t]
    <3>1. r.at \in Nat /\ r.at <= now /\ now \in Nat
      BY DEF NightInv, Clock, RowsOf, RowType
    <3> QED BY <1>3, <3>1
  <2> QED BY <1>2, <2>1 DEF NightInv, Counted
<1>6. RunInv'
  <2>1. Open' = Open /\ RunInv
    BY <1>1 DEF Open, NightInv
  <2>2. run.at \in {"students", "batch"} =>
          /\ \A t \in Students : run.asked[t] \subseteq answers'[t]
          /\ \A t \in Students \ Open : \A a \in run.asked[t] : HasRow(t, a)'
    BY <1>2, <1>3, <2>1 DEF RunInv, HasRow
  <2>3. run.at = "batch" =>
          \A t \in DOMAIN run.read : /\ run.read[t] \subseteq Nat
                                     /\ answers'[t] \subseteq run.read[t] \cup Slipped(t)'
    <3> SUFFICES ASSUME run.at = "batch", NEW t \in DOMAIN run.read, NEW a \in answers'[t]
                 PROVE  a \in run.read[t] \cup Slipped(t)'
      BY <2>1 DEF RunInv
    <3>1. t \in Students
      BY <2>1 DEF Open, RunInv
    <3>2. CASE a \in answers[t]
      BY <1>2, <2>1, <3>2 DEF RunInv
    <3>3. CASE a \notin answers[t]
      <4>1. t = s /\ a = now + 1
        BY <1>3, <3>1, <3>3
      <4>2. <<s, now'>> \in slipped' /\ now' \in 1 .. now'
        BY <1>1, <4>1 DEF InFlight, NightInv, Clock
      <4> QED BY <1>1, <4>1, <4>2 DEF Slipped
    <3> QED BY <3>2, <3>3
  <2> QED BY <1>1, <2>1, <2>2, <2>3 DEF RunInv
<1>7. MissedIsPickedUp'
  BY <1>1, <1>2 DEF NightInv, MissedIsPickedUp
<1> QED BY <1>4, <1>5, <1>6, <1>7 DEF NightInv

\* A new date: no row and no run is touched.
LEMMA NightStep == ASSUME NightInv, Night PROVE NightInv'
<1>1. /\ day < MaxDay /\ day' = day + 1 /\ now' = now + 1
      /\ midnight' = [midnight EXCEPT ![day'] = now']
      /\ UNCHANGED <<answers, results, run, slipped>>
  BY DEF Night
<1>2. day' \in Days /\ day \in Days /\ now \in Nat
  BY <1>1, BoundsAssumption DEF NightInv, Clock, Days
<1>3. /\ \A s : RowsOf(s)' = RowsOf(s) /\ Slipped(s) \subseteq Slipped(s)'
      /\ \A s \in Students : \A t : HasRow(s, t) => HasRow(s, t)'
  BY <1>1, <1>2 DEF RowsOf, Slipped, HasRow
<1>4. Clock'
  <2>1. midnight' \in [Days -> Nat]
    BY <1>1, <1>2 DEF NightInv, Clock
  <2>2. \A d \in Days : midnight'[d] <= now'
    <3> TAKE d \in Days
    <3>1. midnight[d] \in Nat /\ midnight[d] <= now
      BY DEF NightInv, Clock
    <3> QED BY <1>1, <1>2, <3>1 DEF NightInv, Clock
  <2>3. answers' \in [Students -> SUBSET (1 .. now')]
    <3>1. \A s \in Students : answers[s] \subseteq 1 .. now'
      BY <1>1, <1>2 DEF NightInv, Clock
    <3> QED BY <1>1, <3>1 DEF NightInv, Clock
  <2>4. \A s \in Students : \A r \in RowsOf(s)' : r.at <= now'
    <3>1. \A s \in Students : \A r \in RowsOf(s) : r.at \in Nat /\ r.at <= now
      BY DEF NightInv, Clock, RowsOf, RowType
    <3> QED BY <1>1, <1>2, <1>3, <3>1
  <2> QED BY <1>1, <1>2, <2>1, <2>2, <2>3, <2>4 DEF NightInv, Clock
<1>5. Counted'
  BY <1>1, <1>3 DEF NightInv, Counted
<1>6. RunInv'
  <2>1. Open' = Open /\ RunInv
    BY <1>1 DEF Open, NightInv
  <2>2. run.at \in {"students", "batch"} =>
          \A s \in Students \ Open : \A a \in run.asked[s] : HasRow(s, a)'
    BY <1>3, <2>1 DEF RunInv
  <2>3. run.at = "batch" =>
          \A s \in DOMAIN run.read : /\ run.read[s] \subseteq Nat
                                     /\ answers[s] \subseteq run.read[s] \cup Slipped(s)'
    BY <1>3, <2>1 DEF RunInv
  <2> QED BY <1>1, <2>1, <2>2, <2>3 DEF RunInv
<1>7. MissedIsPickedUp'
  BY <1>1, <1>3 DEF NightInv, MissedIsPickedUp
<1> QED BY <1>4, <1>5, <1>6, <1>7 DEF NightInv

\* The rows of a batch are written: each is its student's newest, and holds
\* what was read of them.
LEMMA UpsertStep == ASSUME NightInv, UpsertBatch PROVE NightInv'
<1> DEFINE batch == DOMAIN run.read
           new(s) == [at |-> now', counted |-> run.read[s]]
<1>1. /\ run.at = "batch" /\ now' = now + 1 /\ now \in Nat /\ run.date \in Days
      /\ results' = [s \in Students |->
            IF s \in batch THEN [results[s] EXCEPT ![run.date] = new(s)] ELSE results[s]]
      /\ UNCHANGED <<day, midnight, answers, slipped>>
  BY DEF UpsertBatch, NightInv, RunInv, Clock
<1>2. PICK k : run' = [at |-> "students", kind |-> k, date |-> run.date,
                       todo |-> run.todo, asked |-> run.asked]
  BY DEF UpsertBatch
<1>3. /\ Open = run.todo \cup batch /\ Open' = run.todo /\ batch \subseteq Students
      /\ Open' \subseteq Students
  BY <1>1, <1>2 DEF Open, NightInv, RunInv
<1>4. /\ \A s : Slipped(s) \subseteq Slipped(s)'
      /\ \A s \in batch : run.read[s] \subseteq Nat /\ answers[s] \subseteq run.read[s] \cup Slipped(s)
  BY <1>1 DEF Slipped, NightInv, RunInv
<1>5. \A s \in batch : /\ new(s) \in RowType /\ new(s) # Nothing /\ new(s).at = now + 1
                       /\ new(s).counted = run.read[s]
  BY <1>1, <1>4, NothingAssumption DEF RowType
<1> HIDE DEF new
<1>6. \A s \in batch : /\ new(s) \in RowsOf(s)'
                       /\ \A r \in RowsOf(s)' : r = new(s) \/ r \in RowsOf(s)
  <2> TAKE s \in batch
  <2>1. results'[s] = [results[s] EXCEPT ![run.date] = new(s)] /\ DOMAIN results[s] = Days
    BY <1>1, <1>3 DEF NightInv, Clock
  <2>2. results'[s][run.date] = new(s)
        /\ \A d \in Days \ {run.date} : results'[s][d] = results[s][d]
    BY <1>1, <2>1
  <2> HIDE DEF batch
  <2>3. new(s) \in RowsOf(s)'
    BY <1>1, <1>5, <2>2 DEF RowsOf
  <2>4. ASSUME NEW r \in RowsOf(s)' PROVE r = new(s) \/ r \in RowsOf(s)
    <3>1. PICK d \in Days : r = results'[s][d]
      BY <2>4 DEF RowsOf
    <3>2. r # Nothing
      BY <2>4 DEF RowsOf
    <3>3. CASE d = run.date
      BY <2>2, <3>1, <3>3
    <3>4. CASE d # run.date
      <4>1. r = results[s][d]
        BY <2>2, <3>1, <3>4
      <4> QED BY <3>2, <4>1 DEF RowsOf
    <3> QED BY <3>3, <3>4
  <2> QED BY <2>3, <2>4
<1>7. \A s \in Students \ batch : RowsOf(s)' = RowsOf(s) /\ results'[s] = results[s]
  BY <1>1 DEF RowsOf
<1>8. \A s \in Students : \A r \in RowsOf(s) : r \in RowType /\ r.at \in Nat /\ r.at <= now
  BY DEF NightInv, Clock, RowsOf, RowType
<1>9. Clock'
  <2>1. \A s \in Students : results'[s] \in [Days -> RowType \cup {Nothing}]
    <3> TAKE s \in Students
    <3>1. CASE s \in batch
      BY <1>1, <1>5, <3>1 DEF NightInv, Clock
    <3>2. CASE s \notin batch
      BY <1>7, <3>2 DEF NightInv, Clock
    <3> QED BY <3>1, <3>2
  <2>2. results' \in [Students -> [Days -> RowType \cup {Nothing}]]
    <3> HIDE DEF batch
    <3>1. results' = [s \in Students |-> results'[s]]
      BY <1>1
    <3> QED BY <2>1, <3>1
  <2>3. ASSUME NEW s \in Students, NEW r \in RowsOf(s)' PROVE r.at <= now'
    <3> HIDE DEF batch
    <3>1. r \in RowsOf(s) => r.at <= now'
      BY <1>1, <1>8
    <3>2. s \in batch => r = new(s) \/ r \in RowsOf(s)
      BY <1>6
    <3>3. s \notin batch => r \in RowsOf(s)
      BY <1>7
    <3> QED BY <1>1, <1>5, <3>1, <3>2, <3>3
  <2>4. answers' \in [Students -> SUBSET (1 .. now')]
    <3>1. \A s \in Students : answers[s] \subseteq 1 .. now'
      BY <1>1 DEF NightInv, Clock
    <3> QED BY <1>1, <3>1 DEF NightInv, Clock
  <2>5. \A d \in Days : midnight'[d] <= now'
    BY <1>1 DEF NightInv, Clock
  <2> QED BY <1>1, <2>2, <2>3, <2>4, <2>5 DEF NightInv, Clock
<1>10. Counted'
  <2> SUFFICES ASSUME NEW s \in Students, NEW r \in RowsOf(s)', r.counted # {},
                      \A other \in RowsOf(s)' : r.at >= other.at,
                      NEW a \in answers[s], a <= r.at
               PROVE  a \in r.counted \cup Slipped(s)'
    BY <1>1 DEF Counted
  <2>1. CASE s \in batch
    <3>1. r = new(s)
      <4>1. r.at >= now + 1
        BY <1>5, <1>6, <2>1
      <4> QED BY <1>1, <1>6, <1>8, <2>1, <4>1
    <3> QED BY <1>4, <1>5, <2>1, <3>1
  <2>2. CASE s \notin batch
    BY <1>4, <1>7, <2>2 DEF NightInv, Counted
  <2> QED BY <2>1, <2>2
<1>11. \A s \in Students : \A t \in 0 .. now + 1 : HasRow(s, t) \/ s \in batch => HasRow(s, t)'
  <2> TAKE s \in Students
  <2> TAKE t \in 0 .. now + 1
  <2>1. CASE s \in batch
    BY <1>1, <1>5, <1>6, <2>1 DEF HasRow
  <2>2. CASE s \notin batch
    BY <1>7, <2>2 DEF HasRow
  <2> QED BY <2>1, <2>2
<1>12. RunInv'
  <2>1. run'.at = "students" /\ run'.date \in Days /\ run'.asked = run.asked
    BY <1>1, <1>2
  <2>2. \A s \in Students : run.asked[s] \subseteq answers[s] /\ answers[s] \subseteq 1 .. now
    BY <1>1 DEF NightInv, RunInv, Clock
  <2>3. \A s \in Students \ Open' : \A a \in run.asked[s] : HasRow(s, a)'
    <3> TAKE s \in Students \ Open'
    <3> TAKE a \in run.asked[s]
    <3>1. a \in 0 .. now + 1
      BY <1>1, <2>2
    <3>2. HasRow(s, a) \/ s \in batch
      BY <1>1, <1>3 DEF NightInv, RunInv
    <3> QED BY <1>11, <3>1, <3>2
  <2> QED BY <1>1, <1>3, <2>1, <2>2, <2>3 DEF RunInv
<1>13. MissedIsPickedUp'
  BY <1>2 DEF MissedIsPickedUp
<1> QED BY <1>9, <1>10, <1>12, <1>13 DEF NightInv

\* A batch of the usage backfill: rows without scores, none of them newer than the
\* clock, so whatever their student's newest row is now, it holds as much as
\* before or veils it.
LEMMA BackfillStep == ASSUME NightInv, NEW d \in 1 .. day, BackfillBatch(d) PROVE NightInv'
<1>1. PICK batch :
        /\ \A s \in batch : s \in Students /\ results[s][d] = Nothing
        /\ results' = [s \in Students |->
             IF s \in batch
             THEN [results[s] EXCEPT ![d] = [at |-> midnight[d], counted |-> {}]]
             ELSE results[s]]
        /\ UNCHANGED <<day, now, midnight, answers, run, slipped>>
  BY DEF BackfillBatch, HistoricalStamp
<1>2. PICK new : new = [at |-> midnight[d], counted |-> {}]
  OBVIOUS
<1>3. d \in Days
  BY BoundsAssumption DEF NightInv, Clock, Days
<1>4. /\ now \in Nat /\ midnight[d] \in Nat /\ midnight[d] <= now
      /\ new \in RowType /\ new # Nothing /\ new.at = midnight[d] /\ new.counted = {}
  BY <1>2, <1>3, NothingAssumption DEF NightInv, Clock, RowType
<1>5. \A s \in Students : /\ RowsOf(s) \subseteq RowsOf(s)'
                          /\ \A r \in RowsOf(s)' : r \in RowsOf(s) \/ r = new
  <2> TAKE s \in Students
  <2>1. CASE s \in batch
    <3>1. results[s][d] = Nothing /\ DOMAIN results[s] = Days
          /\ results'[s] = [results[s] EXCEPT ![d] = new]
      BY <1>1, <1>2, <2>1 DEF NightInv, Clock
    <3>2. results'[s][d] = new /\ \A e \in Days \ {d} : results'[s][e] = results[s][e]
      BY <1>3, <3>1
    <3> QED BY <1>3, <3>1, <3>2 DEF RowsOf
  <2>2. CASE s \notin batch
    BY <1>1, <2>2 DEF RowsOf
  <2> QED BY <2>1, <2>2
<1>6. /\ \A s : Slipped(s)' = Slipped(s)
      /\ \A s \in Students : \A t : HasRow(s, t) => HasRow(s, t)'
  BY <1>1, <1>5 DEF Slipped, HasRow
<1>7. Clock'
  <2>1. results' \in [Students -> [Days -> RowType \cup {Nothing}]]
    <3>1. \A s \in Students : results'[s] \in [Days -> RowType \cup {Nothing}]
      <4> TAKE s \in Students
      <4>1. CASE s \in batch
        BY <1>1, <1>2, <1>4, <4>1 DEF NightInv, Clock
      <4>2. CASE s \notin batch
        BY <1>1, <4>2 DEF NightInv, Clock
      <4> QED BY <4>1, <4>2
    <3>2. results' = [s \in Students |-> results'[s]]
      BY <1>1
    <3> QED BY <3>1, <3>2
  <2>2. \A s \in Students : \A r \in RowsOf(s)' : r.at <= now'
    <3>1. \A s \in Students : \A r \in RowsOf(s) : r.at <= now
      BY DEF NightInv, Clock
    <3> QED BY <1>1, <1>4, <1>5, <3>1
  <2> QED BY <1>1, <2>1, <2>2 DEF NightInv, Clock
<1>8. Counted'
  <2> SUFFICES ASSUME NEW s \in Students, NEW r \in RowsOf(s)', r.counted # {},
                      \A other \in RowsOf(s)' : r.at >= other.at,
                      NEW a \in answers[s], a <= r.at
               PROVE  a \in r.counted \cup Slipped(s)
    BY <1>1, <1>6 DEF Counted
  <2>1. r \in RowsOf(s) /\ \A other \in RowsOf(s) : r.at >= other.at
    BY <1>4, <1>5
  <2> QED BY <2>1 DEF NightInv, Counted
<1>9. RunInv'
  <2>1. Open' = Open /\ RunInv
    BY <1>1 DEF Open, NightInv
  <2> QED BY <1>1, <1>6, <2>1 DEF RunInv
<1>10. MissedIsPickedUp'
  BY <1>1, <1>6 DEF NightInv, MissedIsPickedUp
<1> QED BY <1>7, <1>8, <1>9, <1>10 DEF NightInv

-----------------------------------------------------------------------------
(* Whatever earlier nights failed, crashed, were dropped or were run by     *)
(* hand, what a night rolls up of a student holds every answer that was     *)
(* there when it chose whom to score, but for the answers that slipped      *)
(* between a reading and its stamp and those a newest row of the usage      *)
(* backfill veils.                                                          *)
THEOREM NoAnswerIsMissed == Spec => []MissedIsPickedUp
<1>1. Init => NightInv
  <2> SUFFICES ASSUME Init PROVE NightInv
    OBVIOUS
  <2>1. \A s : s \in Students => RowsOf(s) = {}
    BY DEF Init, RowsOf
  <2>2. Clock
    <3>1. 0 \in Days /\ \A d \in Days : midnight[d] = 0
      BY BoundsAssumption DEF Init, Days
    <3> QED BY <2>1, <3>1 DEF Init, Clock
  <2>3. run.at = "idle" /\ Open = {}
    BY DEF Init, Idle, Open
  <2>4. RunInv /\ MissedIsPickedUp
    BY <2>3 DEF RunInv, MissedIsPickedUp
  <2>5. Counted
    BY <2>1 DEF Counted
  <2> QED BY <2>2, <2>4, <2>5 DEF NightInv
<1>2. NightInv /\ [Next]_vars => NightInv'
  <2> SUFFICES ASSUME NightInv, [Next]_vars PROVE NightInv'
    OBVIOUS
  <2>1. ASSUME NEW s \in Students, Answer(s) PROVE NightInv'
    BY <2>1, AnswerStep
  <2>2. CASE \/ SixHours \/ (\E full \in BOOLEAN : Manual(full)) \/ (\E job \in jobs : Take(job))
             \/ Finish \/ Fail \/ Crash \/ (\E s \in Students : Move(s)) \/ UNCHANGED vars
    BY <2>2, QueueStep
  <2>3. CASE SelectCandidates \/ ReadBatch \/ UpsertBatch \/ ReadLatest \/ ReadCohort \/ WriteGeo
    BY <2>3, SelectStep, ReadBatchStep, UpsertStep, ReadLatestStep, RollUpStep
  <2>4. CASE Night
    BY <2>4, NightStep
  <2>5. ASSUME NEW d \in 1 .. day, BackfillBatch(d) PROVE NightInv'
    BY <2>5, BackfillStep
  <2> QED BY <2>1, <2>2, <2>3, <2>4, <2>5 DEF Next, Worker
<1>3. NightInv => MissedIsPickedUp
  BY DEF NightInv
<1> QED BY <1>1, <1>2, <1>3, PTL DEF Spec

-----------------------------------------------------------------------------
(* The scores of a letter.                                                 *)

\* A letter's scores: the seed and one for each answer, none below the floor.
Scores(h) == h \in Seq(Int) /\ Len(h) >= 1 /\ \A i \in 1 .. Len(h) : h[i] >= MinScore

\* A right answer adds to a score, a wrong one takes from it down to the floor.
LEMMA NewScoreIs ==
  ASSUME NEW x \in Int, x >= MinScore, NEW right \in BOOLEAN
  PROVE  /\ NewScore(x, right) \in Int /\ NewScore(x, right) >= MinScore
         /\ right => NewScore(x, right) = x + 1010
<1> DEFINE y == x + (IF right THEN 1010 ELSE -3001)
           S == {MinScore, y}
<1>1. y \in Int /\ MinScore \in Int /\ (right => y = x + 1010)
  BY DEF MinScore
<1>2. \E z \in S : \A w \in S : z >= w
  <2>1. CASE MinScore >= y
    BY <1>1, <2>1
  <2>2. CASE y >= MinScore
    BY <1>1, <2>2
  <2> QED BY <1>1, <2>1, <2>2
<1>3. Max(S) \in S /\ \A w \in S : Max(S) >= w
  BY <1>2 DEF Max
<1>4. NewScore(x, right) = Max(S)
  BY DEF NewScore
<1>5. NewScore(x, right) >= MinScore /\ NewScore(x, right) >= y
      /\ NewScore(x, right) \in {MinScore, y}
  BY <1>3, <1>4
<1> HIDE DEF y, S
<1> QED BY <1>1, <1>5 DEF MinScore

\* The score after a right answer.
Righted(x) == NewScore(x, TRUE)

\* The floor never meets a right answer.
LEMMA RightScore ==
  ASSUME NEW x \in Int, x >= MinScore
  PROVE  Righted(x) = x + 1010
<1> DEFINE S == {MinScore, x + 1010}
<1>1. x + 1010 \in S /\ \A w \in S : x + 1010 >= w
  BY DEF MinScore
<1>2. \A z \in S : (\A w \in S : z >= w) => z = x + 1010
  BY DEF MinScore
<1>3. Max(S) = x + 1010
  <2>1. Max(S) \in S /\ \A w \in S : Max(S) >= w
    BY <1>1 DEF Max
  <2> QED BY <1>2, <2>1
<1> QED BY <1>3 DEF NewScore, Righted

\* The lowest of a letter's scores.
LEMMA LowestScore ==
  ASSUME NEW h, Scores(h)
  PROVE  /\ Min(ToSet(h)) \in Int
         /\ \E i \in 1 .. Len(h) : h[i] = Min(ToSet(h))
         /\ \A i \in 1 .. Len(h) : Min(ToSet(h)) <= h[i]
<1>1. /\ Len(h) \in Nat /\ DOMAIN h = 1 .. Len(h) /\ Len(h) >= 1
      /\ \A i \in 1 .. Len(h) : h[i] \in Int /\ h[i] >= MinScore
  BY LenProperties, ElementOfSeq DEF Scores
<1> DEFINE T == {h[i] - MinScore : i \in 1 .. Len(h)}
<1>2. T \in SUBSET Nat /\ T # {}
  BY <1>1 DEF MinScore
<1>3. PICK m \in T : \A k \in T : m <= k
  BY <1>2, LeastNumber
<1>4. PICK i \in 1 .. Len(h) : m = h[i] - MinScore
  BY <1>3
<1>5. \A j \in 1 .. Len(h) : h[i] <= h[j]
  <2>1. \A j \in 1 .. Len(h) : h[j] - MinScore \in T
    OBVIOUS
  <2>2. \A j \in 1 .. Len(h) : h[i] - MinScore <= h[j] - MinScore
    BY <1>3, <1>4, <2>1
  <2> HIDE DEF T
  <2> QED BY <1>1, <2>2 DEF MinScore
<1>6. h[i] \in ToSet(h) /\ \A x \in ToSet(h) : h[i] <= x
  BY <1>1, <1>5 DEF ToSet
<1>7. Min(ToSet(h)) \in ToSet(h) /\ \A x \in ToSet(h) : Min(ToSet(h)) <= x
  BY <1>6 DEF Min
<1> QED BY <1>1, <1>7 DEF ToSet

\* Once it was four points below its seed, and answered three times.
WasLow(h) == Len(h) >= 4 /\ \E i \in 1 .. Len(h) : h[i] <= h[1] - 4000

\* A letter's bin, without the lowest score.
LEMMA BinIs ==
  ASSUME NEW h, Scores(h)
  PROVE  /\ Bin(h) = "learnt" <=> h[Len(h)] > h[1] /\ WasLow(h)
         /\ Bin(h) = "improved" <=> Len(h) > 1 /\ h[Len(h)] > h[1] /\ ~WasLow(h)
<1>1. /\ Len(h) \in Nat /\ Len(h) >= 1
      /\ \A i \in 1 .. Len(h) : h[i] \in Int
  BY LenProperties, ElementOfSeq DEF Scores
<1>2. WasLow(h) <=> Len(h) >= 4 /\ Min(ToSet(h)) <= h[1] - 4000
  BY <1>1, LowestScore DEF WasLow
<1> QED BY <1>1, <1>2 DEF Bin, Last

\* The next score is added to the others.
LEMMA NextAnswer ==
  ASSUME NEW h, Scores(h), NEW x \in Int, x >= MinScore
  PROVE  /\ Scores(Append(h, x)) /\ Len(Append(h, x)) = Len(h) + 1
         /\ Append(h, x)[Len(h) + 1] = x
         /\ \A i \in 1 .. Len(h) : Append(h, x)[i] = h[i]
<1>1. /\ Len(h) \in Nat /\ Len(h) >= 1 /\ h \in Seq(Int)
      /\ \A i \in 1 .. Len(h) : h[i] \in Int /\ h[i] >= MinScore
  BY LenProperties, ElementOfSeq DEF Scores
<1> DEFINE g == Append(h, x)
<1>2. /\ g \in Seq(Int) /\ Len(g) = Len(h) + 1 /\ g[Len(h) + 1] = x
      /\ \A i \in 1 .. Len(h) : g[i] = h[i]
  BY <1>1
<1> HIDE DEF g
<1>3. Scores(g)
  BY <1>1, <1>2 DEF Scores
<1> QED BY <1>2, <1>3 DEF g

\* The scores after each of c right answers to a letter of score x.
Following(f, x, c) ==
  f = [n \in 0 .. c |-> IF n = 0 THEN x ELSE Righted(f[n - 1])]

\* Right answers add up...
LEMMA AddedUp ==
  ASSUME NEW x \in Int, x >= MinScore, NEW c \in Nat
  PROVE  Following([n \in 0 .. c |-> x + 1010 * n], x, c)
<1> DEFINE g == [n \in 0 .. c |-> x + 1010 * n]
           h == [n \in 0 .. c |-> IF n = 0 THEN x ELSE Righted(g[n - 1])]
<1>1. ASSUME NEW n \in 0 .. c PROVE g[n] = h[n]
  <2>1. CASE n = 0
    BY <2>1
  <2>2. CASE n # 0
    <3>1. n - 1 \in 0 .. c
      BY <2>2
    <3>2. g[n - 1] = x + 1010 * (n - 1)
      BY <3>1
    <3>3. PICK y \in Int : y = x + 1010 * (n - 1)
      OBVIOUS
    <3>4. y >= MinScore /\ y + 1010 = x + 1010 * n
      BY <3>1, <3>3 DEF MinScore
    <3>5. Righted(y) = y + 1010
      BY <3>4, RightScore
    <3>6. h[n] = Righted(g[n - 1])
      BY <2>2
    <3>7. g[n] = x + 1010 * n
      OBVIOUS
    <3> HIDE DEF g, h
    <3> QED BY <3>2, <3>3, <3>4, <3>5, <3>6, <3>7
  <2> QED BY <2>1, <2>2
<1>2. g = h
  <2>1. DOMAIN g = 0 .. c /\ DOMAIN h = 0 .. c
    OBVIOUS
  <2>2. g = [n \in 0 .. c |-> g[n]] /\ h = [n \in 0 .. c |-> h[n]]
    OBVIOUS
  <2> HIDE DEF g, h
  <2> QED BY <1>1, <2>2
<1> QED BY <1>2 DEF Following

\* ...and nothing else follows.
LEMMA AddsUp ==
  ASSUME NEW x \in Int, x >= MinScore, NEW c \in Nat, NEW after, Following(after, x, c)
  PROVE  after[c] = x + 1010 * c
<1> DEFINE T == {n \in 0 .. c : after[n] # x + 1010 * n}
<1>1. \A n \in 0 .. c : after[n] = IF n = 0 THEN x ELSE Righted(after[n - 1])
  BY DEF Following
<1>2. T = {}
  <2> SUFFICES ASSUME T # {} PROVE FALSE
    OBVIOUS
  <2>1. PICK n \in T : \A k \in T : n <= k
    <3>1. T \in SUBSET Nat
      OBVIOUS
    <3> HIDE DEF T
    <3> QED BY <3>1, LeastNumber
  <2>2. n \in 0 .. c /\ after[n] # x + 1010 * n
    BY <2>1
  <2>3. n # 0
    <3>1. ASSUME n = 0 PROVE FALSE
      <4>1. after[n] = x
        BY <1>1, <2>2, <3>1
      <4> QED BY <2>2, <3>1, <4>1
    <3> QED BY <3>1
  <2>4. n - 1 \in 0 .. c /\ ~(n <= n - 1)
    BY <2>2, <2>3
  <2>5. after[n - 1] = x + 1010 * (n - 1)
    BY <2>1, <2>4
  <2>6. PICK y \in Int : y = x + 1010 * (n - 1)
    BY <2>2
  <2>7. y >= MinScore /\ y + 1010 = x + 1010 * n
    BY <2>4, <2>6 DEF MinScore
  <2>8. after[n] = Righted(y)
    <3>1. after[n] = Righted(after[n - 1])
      BY <1>1, <2>2, <2>3
    <3> QED BY <2>5, <2>6, <3>1
  <2>9. Righted(y) = y + 1010
    BY <2>7, RightScore
  <2> QED BY <2>2, <2>7, <2>8, <2>9
<1>3. c \in 0 .. c /\ c \notin T
  BY <1>2
<1> QED BY <1>3

\* From the floor they lead above the seed.
LEMMA RightAnswersAddUp ==
  ASSUME Scores(history)
  PROVE  Climb \in Nat /\ Climbed[Climb] = Last(history) + 1010 * Climb
<1>1. Last(history) \in Int /\ Last(history) >= MinScore
      /\ history[1] \in Int /\ history[1] >= MinScore
  BY LenProperties, ElementOfSeq DEF Scores, Last
<1>2. Climb \in Nat
  BY <1>1 DEF Climb, MinScore
<1>3. \E f : Following(f, Last(history), Climb)
  BY <1>1, <1>2, AddedUp
<1>4. Climbed = CHOOSE f : Following(f, Last(history), Climb)
  BY Zenon DEF Climbed, Following, Righted
<1>5. Following(Climbed, Last(history), Climb)
  BY <1>3, <1>4, Zenon
<1> QED BY <1>1, <1>2, <1>5, AddsUp

-----------------------------------------------------------------------------
(* Bins and scores.                                                        *)

\* The bins of any letter's scores follow each other as they are meant to.
LEMMA WithinReach == ASSUME Scores(history) PROVE LettersWithinReach
<1> DEFINE h == history
           g == Append(h, Righted(Last(h)))
<1>1. /\ Len(h) \in Nat /\ Len(h) >= 1 /\ DOMAIN h = 1 .. Len(h) /\ h \in Seq(Int)
      /\ \A i \in 1 .. Len(h) : h[i] \in Int /\ h[i] >= MinScore
  BY LenProperties, ElementOfSeq DEF Scores
<1>2. /\ Scores(g) /\ Len(g) = Len(h) + 1
      /\ \A i \in 1 .. Len(h) : g[i] = h[i]
      /\ g[Len(g)] = h[Len(h)] + 1010
  <2>1. Last(h) = h[Len(h)] /\ Last(h) \in Int /\ Last(h) >= MinScore
    BY <1>1 DEF Last
  <2>2. Righted(Last(h)) = h[Len(h)] + 1010
    BY <2>1, RightScore
  <2>3. h[Len(h)] + 1010 \in Int /\ h[Len(h)] + 1010 >= MinScore
    BY <2>1 DEF MinScore
  <2> QED BY <2>2, <2>3, NextAnswer
<1> HIDE DEF g
<1>3. WasLow(h) => WasLow(g)
  BY <1>1, <1>2 DEF WasLow
<1>4. /\ Bin(h) = "learnt" => Bin(g) = "learnt"
      /\ Bin(h) = "improved" => Bin(g) \in {"improved", "learnt"}
  <2>1. /\ h[Len(h)] > h[1] => g[Len(g)] > g[1]
        /\ Len(g) > 1
    BY <1>1, <1>2
  <2>2. /\ Bin(h) = "learnt" <=> h[Len(h)] > h[1] /\ WasLow(h)
        /\ Bin(h) = "improved" <=> Len(h) > 1 /\ h[Len(h)] > h[1] /\ ~WasLow(h)
        /\ Bin(g) = "learnt" <=> g[Len(g)] > g[1] /\ WasLow(g)
        /\ Bin(g) = "improved" <=> Len(g) > 1 /\ g[Len(g)] > g[1] /\ ~WasLow(g)
    BY <1>2, BinIs
  <2> QED BY <1>3, <2>1, <2>2
<1>5. ASSUME NEW n \in DOMAIN h, Bin(SubSeq(h, 1, n)) = "learnt" PROVE Bin(h) # "improved"
  <2> DEFINE p == SubSeq(h, 1, n)
  <2>1. /\ n \in 1 .. Len(h) /\ p \in Seq(Int) /\ Len(p) = n
        /\ \A i \in 1 .. n : p[i] = h[i]
    BY <1>1
  <2> HIDE DEF p
  <2>2. Scores(p)
    BY <1>1, <2>1 DEF Scores
  <2>3. WasLow(p)
    BY <1>5, <2>2, BinIs DEF p
  <2>4. WasLow(h)
    BY <1>1, <2>1, <2>3 DEF WasLow
  <2> QED BY <2>4, BinIs
<1>6. Climbed[Climb] > history[1]
  <2>1. Climb \in Nat /\ Climbed[Climb] = h[Len(h)] + 1010 * Climb
    BY RightAnswersAddUp DEF Last
  <2>2. 1010 * Climb > h[1] - MinScore
    BY <1>1 DEF Climb, MinScore
  <2> QED BY <1>1, <2>1, <2>2 DEF MinScore
<1> QED BY <1>4, <1>5, <1>6 DEF LettersWithinReach, Righted, g

-----------------------------------------------------------------------------
(* The ages.                                                               *)

\* The child has said its age.
Children ==
  [created : 240 .. 251, asked : Int, age : 5 .. 12]
Said(c) == c \in Children /\ c.created <= c.asked /\ c.asked <= c.created + 5

\* The month the child is taken to be born in.
BornIn(c) == Born(c.asked \div 12 - c.age, None, c.created)

\* It follows from the account's month, and from whether the year was over when
\* the age was asked.
LEMMA BornThen ==
  ASSUME NEW c, Said(c)
  PROVE  /\ BornIn(c) \in Int
         /\ BornIn(c) = c.created - 12 * (c.age - (c.asked \div 12 - 20)) - 6
         /\ c.asked \div 12 \in {20, 21} /\ c.created \div 12 = 20
<1>1. /\ c.created \in 240 .. 251 /\ c.asked \in Int /\ c.age \in 5 .. 12
      /\ c.created <= c.asked /\ c.asked <= c.created + 5
  BY DEF Said, Children
<1>2. c.created \div 12 = 20 /\ c.asked \div 12 \in {20, 21}
  BY <1>1
<1>3. c.asked \div 12 - c.age <= c.created \div 12
  BY <1>1, <1>2
<1>4. BornIn(c) = c.created - 12 * (c.created \div 12 - (c.asked \div 12 - c.age)) - 6
  BY <1>3 DEF BornIn, Born
<1> QED BY <1>1, <1>2, <1>4

\* A month is of an age of whole years, twelve months long.
LEMMA MonthsOfAge ==
  ASSUME NEW b \in Int, NEW m \in Int, NEW y \in Int
  PROVE  (m - b) \div 12 \in Int /\ ((m - b) \div 12 = y <=> m \in (b + 12 * y) .. (b + 12 * y + 11))
OBVIOUS

\* Each band is one year.
LEMMA BandsAre ==
  \A b \in Bands : b[2] \in {6, 7, 8, 10} /\ b[3] = b[2] + 1
BY DEF Bands

\* ...and no two bands are of one year.
LEMMA BandsDiffer == \A b, d \in Bands : b[2] = d[2] => b = d
BY DEF Bands

\* A child is of a band for the twelve months it has that age.
LEMMA InBandIs ==
  ASSUME NEW b \in Bands, NEW y \in Int
  PROVE  InBand(b, y) <=> y = b[2]
BY BandsAre DEF InBand

\* A child of a stated age has it in the year of the account; with 77 months looked
\* ahead even the youngest, at five, is seen through the last band.
LEMMA AgesHold ==
  ASSUME MaxMonths >= 77, child # None => Said(child)
  PROVE  StatedAgeHolds
<1> SUFFICES ASSUME child # None PROVE StatedAgeHolds
  BY DEF StatedAgeHolds
<1> DEFINE c == child
           B == BornIn(c)
           Age(month) == AgeOn(month, c.asked \div 12 - c.age, None, c.created)
<1>1. /\ c.created \in 240 .. 251 /\ c.asked \in Int /\ c.age \in 5 .. 12
      /\ c.created <= c.asked /\ c.asked <= c.created + 5
  BY DEF Said, Children
<1>2. /\ B \in Int /\ B = c.created - 12 * (c.age - (c.asked \div 12 - 20)) - 6
      /\ c.asked \div 12 \in {20, 21} /\ c.created \div 12 = 20
  BY BornThen
<1>3. \A month : Age(month) = (month - B) \div 12
  BY DEF AgeOn, BornIn
<1>4. MaxMonths \in Nat
  BY CountsAssumption
<1> HIDE DEF c, B, Age
<1>5. c.asked \div 12 = c.created \div 12 => Age(c.asked) = c.age
  <2>1. ASSUME c.asked \div 12 = 20 PROVE (c.asked - B) \div 12 = c.age
    <3>1. B = c.created - 12 * c.age - 6
      BY <1>1, <1>2, <2>1
    <3>2. c.asked \in (B + 12 * c.age) .. (B + 12 * c.age + 11)
      BY <1>1, <1>2, <3>1
    <3> QED BY <1>1, <1>2, <3>2, MonthsOfAge
  <2> QED BY <1>2, <1>3, <2>1
<1>6. ASSUME NEW month \in c.asked .. (c.asked + MaxMonths)
      PROVE  Cardinality({b \in Bands : InBand(b, Age(month))}) <= 1
  <2> DEFINE S == {b \in Bands : InBand(b, Age(month))}
  <2>1. month \in Int
    BY <1>1, <1>4
  <2>2. Age(month) \in Int
    BY <1>2, <1>3, <2>1, MonthsOfAge
  <2>3. \A b, d \in S : b = d
    <3>1. \A b \in S : b \in Bands /\ b[2] = Age(month)
      BY <2>2, InBandIs
    <3> HIDE DEF S
    <3> QED BY <3>1, BandsDiffer
  <2> HIDE DEF S
  <2>4. CASE S = {}
    BY <2>4, FS_EmptySet DEF S
  <2>5. CASE S # {}
    <3>1. PICK b \in S : S = {b}
      BY <2>3, <2>5
    <3>2. Cardinality(S) = 1
      BY <3>1, FS_Singleton
    <3> QED BY <3>2 DEF S
  <2> QED BY <2>4, <2>5
<1>7. ASSUME NEW b \in Bands, c.age < b[2]
      PROVE  Cardinality({month \in c.asked .. (c.asked + MaxMonths) : InBand(b, Age(month))}) = 12
  <2> DEFINE S == {month \in c.asked .. (c.asked + MaxMonths) : InBand(b, Age(month))}
             y == b[2]
  <2>1. y \in Int /\ y <= 10 /\ c.age < y
    BY <1>7, BandsAre
  <2> HIDE DEF y
  <2>2. (B + 12 * y) .. (B + 12 * y + 11) \subseteq c.asked .. (c.asked + MaxMonths)
    <3>1. B + 12 * y >= c.asked
      BY <1>1, <1>2, <2>1
    <3>2. B + 12 * y + 11 <= c.asked + MaxMonths
      BY <1>1, <1>2, <1>4, <2>1
    <3> QED BY <1>1, <1>2, <1>4, <2>1, <3>1, <3>2
  <2>3. ASSUME NEW month \in c.asked .. (c.asked + MaxMonths)
        PROVE  InBand(b, Age(month)) <=> month \in (B + 12 * y) .. (B + 12 * y + 11)
    <3>1. month \in Int
      BY <1>1, <1>4
    <3>2. Age(month) \in Int /\ (Age(month) = y <=> month \in (B + 12 * y) .. (B + 12 * y + 11))
      BY <1>2, <1>3, <2>1, <3>1, MonthsOfAge
    <3>3. InBand(b, Age(month)) <=> Age(month) = y
      BY <3>2, InBandIs DEF y
    <3> QED BY <3>2, <3>3
  <2>4. S = (B + 12 * y) .. (B + 12 * y + 11)
    BY <2>2, <2>3
  <2>5. Cardinality((B + 12 * y) .. (B + 12 * y + 11)) = 12
    <3>1. PICK k \in Int : k = B + 12 * y
      BY <1>2, <2>1
    <3>2. PICK l \in Int : l = k + 11
      BY <3>1
    <3>3. Cardinality(k .. l) = 12
      BY <3>1, <3>2, FS_Interval
    <3> QED BY <3>1, <3>2, <3>3
  <2> QED BY <2>4, <2>5
<1> QED BY <1>5, <1>6, <1>7 DEF StatedAgeHolds, c, Age

-----------------------------------------------------------------------------
(* The student's book.                                                     *)

\* What a book holds.
BookInv == Scores(history) /\ (child # None => Said(child))

\* Every answer, and the age, keeps it so.
LEMMA BookStep == ASSUME BookInv, [BookNext]_book PROVE BookInv'
<1>1. CASE SeedLetter
  <2>1. PICK seed \in Seeds : history' = <<seed>>
    BY <1>1 DEF SeedLetter
  <2>2. seed \in Int /\ seed >= MinScore
    BY DEF Seeds, MinScore
  <2>3. Scores(history')
    BY <2>1, <2>2 DEF Scores
  <2> QED BY <1>1, <2>3 DEF SeedLetter, BookInv, Scores
<1>2. CASE Grade
  <2>1. PICK right \in BOOLEAN : history' = Append(history, NewScore(Last(history), right))
    BY <1>2 DEF Grade
  <2>2. Last(history) \in Int /\ Last(history) >= MinScore
    BY LenProperties, ElementOfSeq DEF BookInv, Scores, Last
  <2>3. PICK x : x = NewScore(Last(history), right)
    OBVIOUS
  <2>4. x \in Int /\ x >= MinScore
    BY <2>2, <2>3, NewScoreIs
  <2>5. Scores(Append(history, x))
    BY <2>4, NextAnswer DEF BookInv
  <2> QED BY <1>2, <2>1, <2>3, <2>5 DEF Grade, BookInv, Scores
<1>3. CASE SayAge
  <2>1. PICK created \in 240 .. 251, later \in 0 .. 5, age \in 5 .. 12 :
          child' = [created |-> created, asked |-> created + later, age |-> age]
    BY <1>3 DEF SayAge
  <2>2. Said(child')
    BY <2>1 DEF Said, Children
  <2> QED BY <1>3, <2>2 DEF SayAge, BookInv, Scores, Said
<1>4. CASE Attempt \/ UNCHANGED book
  BY <1>4 DEF Attempt, book, BookInv, Scores, Said
<1> QED BY <1>1, <1>2, <1>3, <1>4 DEF BookNext

\* An empty book is one.
LEMMA BookBegins == BookInit => BookInv
BY DEF BookInit, BookInv, Scores, MinScore

\* A letter stays within reach: a right answer never loses it, and from wherever it
\* fell to, as many right answers as from the floor bring it back above its seed
\* (getLetterBins, calculateNewScore, MIN_SCORE).
THEOREM LettersStayInReach == BookSpec => []LettersWithinReach
<1>1. BookInv => LettersWithinReach
  BY WithinReach DEF BookInv
<1> QED BY <1>1, BookBegins, BookStep, PTL DEF BookSpec

\* Whoever says an age in the year the account was made has it then, and sits each
\* test that is still to come for twelve months and two never at once (assumedBirth,
\* ageOn, inBand), if one looks ahead to the end of the last.
THEOREM AgesAsStated ==
  ASSUME MaxMonths >= 77 PROVE BookSpec => []StatedAgeHolds
<1>1. BookInv => StatedAgeHolds
  BY AgesHold DEF BookInv
<1> QED BY <1>1, BookBegins, BookStep, PTL DEF BookSpec

-----------------------------------------------------------------------------
(* The areas.  Every student is at one school, on the block itself or       *)
(* nowhere, so what is counted of the block is the sum of what is counted   *)
(* of its schools and of those on the block itself.                         *)

\* The sum over the schools as one of a function.
SchoolSum(rows) == SumOf([a \in Schools |-> rows[a].scored], Schools)

SchoolsAdd(iter, rows) ==
  iter = [s \in SUBSET Schools |->
            IF s = {} THEN 0 ELSE rows[AnyOf(s)].scored + iter[s \ {AnyOf(s)}]]

\* What the schools' rows count together is a fold...
LEMMA TotalIsFold ==
  ASSUME NEW rows
  PROVE  SchoolsTotal(rows) = (CHOOSE iter : SchoolsAdd(iter, rows))[Schools]
BY Zenon DEF SchoolsTotal, MapThenSumSet, MapThenFoldSet, SchoolsAdd, AnyOf

\* ...and so the sum over the schools.
LEMMA TotalIsSum ==
  ASSUME NEW rows, \A a \in Schools : rows[a].scored \in Int
  PROVE  SchoolsTotal(rows) = SchoolSum(rows)
<1> DEFINE f == [a \in Schools |-> rows[a].scored]
<1>1. \A a \in Schools : f[a] = rows[a].scored /\ f[a] \in Int
  OBVIOUS
<1>2. ASSUME NEW iter PROVE Adds(iter, f, Schools) <=> SchoolsAdd(iter, rows)
  <2> DEFINE Here(s) == IF s = {} THEN 0 ELSE f[AnyOf(s)] + iter[s \ {AnyOf(s)}]
             There(s) == IF s = {} THEN 0 ELSE rows[AnyOf(s)].scored + iter[s \ {AnyOf(s)}]
  <2>1. \A s \in SUBSET Schools : Here(s) = There(s)
    <3> HIDE DEF f
    <3> QED BY <1>1, AnyOfIsOne
  <2>2. [s \in SUBSET Schools |-> Here(s)] = [s \in SUBSET Schools |-> There(s)]
    <3> HIDE DEF Here, There
    <3> QED BY <2>1
  <2> QED BY <2>2 DEF Adds, SchoolsAdd
<1> HIDE DEF f
<1>3. PICK iter \in [SUBSET Schools -> Int] : Adds(iter, f, Schools)
  BY <1>1, TablesAssumption, AddsExist
<1>4. PICK h : h = CHOOSE k : SchoolsAdd(k, rows)
  OBVIOUS
<1>5. SchoolsAdd(h, rows)
  BY <1>2, <1>3, <1>4, Zenon
<1>6. h[Schools] = SumOf(f, Schools)
  BY <1>1, <1>2, <1>5, TablesAssumption, SumIs
<1> QED BY <1>4, <1>6, TotalIsFold DEF SchoolSum, f

\* Students by school, for any of them and any places.
LEMMA BySchool ==
  ASSUME NEW X \in SUBSET Students, NEW at, NEW f,
         \A a \in Schools : f[a] = Cardinality({s \in X : at[s] = a})
  PROVE  Cardinality({s \in X : at[s] \in Schools}) = SumOf(f, Schools)
<1> DEFINE In(T) == {s \in X : at[s] \in T}
           P == {T \in SUBSET Schools : Cardinality(In(T)) = SumOf(f, T)}
<1>1. \A T : IsFiniteSet(In(T)) /\ Cardinality(In(T)) \in Nat
  <2>1. \A T : In(T) \subseteq Students
    OBVIOUS
  <2> HIDE DEF In
  <2> QED BY <2>1, TablesAssumption, FS_Subset, FS_CardinalityType
<1>2. \A a \in Schools : f[a] = Cardinality(In({a})) /\ f[a] \in Int
  <2>1. \A a \in Schools : {s \in X : at[s] = a} = In({a})
    OBVIOUS
  <2> HIDE DEF In
  <2> QED BY <1>1, <2>1
<1>3. {} \in P
  <2>1. In({}) = {}
    OBVIOUS
  <2> HIDE DEF In
  <2> QED BY <2>1, SumOfNone, FS_EmptySet
<1>4. ASSUME NEW T \in SUBSET Schools, T \in P, NEW a \in Schools \ T PROVE T \cup {a} \in P
  <2>1. In(T \cup {a}) = In(T) \cup In({a}) /\ In(T) \cap In({a}) = {}
    OBVIOUS
  <2>2. (T \cup {a}) \ {a} = T /\ T \cup {a} \in SUBSET Schools
    OBVIOUS
  <2> HIDE DEF In
  <2>3. Cardinality(In(T \cup {a})) = Cardinality(In(T)) + Cardinality(In({a}))
    <3>1. Cardinality(In(T) \cup In({a}))
            = Cardinality(In(T)) + Cardinality(In({a})) - Cardinality(In(T) \cap In({a}))
      BY <1>1, FS_Union
    <3>2. Cardinality(In(T) \cap In({a})) = 0
      BY <2>1, FS_EmptySet
    <3>3. Cardinality(In(T \cup {a})) = Cardinality(In(T)) + Cardinality(In({a})) - 0
      BY <2>1, <3>1, <3>2
    <3> QED BY <1>1, <3>3
  <2>4. IsFiniteSet(T \cup {a})
    BY <2>2, TablesAssumption, FS_Subset
  <2>5. SumOf(f, T \cup {a}) = f[a] + SumOf(f, T)
    <3>1. PICK U : U = T \cup {a}
      OBVIOUS
    <3>2. IsFiniteSet(U) /\ a \in U /\ U \ {a} = T /\ \A x \in U : f[x] \in Int
      BY <1>2, <2>2, <2>4, <3>1
    <3>3. SumOf(f, U) = f[a] + SumOf(f, U \ {a})
      BY <3>2, SumOfMore
    <3> QED BY <3>1, <3>2, <3>3
  <2>6. Cardinality(In(T)) = SumOf(f, T)
    BY <1>4
  <2> QED BY <1>1, <1>2, <2>2, <2>3, <2>5, <2>6
<1>5. Schools \in P
  <2> HIDE DEF P
  <2> QED BY <1>3, <1>4, TablesAssumption, GrowingSets
<1> QED BY <1>5

\* What is counted of the area is the sum of its schools' and n more.
Sums(f, n) == n \in Nat /\ (\A a \in Areas : f[a] \in Nat) /\ f[Area] = SumOf(f, Schools) + n

ScoredIn(rows) == [a \in Areas |-> rows[a].scored]

\* What is counted of the students of a set, area by area.
CountIn(X) == [a \in Areas |-> Cardinality({s \in X : a \in Path(school[s])})]

\* However many of the students are counted, the area's count is the sum of its
\* schools' and of those who are on the area itself.
LEMMA CountsSum ==
  ASSUME school \in [Students -> Places], NEW X \in SUBSET Students
  PROVE  Sums(CountIn(X), Cardinality({s \in X : school[s] = Area}))
<1> DEFINE f == CountIn(X)
           There == {s \in X : school[s] \in Schools}
           Here == {s \in X : school[s] = Area}
<1>1. \A s \in X : /\ Area \in Path(school[s]) <=> school[s] \in Schools \/ school[s] = Area
                   /\ \A a \in Schools : a \in Path(school[s]) <=> school[s] = a
  BY AreasDiffer DEF Path, Places
<1>2. \A a \in Areas : f[a] = Cardinality({s \in X : a \in Path(school[s])}) /\ f[a] \in Nat
  <2>1. \A a : {s \in X : a \in Path(school[s])} \subseteq Students
    OBVIOUS
  <2>2. \A a : Cardinality({s \in X : a \in Path(school[s])}) \in Nat
    BY <2>1, TablesAssumption, FS_Subset, FS_CardinalityType
  <2> QED BY <2>2 DEF CountIn
<1>3. /\ {s \in X : Area \in Path(school[s])} = There \cup Here
      /\ There \cap Here = {}
  BY <1>1, AreasDiffer
<1>4. ASSUME NEW a \in Schools
      PROVE  f[a] = Cardinality({s \in X : school[s] = a})
  <2>1. {s \in X : a \in Path(school[s])} = {s \in X : school[s] = a}
    BY <1>1
  <2> QED BY <1>2, <2>1 DEF Areas
<1>5. IsFiniteSet(There) /\ IsFiniteSet(Here) /\ Cardinality(Here) \in Nat /\ Cardinality(There) \in Nat
  <2>1. There \subseteq Students /\ Here \subseteq Students
    OBVIOUS
  <2> HIDE DEF There, Here
  <2> QED BY <2>1, TablesAssumption, FS_Subset, FS_CardinalityType
<1> HIDE DEF f
<1>6. Cardinality(There) = SumOf(f, Schools)
  <2>1. PICK at, g : at = school /\ g = f
    OBVIOUS
  <2>2. \A a \in Schools : g[a] = Cardinality({s \in X : at[s] = a})
    BY <1>4, <2>1
  <2>3. Cardinality({s \in X : at[s] \in Schools}) = SumOf(g, Schools)
    BY <2>2, BySchool
  <2> QED BY <2>1, <2>3
<1>7. f[Area] = Cardinality(There) + Cardinality(Here)
  <2>1. f[Area] = Cardinality({s \in X : Area \in Path(school[s])})
    BY <1>2 DEF Areas
  <2> HIDE DEF There, Here
  <2>2. Cardinality(There \cup Here)
          = Cardinality(There) + Cardinality(Here) - Cardinality(There \cap Here)
    BY <1>5, FS_Union
  <2>3. Cardinality(There \cap Here) = 0
    BY <1>3, FS_EmptySet
  <2>4. f[Area] = Cardinality(There) + Cardinality(Here) - 0
    BY <1>3, <2>1, <2>2, <2>3
  <2> QED BY <1>5, <2>4
<1>8. f[Area] = SumOf(f, Schools) + Cardinality(Here)
  BY <1>6, <1>7
<1> QED BY <1>2, <1>5, <1>8 DEF Sums, f

\* A row that says who is there, and counts no one who is not.
FitsAt(row, a) == row.cohort = CohortAt(a) /\ row.scored \in Nat /\ row.scored <= row.cohort

Fits(rows) == \A a \in Areas : FitsAt(rows[a], a)

\* Rows some of which are not written.
Fitting(rows) == \A a \in Areas : rows[a] = Zero \/ FitsAt(rows[a], a)

AtWork == {"candidates", "students", "batch", "cohort", "write"}

\* The date whose rows the next roll-up may meet.
CurrentDate == IF run.at \in AtWork THEN run.date ELSE day

\* Unless a student changed school since, the rows of the date fit the schools: who
\* was not counted then is not counted now.
RowsFit == ~geo.left /\ ~moved /\ geo.date = CurrentDate => Fitting(geo.rows)

ReadFits ==
  /\ run.at = "cohort" => /\ Sums(run.scored, run.onBlock)
                          /\ ~moved => \A a \in Areas : run.scored[a] <= CohortAt(a)
  /\ run.at = "write" => /\ Sums(ScoredIn(run.vectors), run.onBlock)
                         /\ ~moved => Fits(run.vectors)

\* What a run has no more to write of the areas, it has written.
Written ==
  run.at = "write" =>
    \A a \in Areas \ run.todo : run.vectors[a] # Zero =>
      geo.date = run.date /\ geo.rows[a] = run.vectors[a]

DatesOK ==
  /\ day \in Nat /\ school \in [Students -> Places] /\ moved \in BOOLEAN
  /\ run.at \in AtWork => run.date \in Nat /\ run.date <= day
  /\ geo.date \in Nat /\ geo.date <= CurrentDate

AddsHere == ~geo.left /\ ~geo.torn => Sums(ScoredIn(geo.rows), geo.onBlock)

AreaInv == DatesOK /\ RowsFit /\ ReadFits /\ Written /\ AddsHere

\* Before the first night nothing is counted.
LEMMA InitArea == Init => AreaInv
<1> SUFFICES ASSUME Init PROVE AreaInv
  OBVIOUS
<1>1. school \in [Students -> Places]
  BY AreasDiffer DEF Init, Places
<1>2. moved \in BOOLEAN /\ day = 0 /\ geo.date = 0 /\ geo.rows = NoRows /\ geo.onBlock = 0
  BY DEF Init
<1>3. run.at = "idle"
  BY DEF Init, Idle
<1>4. Sums(ScoredIn(NoRows), 0)
  <2>1. PICK f : f = ScoredIn(NoRows)
    OBVIOUS
  <2>2. \A a \in Areas : f[a] = 0
    BY <2>1 DEF ScoredIn, NoRows, Zero
  <2>3. {} \in SUBSET Students /\ Cardinality({}) = 0
    BY FS_EmptySet
  <2>4. \A a \in Schools : f[a] = Cardinality({s \in {} : school[s] = a})
    <3>1. \A a : {s \in {} : school[s] = a} = {}
      OBVIOUS
    <3> QED BY <2>2, <2>3, <3>1 DEF Areas
  <2>5. Cardinality({s \in {} : school[s] \in Schools}) = SumOf(f, Schools)
    <3>1. PICK X \in SUBSET Students : X = {}
      OBVIOUS
    <3>2. PICK at : at = school
      OBVIOUS
    <3>3. Cardinality({s \in X : at[s] \in Schools}) = SumOf(f, Schools)
      BY <2>4, <3>1, <3>2, BySchool
    <3> QED BY <3>1, <3>2, <3>3
  <2>6. {s \in {} : school[s] \in Schools} = {}
    OBVIOUS
  <2>7. SumOf(f, Schools) = 0
    BY <2>3, <2>5, <2>6
  <2> QED BY <2>1, <2>2, <2>7 DEF Sums, Areas
<1>5. Fitting(NoRows)
  BY DEF Fitting, NoRows
<1> QED BY <1>1, <1>2, <1>3, <1>4, <1>5
      DEF AreaInv, DatesOK, RowsFit, ReadFits, Written, AddsHere, AtWork, CurrentDate

\* What says who is at a school goes by the schools.
LEMMA SameSchools ==
  ASSUME UNCHANGED school
  PROVE  /\ \A a : CohortAt(a)' = CohortAt(a)
         /\ \A row, a : FitsAt(row, a) <=> FitsAt(row, a)'
         /\ \A rows : Fits(rows) <=> Fits(rows)'
         /\ \A rows : Fitting(rows) <=> Fitting(rows)'
BY DEF CohortAt, FitsAt, Fits, Fitting

\* A step that leaves the rows as they are.
LEMMA SumsStay == ASSUME AddsHere, UNCHANGED geo PROVE AddsHere'
BY DEF AddsHere, ScoredIn, Sums

\* A step that leaves the schools and the rows, and whose run is of the same date.
LEMMA RowsStay ==
  ASSUME AreaInv, DatesOK', ReadFits', Written', UNCHANGED <<school, geo>>, moved' = moved,
         CurrentDate' = CurrentDate
  PROVE  AreaInv'
<1>1. PICK rows : rows = geo.rows
  OBVIOUS
<1>2. Fitting(rows) <=> Fitting(rows)'
  BY SameSchools
<1>3. RowsFit'
  <2> SUFFICES ASSUME ~geo.left, ~moved, geo.date = CurrentDate
               PROVE  Fitting(rows)'
    BY <1>1 DEF RowsFit, Fitting
  <2> QED BY <1>1, <1>2 DEF AreaInv, RowsFit
<1> QED BY <1>3, SumsStay DEF AreaInv

\* A step that says nothing of the areas, at work or not.
LEMMA AreaStays ==
  ASSUME AreaInv, UNCHANGED <<school, geo, moved, day>>,
         \/ run' = run
         \/ run'.at \in {"candidates", "students", "batch"} /\ run.at \in AtWork /\ run'.date = run.date
         \/ run'.at = "candidates" /\ run'.date = day /\ run.at = "idle"
         \/ run'.at \notin AtWork
  PROVE  AreaInv'
<1>1. DatesOK'
  BY DEF AreaInv, DatesOK, CurrentDate, AtWork
<1>2. CASE run' = run
  <2>1. ReadFits' /\ Written'
    <3>1. PICK vectors : vectors = run.vectors
      OBVIOUS
    <3>2. Fits(vectors) <=> Fits(vectors)'
      BY SameSchools
    <3>3. Fits(run.vectors) => Fits(run.vectors)'
      BY <1>2, <3>1, <3>2 DEF Fits
    <3>4. \A a : CohortAt(a)' = CohortAt(a)
      BY SameSchools
    <3>5. ReadFits'
      BY <1>2, <3>3, <3>4 DEF AreaInv, ReadFits, Sums, ScoredIn
    <3>6. Written'
      BY <1>2 DEF AreaInv, Written
    <3> QED BY <3>5, <3>6
  <2>2. CurrentDate' = CurrentDate
    BY <1>2 DEF CurrentDate
  <2> QED BY <1>1, <2>1, <2>2, RowsStay
<1>3. CASE run'.at \in {"candidates", "students", "batch"} /\ CurrentDate' = CurrentDate
  <2>1. ReadFits' /\ Written'
    BY <1>3 DEF ReadFits, Written
  <2> QED BY <1>1, <1>3, <2>1, RowsStay
<1>4. CASE run'.at \notin AtWork
  <2>1. ReadFits' /\ Written'
    BY <1>4 DEF ReadFits, Written, AtWork
  <2>2. CASE CurrentDate' = CurrentDate
    BY <1>1, <2>1, <2>2, RowsStay
  <2>3. CASE CurrentDate' # CurrentDate
    <3>1. geo.date # day
      BY <1>4, <2>3 DEF AreaInv, DatesOK, CurrentDate
    <3>2. RowsFit'
      BY <1>4, <3>1 DEF RowsFit, CurrentDate
    <3> QED BY <1>1, <2>1, <3>2, SumsStay DEF AreaInv
  <2> QED BY <2>2, <2>3
<1> QED BY <1>2, <1>3, <1>4 DEF CurrentDate, AtWork

\* A new day: the rows of the day before are no longer those of the date.
LEMMA NewDay == ASSUME AreaInv, Night PROVE AreaInv'
<1>1. day' = day + 1 /\ UNCHANGED <<school, geo, moved, run>>
  BY DEF Night
<1>2. DatesOK'
  BY <1>1 DEF AreaInv, DatesOK, CurrentDate, AtWork
<1>3. ReadFits' /\ Written'
  <2>1. PICK vectors : vectors = run.vectors
    OBVIOUS
  <2>2. Fits(vectors) <=> Fits(vectors)'
    BY <1>1, SameSchools
  <2>3. Fits(run.vectors) => Fits(run.vectors)'
    BY <1>1, <2>1, <2>2 DEF Fits
  <2>4. \A a : CohortAt(a)' = CohortAt(a)
    BY <1>1, SameSchools
  <2>5. ReadFits'
    BY <1>1, <2>3, <2>4 DEF AreaInv, ReadFits, Sums, ScoredIn
  <2>6. Written'
    BY <1>1 DEF AreaInv, Written
  <2> QED BY <2>5, <2>6
<1>4. CASE run.at \in AtWork
  <2>1. CurrentDate' = CurrentDate
    BY <1>1, <1>4 DEF CurrentDate
  <2> QED BY <1>1, <1>2, <1>3, <2>1, RowsStay
<1>5. CASE run.at \notin AtWork
  <2>1. geo.date # CurrentDate'
    BY <1>1, <1>5 DEF AreaInv, DatesOK, CurrentDate
  <2>2. RowsFit'
    BY <1>1, <2>1 DEF RowsFit
  <2> QED BY <1>1, <1>2, <1>3, <2>2, SumsStay DEF AreaInv
<1> QED BY <1>4, <1>5

\* A student changes school: nothing read before fits any more.
LEMMA MoveStep == ASSUME AreaInv, NEW s \in Students, Move(s) PROVE AreaInv'
<1>1. moved' = TRUE /\ UNCHANGED <<day, geo, run>> /\ school' \in [Students -> Places]
  BY DEF Move, AreaInv, DatesOK
<1>2. DatesOK' /\ CurrentDate' = CurrentDate
  BY <1>1 DEF AreaInv, DatesOK, CurrentDate
<1>3. RowsFit' /\ ReadFits' /\ Written'
  BY <1>1 DEF AreaInv, RowsFit, ReadFits, Written, Sums, ScoredIn
<1> QED BY <1>1, <1>2, <1>3, SumsStay DEF AreaInv

\* The newest rows are read: who is counted of an area is there.
LEMMA ReadLatestAdds == ASSUME AreaInv, ReadLatest PROVE AreaInv'
<1>1. /\ run.at = "students" /\ UNCHANGED <<day, school, geo>>
      /\ moved' = (moved /\ geo.date = run.date)
  BY DEF ReadLatest
<1>2. PICK k, date, asked, scored, onBlock, veiled, kept :
        /\ run' = [at |-> "cohort", kind |-> k, date |-> date, asked |-> asked,
                   scored |-> scored, onBlock |-> onBlock, veiled |-> veiled, kept |-> kept]
        /\ date = run.date /\ onBlock = OnTheBlock /\ scored = [a \in Areas |-> ScoredAt(a)]
  BY DEF ReadLatest
<1>3. run'.at = "cohort" /\ run'.date = run.date /\ run'.scored = scored
      /\ run'.onBlock = onBlock
  BY <1>2
<1>4. DatesOK' /\ CurrentDate' = CurrentDate
  <2>1. moved' \in BOOLEAN
    <3>1. (moved /\ geo.date = run.date) \in BOOLEAN
      OBVIOUS
    <3> QED BY <1>1, <3>1
  <2> QED BY <1>1, <1>3, <2>1 DEF AreaInv, DatesOK, CurrentDate, AtWork
<1> DEFINE X == Scored
<1>5. scored = CountIn(X)
  <2>1. ASSUME NEW a \in Areas PROVE ScoredAt(a) = Cardinality({s \in X : a \in Path(school[s])})
    BY DEF ScoredAt
  <2> HIDE DEF X
  <2> QED BY <1>2, <2>1 DEF CountIn
<1>6. Sums(scored, onBlock)
  <2>1. PICK Y : Y = X
    OBVIOUS
  <2>2. Y \in SUBSET Students
    BY <2>1 DEF Scored
  <2>3. Sums(CountIn(Y), Cardinality({s \in Y : school[s] = Area}))
    BY <2>2, CountsSum DEF AreaInv, DatesOK
  <2>4. onBlock = Cardinality({s \in Y : school[s] = Area})
    BY <1>2, <2>1 DEF OnTheBlock
  <2> QED BY <1>5, <2>1, <2>3, <2>4
<1>7. \A a \in Areas : scored[a] <= CohortAt(a)
  <2> TAKE a \in Areas
  <2>1. {s \in X : a \in Path(school[s])} \subseteq {s \in Students : a \in Path(school[s])}
    BY DEF Scored
  <2>2. IsFiniteSet({s \in Students : a \in Path(school[s])})
    BY TablesAssumption, FS_Subset
  <2>3. scored[a] = Cardinality({s \in X : a \in Path(school[s])})
    BY <1>5 DEF CountIn
  <2> QED BY <2>1, <2>2, <2>3, FS_Subset DEF CohortAt
<1>8. ReadFits' /\ Written'
  BY <1>1, <1>3, <1>6, <1>7, SameSchools DEF ReadFits, Written, Sums
<1>9. CASE geo.date = run.date
  <2>1. moved \in BOOLEAN
    BY DEF AreaInv, DatesOK
  <2>2. moved' = moved
    BY <1>1, <1>9, <2>1, Zenon
  <2> QED BY <1>1, <1>4, <1>8, <2>2, RowsStay
<1>10. CASE geo.date # run.date
  <2>1. geo.date # CurrentDate
    BY <1>1, <1>10 DEF CurrentDate, AtWork
  <2>2. RowsFit'
    BY <1>1, <1>4, <2>1 DEF RowsFit
  <2> QED BY <1>1, <1>4, <1>8, <2>2, SumsStay DEF AreaInv
<1> QED BY <1>9, <1>10

\* Who is at the schools is read: a row is written of each area with anyone...
LEMMA ReadCohortFits == ASSUME AreaInv, ReadCohort PROVE AreaInv'
<1>1. run.at = "cohort" /\ UNCHANGED <<day, school, geo, moved>>
  BY DEF ReadCohort
<1>2. PICK vectors, todo :
        /\ run' = [at |-> "write", kind |-> run.kind, date |-> run.date, asked |-> run.asked,
                   kept |-> run.kept, veiled |-> run.veiled, onBlock |-> run.onBlock,
                   vectors |-> vectors, todo |-> todo]
        /\ vectors = [a \in Areas |-> [scored |-> run.scored[a], cohort |-> CohortAt(a)]]
        /\ todo = {a \in Areas : vectors[a] # Zero}
  <2> DEFINE V == [a \in Areas |-> [scored |-> run.scored[a], cohort |-> CohortAt(a)]]
  <2>1. run' = [at |-> "write", kind |-> run.kind, date |-> run.date, asked |-> run.asked,
                kept |-> run.kept, veiled |-> run.veiled, onBlock |-> run.onBlock,
                vectors |-> V, todo |-> {a \in Areas : V[a] # Zero}]
    BY Zenon DEF ReadCohort
  <2>2. PICK vectors : vectors = V
    OBVIOUS
  <2> HIDE DEF V
  <2>3. PICK todo : todo = {a \in Areas : vectors[a] # Zero}
    OBVIOUS
  <2>4. run' = [at |-> "write", kind |-> run.kind, date |-> run.date, asked |-> run.asked,
                kept |-> run.kept, veiled |-> run.veiled, onBlock |-> run.onBlock,
                vectors |-> vectors, todo |-> todo]
    BY <2>1, <2>2, <2>3
  <2>5. vectors = [a \in Areas |-> [scored |-> run.scored[a], cohort |-> CohortAt(a)]]
    BY <2>2 DEF V
  <2> QED BY <2>3, <2>4, <2>5, Zenon
<1>3. /\ run'.at = "write" /\ run'.date = run.date /\ run'.vectors = vectors
      /\ run'.onBlock = run.onBlock /\ run'.todo = todo
  BY <1>2
<1>4. DatesOK' /\ CurrentDate' = CurrentDate
  BY <1>1, <1>3 DEF AreaInv, DatesOK, CurrentDate, AtWork
<1>5. \A a \in Areas : vectors[a].scored = run.scored[a] /\ vectors[a].cohort = CohortAt(a)
  BY <1>2
<1>6. Sums(ScoredIn(vectors), run.onBlock)
  <2>1. PICK f, g : f = run.scored /\ g = ScoredIn(vectors)
    OBVIOUS
  <2>2. Sums(f, run.onBlock) /\ \A a \in Areas : g[a] = f[a]
    BY <1>1, <1>5, <2>1 DEF AreaInv, ReadFits, ScoredIn
  <2>3. SumOf(g, Schools) = SumOf(f, Schools)
    BY <2>2, TablesAssumption, SumOfSame DEF Sums, Areas
  <2>4. Sums(g, run.onBlock)
    BY <2>2, <2>3 DEF Sums, Areas
  <2> QED BY <2>1, <2>4
<1>7. ~moved => Fits(vectors)
  <2>1. \A a \in Areas : run.scored[a] \in Nat
    BY <1>1 DEF AreaInv, ReadFits, Sums
  <2> QED BY <1>1, <1>5, <2>1 DEF AreaInv, ReadFits, Fits, FitsAt
<1>8. ReadFits'
  <2>1. Fits(vectors) <=> Fits(vectors)'
    BY <1>1, SameSchools
  <2> QED BY <1>1, <1>3, <1>6, <1>7, <2>1 DEF ReadFits, Sums, ScoredIn, Fits
<1>9. Written'
  BY <1>2, <1>3 DEF Written
<1> QED BY <1>1, <1>4, <1>8, <1>9, RowsStay

\* ...and the rows are written, a chunk at a time.  With the last chunk they are
\* those of the run: a row that stays as it was is of an area without students,
\* and so was it before.
LEMMA WriteGeoAdds == ASSUME AreaInv, WriteGeo PROVE AreaInv'
<1> DEFINE Old == IF geo.date = run.date THEN geo ELSE [rows |-> NoRows, left |-> FALSE]
<1>1. run.at = "write" /\ UNCHANGED <<day, school, moved>>
  BY DEF WriteGeo
<1>a. PICK old, v : old = Old /\ v = run.vectors
  OBVIOUS
<1>b. PICK chunk, rows :
        /\ chunk \subseteq run.todo
        /\ rows = [a \in Areas |-> IF a \in chunk THEN v[a] ELSE old.rows[a]]
        /\ geo' = [date |-> run.date, left |-> old.left \/ moved, torn |-> chunk # run.todo,
                   onBlock |-> run.onBlock, rows |-> rows]
        /\ run' = [run EXCEPT !.todo = @ \ chunk]
  <2>1. PICK chunk \in SUBSET run.todo :
          /\ geo' = [date |-> run.date, left |-> Old.left \/ moved, torn |-> chunk # run.todo,
                     onBlock |-> run.onBlock,
                     rows |-> [a \in Areas |-> IF a \in chunk THEN run.vectors[a] ELSE Old.rows[a]]]
          /\ run' = [run EXCEPT !.todo = @ \ chunk]
    BY Zenon DEF WriteGeo
  <2> HIDE DEF Old
  <2> QED BY <1>a, <2>1
<1>2. /\ geo'.date = run.date /\ geo'.rows = rows /\ geo'.onBlock = run.onBlock
      /\ geo'.left <=> old.left \/ moved
      /\ geo'.torn <=> chunk # run.todo
  BY <1>b
<1>3. /\ run'.at = "write" /\ run'.date = run.date /\ run'.vectors = v
      /\ run'.onBlock = run.onBlock
  BY <1>1, <1>a, <1>b
<1>c. \A a \in Areas \ run'.todo : a \in chunk \/ a \notin run.todo
  BY <1>b
<1>4. DatesOK' /\ CurrentDate' = run.date
  BY <1>1, <1>2, <1>3 DEF AreaInv, DatesOK, CurrentDate, AtWork
<1>5. Sums(ScoredIn(v), run.onBlock) /\ (~moved => Fits(v))
  BY <1>1, <1>a DEF AreaInv, ReadFits
<1>6. ReadFits'
  <2>1. Fits(v) <=> Fits(v)'
    BY <1>1, SameSchools
  <2> QED BY <1>1, <1>3, <1>5, <2>1 DEF ReadFits, Sums, ScoredIn, Fits
<1>7. \A a \in Areas : rows[a] = IF a \in chunk THEN v[a] ELSE old.rows[a]
  BY <1>b
<1>8. ASSUME NEW a \in Areas, a \notin run.todo, v[a] # Zero PROVE rows[a] = v[a]
  <2>1. geo.date = run.date /\ geo.rows[a] = v[a]
    BY <1>1, <1>8, <1>a DEF AreaInv, Written
  <2> QED BY <1>7, <1>8, <1>a, <1>b, <2>1
<1>9. Written'
  <2> SUFFICES ASSUME NEW a \in Areas \ run'.todo, v[a] # Zero
               PROVE  geo'.date = run'.date /\ geo'.rows[a] = v[a]
    BY <1>3 DEF Written
  <2> QED BY <1>2, <1>3, <1>7, <1>8, <1>c
<1>10. ~old.left /\ ~moved => Fitting(old.rows)
  <2>1. CASE geo.date = run.date
    BY <1>1, <1>a, <2>1 DEF AreaInv, RowsFit, CurrentDate, AtWork
  <2>2. CASE geo.date # run.date
    BY <1>a, <2>2 DEF Fitting, NoRows
  <2> QED BY <2>1, <2>2
<1>11. RowsFit'
  <2>1. ~old.left /\ ~moved => Fitting(rows)
    BY <1>5, <1>7, <1>10 DEF Fitting, Fits
  <2>2. Fitting(rows) <=> Fitting(rows)'
    BY <1>1, SameSchools
  <2> QED BY <1>1, <1>2, <2>1, <2>2 DEF RowsFit, Fitting
<1>12. AddsHere'
  <2> SUFFICES ASSUME ~geo'.left, ~geo'.torn PROVE Sums(ScoredIn(rows), run.onBlock)
    BY <1>2 DEF AddsHere, Sums, ScoredIn
  <2>1. ~old.left /\ ~moved /\ chunk = run.todo
    BY <1>2
  <2>2. ASSUME NEW a \in Areas PROVE rows[a].scored = v[a].scored
    <3>1. CASE a \in run.todo \/ v[a] # Zero
      BY <1>7, <1>8, <2>1, <3>1
    <3>2. CASE a \notin run.todo /\ v[a] = Zero
      <4>1. v[a].cohort = 0 /\ v[a].scored = 0 /\ CohortAt(a) = 0
        BY <1>5, <2>1, <3>2 DEF Zero, Fits, FitsAt
      <4>2. rows[a] = old.rows[a] /\ (old.rows[a] = Zero \/ FitsAt(old.rows[a], a))
        BY <1>7, <1>10, <2>1, <3>2 DEF Fitting
      <4>3. rows[a].scored = 0
        BY <4>1, <4>2 DEF Zero, FitsAt
      <4> QED BY <4>1, <4>3
    <3> QED BY <3>1, <3>2
  <2>3. PICK f, g : f = ScoredIn(v) /\ g = ScoredIn(rows)
    OBVIOUS
  <2>4. Sums(f, run.onBlock) /\ \A a \in Areas : g[a] = f[a]
    BY <1>5, <2>2, <2>3 DEF ScoredIn
  <2>5. SumOf(g, Schools) = SumOf(f, Schools)
    BY <2>4, TablesAssumption, SumOfSame DEF Sums, Areas
  <2>6. Sums(g, run.onBlock)
    BY <2>4, <2>5 DEF Sums, Areas
  <2> QED BY <2>3, <2>6
<1> QED BY <1>4, <1>6, <1>9, <1>11, <1>12 DEF AreaInv

\* Every step keeps it.
LEMMA AreaStep == AreaInv /\ [Next]_vars => AreaInv'
<1> SUFFICES ASSUME AreaInv, [Next]_vars PROVE AreaInv'
  OBVIOUS
<1>1. ASSUME NEW s \in Students, Answer(s) PROVE AreaInv'
  BY <1>1, AreaStays DEF Answer
<1>2. ASSUME NEW s \in Students, Move(s) PROVE AreaInv'
  BY <1>2, MoveStep
<1>3. CASE Night
  BY <1>3, NewDay
<1>4. CASE SixHours
  BY <1>4, AreaStays DEF SixHours
<1>5. ASSUME NEW full \in BOOLEAN, Manual(full) PROVE AreaInv'
  BY <1>5, AreaStays DEF Manual
<1>6. CASE Worker
  <2>1. ASSUME NEW job \in jobs, Take(job) PROVE AreaInv'
    <3>1. UNCHANGED <<school, geo, moved, day>> /\ run.at = "idle"
      BY <2>1 DEF Take
    <3>2. \/ run'.at \notin AtWork
          \/ run'.at = "candidates" /\ run'.date = day
      BY <2>1 DEF Take, Idle, AtWork
    <3> QED BY <3>1, <3>2, AreaStays
  <2>2. CASE SelectCandidates
    <3>1. run'.at = "students" /\ run'.date = run.date /\ run.at = "candidates"
          /\ UNCHANGED <<school, geo, moved, day>>
      BY <2>2 DEF SelectCandidates
    <3> QED BY <3>1, AreaStays DEF AtWork
  <2>3. CASE ReadBatch
    <3>1. run'.at = "batch" /\ run'.date = run.date /\ run.at = "students"
          /\ UNCHANGED <<school, geo, moved, day>>
      BY <2>3 DEF ReadBatch
    <3> QED BY <3>1, AreaStays DEF AtWork
  <2>4. CASE UpsertBatch
    <3>1. run'.at = "students" /\ run'.date = run.date /\ run.at = "batch"
          /\ UNCHANGED <<school, geo, moved, day>>
      BY <2>4 DEF UpsertBatch
    <3> QED BY <3>1, AreaStays DEF AtWork
  <2>5. CASE Finish
    BY <2>5, AreaStays DEF Finish, Idle, AtWork
  <2> QED BY <1>6, <2>1, <2>2, <2>3, <2>4, <2>5, ReadLatestAdds, ReadCohortFits, WriteGeoAdds
          DEF Worker
<1>7. CASE Fail
  BY <1>7, AreaStays DEF Fail, Idle, AtWork
<1>8. CASE Crash
  BY <1>8, AreaStays DEF Crash, Idle, AtWork
<1>9. ASSUME NEW d \in 1 .. day, BackfillBatch(d) PROVE AreaInv'
  BY <1>9, AreaStays DEF BackfillBatch
<1>10. CASE UNCHANGED vars
  BY <1>10, AreaStays DEF vars
<1> QED BY <1>1, <1>2, <1>3, <1>4, <1>5, <1>6, <1>7, <1>8, <1>9, <1>10 DEF Next

\* Once a run has written all its rows, an area's row is the sum of its schools' rows
\* and of the students on the area itself, for any students, schools and chunks, runs
\* that fail, crash or stop between two chunks, are made by hand or last past a night,
\* unless a student left a school since the rows of the date were first written.
\* (aggregateGeo, upsertGeoRows)
THEOREM AreasAddUp == Spec => []AreaIsTheSum
<1>1. ASSUME AreaInv PROVE AreaIsTheSum
  <2> SUFFICES ASSUME ~geo.left, ~geo.torn
               PROVE  geo.rows[Area].scored = SchoolsTotal(geo.rows) + geo.onBlock
    BY DEF AreaIsTheSum
  <2>1. PICK rows : rows = geo.rows
    OBVIOUS
  <2>2. Sums(ScoredIn(rows), geo.onBlock)
    BY <1>1, <2>1 DEF AreaInv, AddsHere
  <2>3. \A a \in Areas : ScoredIn(rows)[a] = rows[a].scored /\ rows[a].scored \in Nat
    BY <2>2 DEF Sums, ScoredIn
  <2>4. SchoolsTotal(rows) = SchoolSum(rows)
    BY <2>3, TotalIsSum DEF Areas
  <2>5. PICK f, g : f = [a \in Schools |-> rows[a].scored] /\ g = ScoredIn(rows)
    OBVIOUS
  <2>6. \A a \in Schools : g[a] = f[a] /\ f[a] \in Int
    BY <2>3, <2>5 DEF Areas
  <2>7. SumOf(g, Schools) = SumOf(f, Schools)
    BY <2>6, TablesAssumption, SumOfSame
  <2> QED BY <2>1, <2>2, <2>3, <2>4, <2>5, <2>7 DEF Sums, SchoolSum, Areas
<1> QED BY <1>1, InitArea, AreaStep, PTL DEF Spec

-----------------------------------------------------------------------------
(* The tests.  A selection is missing for want of attempts, of types or of  *)
(* attempts of a batch, and a pool that goes on has no fewer of any.        *)

\* Some of the positions of a pool are finitely many, and no more than all.
LEMMA PositionsFinite ==
  ASSUME NEW n \in Nat, NEW S \in SUBSET (1 .. n)
  PROVE  IsFiniteSet(S) /\ Cardinality(S) \in Nat /\ Cardinality(S) <= n
         /\ \A T \in SUBSET S : Cardinality(T) <= Cardinality(S)
<1>1. IsFiniteSet(1 .. n) /\ Cardinality(1 .. n) = n
  BY FS_Interval
<1>2. IsFiniteSet(S) /\ Cardinality(S) <= n
  BY <1>1, FS_Subset
<1> QED BY <1>2, FS_CardinalityType, FS_Subset

\* The most recent of some positions are as many as wanted, or all there are.
LEMMA RecentMany ==
  ASSUME NEW m \in Nat, NEW S \in SUBSET (1 .. m), NEW n \in Nat
  PROVE  /\ Recent(S, n) \in SUBSET S
         /\ Cardinality(Recent(S, n)) = IF Cardinality(S) <= n THEN Cardinality(S) ELSE n
<1> DEFINE After(i) == {j \in S : j > i}
           Many(k) == Cardinality(Recent(S, k)) = IF Cardinality(S) <= k THEN Cardinality(S) ELSE k
           Q == {k \in Nat : Many(k)}
<1>1. \A k : Recent(S, k) = {i \in S : Cardinality(After(i)) < k}
  BY DEF Recent
<1>2. /\ IsFiniteSet(S) /\ Cardinality(S) \in Nat
      /\ \A T \in SUBSET S : /\ IsFiniteSet(T) /\ Cardinality(T) \in Nat
                             /\ \A U \in SUBSET T : Cardinality(U) <= Cardinality(T)
  BY PositionsFinite
<1>3. \A i : After(i) \in SUBSET S
  OBVIOUS
<1>4. \A k : Recent(S, k) \in SUBSET S
  BY <1>1
<1>5. 0 \in Q
  <2>1. Recent(S, 0) = {}
    <3>1. \A i : ~(Cardinality(After(i)) < 0)
      <4> HIDE DEF After
      <4> QED BY <1>2, <1>3
    <3> HIDE DEF After
    <3> QED BY <1>1, <3>1
  <2>2. Cardinality(Recent(S, 0)) = 0
    BY <2>1, FS_EmptySet
  <2> QED BY <1>2, <2>2
<1>6. ASSUME NEW k \in Nat, k \in Q PROVE k + 1 \in Q
  <2>1. Many(k)
    BY <1>6
  <2> DEFINE A == Recent(S, k)
             B == Recent(S, k + 1)
             R == S \ A
  <2>2. A \in SUBSET S /\ B \in SUBSET S /\ A \subseteq B
    <3>1. ASSUME NEW i \in A PROVE i \in B
      <4>1. i \in S /\ Cardinality(After(i)) \in Nat /\ Cardinality(After(i)) < k
        BY <1>1, <1>2, <1>3
      <4> QED BY <1>1, <4>1
    <3> QED BY <1>4, <3>1
  <2>3. CASE R = {}
    <3>1. A = S /\ B = S
      BY <2>2, <2>3
    <3>2. Cardinality(S) <= k
      BY <1>2, <2>1, <3>1
    <3> QED BY <1>2, <3>1, <3>2
  <2>4. CASE R # {}
    <3>1. PICK x \in R : \A y \in R : y <= x
      <4>1. R \in SUBSET (0 .. m)
        <5>1. \A y \in S : y \in 0 .. m
          OBVIOUS
        <5>2. \A y \in R : y \in S
          OBVIOUS
        <5> QED BY <5>1, <5>2
      <4>2. Max(R) \in R /\ \A y \in R : Max(R) >= y
        <5> HIDE DEF R
        <5> QED BY <2>4, <4>1, GreatestOf
      <4>3. PICK x : x = Max(R)
        OBVIOUS
      <4>4. x \in R /\ \A y \in R : x >= y
        BY <4>2, <4>3
      <4>5. \A y \in R : y \in Nat
        OBVIOUS
      <4> QED BY <4>4, <4>5
    <3>2. k < Cardinality(S)
      <4>1. ASSUME Cardinality(S) <= k PROVE FALSE
        <5>1. Cardinality(A) = Cardinality(S)
          BY <2>1, <4>1
        <5>2. A = S
          BY <1>2, <2>2, <5>1, FS_Subset
        <5> QED BY <2>4, <5>2
      <4> QED BY <1>2, <4>1
    <3>3. Cardinality(A) = k
      BY <1>2, <2>1, <3>2
    <3>4. \A i \in S : i \in Nat
      OBVIOUS
    <3>5. After(x) = A
      <4>1. ASSUME NEW j \in After(x) PROVE j \in A
        <5>1. j \in S /\ j > x /\ j \in Nat /\ x \in Nat
          BY <3>1, <3>4
        <5> QED BY <3>1, <5>1
      <4>2. ASSUME NEW j \in A PROVE j \in After(x)
        <5>1. j \in S /\ x \in S /\ j \in Nat /\ x \in Nat
          BY <2>2, <3>1, <3>4
        <5>2. ASSUME j <= x PROVE FALSE
          <6>1. After(x) \in SUBSET After(j)
            <7>1. ASSUME NEW z \in After(x) PROVE z \in After(j)
              <8>1. z \in S /\ z \in Nat /\ z > x
                BY <3>4
              <8> QED BY <5>1, <5>2, <8>1
            <7> QED BY <7>1
          <6>2. Cardinality(After(x)) <= Cardinality(After(j)) /\ Cardinality(After(j)) < k
                /\ Cardinality(After(x)) \in Nat /\ Cardinality(After(j)) \in Nat
            <7>1. Cardinality(After(j)) < k
              BY <1>1
            <7> HIDE DEF After, A
            <7> QED BY <1>2, <1>3, <6>1, <7>1
          <6>3. x \in A
            BY <1>1, <5>1, <6>2
          <6> QED BY <3>1, <6>3
        <5> QED BY <5>1, <5>2
      <4> QED BY <4>1, <4>2
    <3>6. x \in B
      <4>1. Cardinality(After(x)) = k /\ x \in S
        BY <3>1, <3>3, <3>5
      <4> QED BY <1>1, <4>1
    <3>7. ASSUME NEW i \in B, i # x PROVE i \in A
      <4>1. i \in S /\ i \in Nat /\ x \in S /\ x \in Nat
        BY <2>2, <3>1, <3>4
      <4>2. ASSUME i \notin A PROVE FALSE
        <5>1. i < x
          BY <3>1, <4>1, <4>2, <3>7
        <5>2. A \cup {x} \in SUBSET After(i)
          <6>1. ASSUME NEW z \in A PROVE z \in After(i)
            <7>1. z \in After(x)
              BY <3>5
            <7>2. z \in S /\ z \in Nat /\ z > x
              BY <3>4, <7>1
            <7> QED BY <4>1, <5>1, <7>2
          <6>2. x \in After(i)
            BY <4>1, <5>1
          <6> QED BY <6>1, <6>2
        <5>3. Cardinality(A \cup {x}) = k + 1
          BY <1>2, <2>2, <3>1, <3>3, FS_AddElement
        <5>4. Cardinality(A \cup {x}) <= Cardinality(After(i)) /\ Cardinality(After(i)) \in Nat
          <6> HIDE DEF After, A
          <6> QED BY <1>2, <1>3, <5>2
        <5>5. Cardinality(After(i)) < k + 1
          BY <1>1
        <5> QED BY <5>3, <5>4, <5>5
      <4> QED BY <4>2
    <3>8. B = A \cup {x}
      BY <2>2, <3>6, <3>7
    <3>9. Cardinality(B) = k + 1
      BY <1>2, <2>2, <3>1, <3>3, <3>8, FS_AddElement
    <3> QED BY <1>2, <3>2, <3>9
  <2> QED BY <2>3, <2>4
<1>7. \A k \in Nat : k \in Q
  <2> HIDE DEF Q
  <2> QED BY <1>5, <1>6, CountingUp
<1> QED BY <1>4, <1>7

\* The beginning of a pool.
Begins(q, p) ==
  /\ p \in Seq(Attempts) /\ q \in Seq(Attempts) /\ Len(q) <= Len(p)
  /\ \A i \in 1 .. Len(q) : q[i] = p[i]

TypesOf(p) == {p[i].type : i \in {j \in DOMAIN p : p[j].type # NoType}}

\* There is a newest attempt for each type...
LEMMA NewestMany ==
  ASSUME NEW p \in Seq(Attempts)
  PROVE  /\ Newest(p) \in SUBSET (1 .. Len(p))
         /\ IsFiniteSet(TypesOf(p)) /\ Cardinality(Newest(p)) = Cardinality(TypesOf(p))
<1> DEFINE n == Len(p)
           typed == {i \in 1 .. n : p[i].type # NoType}
<1>1. n \in Nat /\ DOMAIN p = 1 .. n
  OBVIOUS
<1>2. Newest(p) = {i \in typed : \A j \in typed : p[j].type = p[i].type => j <= i}
  BY <1>1 DEF Newest
<1>3. TypesOf(p) = {p[i].type : i \in typed}
  BY <1>1 DEF TypesOf
<1>4. Newest(p) \in SUBSET (1 .. n) /\ IsFiniteSet(Newest(p))
  <2>1. Newest(p) \in SUBSET (1 .. n)
    BY <1>2
  <2> HIDE DEF n
  <2> QED BY <1>1, <2>1, PositionsFinite
<1> DEFINE f == [i \in Newest(p) |-> p[i].type]
<1>5. f \in Surjection(Newest(p), TypesOf(p)) /\ f \in Injection(Newest(p), TypesOf(p))
  <2>1. \A i \in Newest(p) : f[i] \in TypesOf(p)
    BY <1>2, <1>3
  <2>2. ASSUME NEW i \in Newest(p), NEW j \in Newest(p), f[i] = f[j] PROVE i = j
    <3>1. i \in typed /\ j \in typed /\ p[i].type = p[j].type /\ i \in Nat /\ j \in Nat
      BY <1>2, <2>2
    <3>2. i <= j /\ j <= i
      BY <1>2, <3>1
    <3> QED BY <3>1, <3>2
  <2>3. ASSUME NEW t \in TypesOf(p) PROVE \E i \in Newest(p) : f[i] = t
    <3> DEFINE T == {i \in typed : p[i].type = t}
    <3>1. T # {} /\ T \in SUBSET (0 .. n)
      BY <1>3
    <3>2. Max(T) \in T /\ \A x \in T : Max(T) >= x
      <4> HIDE DEF T
      <4> QED BY <1>1, <3>1, GreatestOf
    <3>3. PICK i : i = Max(T)
      OBVIOUS
    <3>4. i \in T /\ \A x \in T : i >= x
      BY <3>2, <3>3
    <3>5. \A x \in T : x <= i
      <4>1. \A x \in T : x \in Nat
        OBVIOUS
      <4> HIDE DEF T
      <4> QED BY <3>4, <4>1
    <3>6. i \in Newest(p)
      BY <1>2, <3>4, <3>5
    <3> QED BY <3>4, <3>6
  <2> HIDE DEF f
  <2>4. f \in [Newest(p) -> TypesOf(p)]
    BY <2>1 DEF f
  <2> QED BY <2>2, <2>3, <2>4 DEF Surjection, Injection, IsInjective
<1> HIDE DEF f
<1> QED BY <1>4, <1>5, FS_Surjection

\* ...so there are enough of them as soon as there are enough types.
LEMMA RepsMany ==
  ASSUME NEW p \in Seq(Attempts)
  PROVE  /\ TypeReps(p) \in SUBSET (1 .. Len(p))
         /\ Cardinality(TypeReps(p)) \in Nat /\ Cardinality(TypeReps(p)) <= MinTypes
         /\ Cardinality(TypeReps(p)) >= MinTypes <=> Cardinality(TypesOf(p)) >= MinTypes
<1>1. Newest(p) \in SUBSET (1 .. Len(p)) /\ Cardinality(Newest(p)) = Cardinality(TypesOf(p))
  BY NewestMany
<1>2. MinTypes \in Nat /\ Len(p) \in Nat
  BY CountsAssumption
<1>3. /\ TypeReps(p) \in SUBSET Newest(p)
      /\ Cardinality(TypeReps(p)) =
           IF Cardinality(Newest(p)) <= MinTypes THEN Cardinality(Newest(p)) ELSE MinTypes
  BY <1>1, <1>2, RecentMany DEF TypeReps
<1>4. Cardinality(Newest(p)) \in Nat
  BY <1>1, <1>2, PositionsFinite
<1> QED BY <1>1, <1>2, <1>3, <1>4

\* A longer pool has no fewer types and of no batch fewer attempts.
LEMMA MoreOfAll ==
  ASSUME NEW p, NEW q, Begins(q, p)
  PROVE  /\ Cardinality(TypesOf(q)) <= Cardinality(TypesOf(p))
         /\ \A b : Cardinality(OfBatch(q, b)) <= Cardinality(OfBatch(p, b))
<1>1. /\ p \in Seq(Attempts) /\ q \in Seq(Attempts) /\ Len(q) \in Nat /\ Len(p) \in Nat
      /\ DOMAIN q = 1 .. Len(q) /\ DOMAIN p = 1 .. Len(p) /\ 1 .. Len(q) \subseteq 1 .. Len(p)
      /\ \A i \in 1 .. Len(q) : q[i] = p[i]
  BY DEF Begins
<1>2. TypesOf(q) \subseteq TypesOf(p)
  BY <1>1 DEF TypesOf
<1>3. Cardinality(TypesOf(q)) <= Cardinality(TypesOf(p))
  BY <1>1, <1>2, NewestMany, FS_Subset
<1>4. ASSUME NEW b PROVE Cardinality(OfBatch(q, b)) <= Cardinality(OfBatch(p, b))
  <2>1. OfBatch(q, b) \in SUBSET OfBatch(p, b) /\ OfBatch(p, b) \in SUBSET (1 .. Len(p))
    BY <1>1 DEF OfBatch
  <2> QED BY <1>1, <2>1, PositionsFinite
<1> QED BY <1>3, <1>4

\* A selection is one.
LEMMA PositionsNotNone ==
  ASSUME NEW p \in Seq(Attempts), Len(p) <= MaxPool, NEW S \in SUBSET (1 .. Len(p))
  PROVE  S # None
<1>1. \A i \in 1 .. Len(p) : i \in 1 .. MaxPool
  BY CountsAssumption
<1>2. S \in SUBSET (1 .. MaxPool)
  BY <1>1
<1> QED BY <1>2, NoneAssumption

\* A batch is filled if there are enough attempts of it, whatever was selected before.
LEMMA BatchFilled ==
  ASSUME NEW p \in Seq(Attempts), Len(p) <= MaxPool, NEW sel \in SUBSET (1 .. Len(p)), NEW b, b.required \in Nat
  PROVE  /\ WithBatch(p, sel, b) = None <=> Cardinality(OfBatch(p, b)) < b.required
         /\ WithBatch(p, sel, b) # None =>
              /\ WithBatch(p, sel, b) \in SUBSET (1 .. Len(p))
              /\ Cardinality(WithBatch(p, sel, b)) <= Cardinality(sel) + b.required
<1> DEFINE n == Len(p)
           of == OfBatch(p, b)
           have == Cardinality(sel \cap of)
           more == IF have >= b.required THEN {} ELSE Recent(of \ sel, b.required - have)
<1>1. n \in Nat /\ DOMAIN p = 1 .. n /\ of \in SUBSET (1 .. n)
  BY DEF OfBatch
<1>2. sel # None
  BY PositionsNotNone
<1>3. WithBatch(p, sel, b) = IF sel = None \/ have + Cardinality(more) < b.required THEN None
                             ELSE sel \cup more
  BY DEF WithBatch
<1> HIDE DEF n, of
<1>4. sel \cap of \in SUBSET (1 .. n) /\ of \ sel \in SUBSET (1 .. n) /\ sel \in SUBSET (1 .. n)
  BY <1>1 DEF n
<1>5. /\ have \in Nat /\ Cardinality(of \ sel) \in Nat /\ Cardinality(of) \in Nat
      /\ Cardinality(sel) \in Nat /\ have <= Cardinality(of)
  <2>1. sel \cap of \in SUBSET of
    OBVIOUS
  <2> QED BY <1>1, <1>4, <2>1, PositionsFinite
<1>6. Cardinality(of \ sel) = Cardinality(of) - have
  <2>1. (sel \cap of) \cup (of \ sel) = of /\ (sel \cap of) \cap (of \ sel) = {}
    OBVIOUS
  <2>2. IsFiniteSet(sel \cap of) /\ IsFiniteSet(of \ sel)
    BY <1>1, <1>4, PositionsFinite
  <2>3. Cardinality((sel \cap of) \cup (of \ sel)) =
          have + Cardinality(of \ sel) - Cardinality((sel \cap of) \cap (of \ sel))
    BY <2>2, FS_Union
  <2>4. Cardinality(of) = have + Cardinality(of \ sel) - 0
    BY <2>1, <2>3, FS_EmptySet
  <2> QED BY <1>5, <2>4
<1> HIDE DEF have
<1>7. /\ more \in SUBSET (of \ sel) /\ Cardinality(more) \in Nat /\ Cardinality(more) <= b.required
      /\ have + Cardinality(more) < b.required <=> Cardinality(of) < b.required
  <2>1. CASE have >= b.required
    BY <1>5, <2>1, FS_EmptySet
  <2>2. CASE ~(have >= b.required)
    <3>1. more = Recent(of \ sel, b.required - have) /\ b.required - have \in Nat
      BY <1>5, <2>2
    <3>2. /\ more \in SUBSET (of \ sel)
          /\ Cardinality(more) = IF Cardinality(of \ sel) <= b.required - have
                                 THEN Cardinality(of \ sel) ELSE b.required - have
      <4>1. PICK R, r : R = of \ sel /\ r = b.required - have
        OBVIOUS
      <4>2. R \in SUBSET (1 .. n) /\ r \in Nat
        BY <1>4, <3>1, <4>1
      <4>3. /\ Recent(R, r) \in SUBSET R
            /\ Cardinality(Recent(R, r)) = IF Cardinality(R) <= r THEN Cardinality(R) ELSE r
        BY <1>1, <4>2, RecentMany
      <4> HIDE DEF more
      <4> QED BY <3>1, <4>1, <4>3
    <3> HIDE DEF more
    <3>3. PICK x, y, z, h, r : /\ x = Cardinality(more) /\ y = Cardinality(of \ sel) /\ r = b.required
                               /\ z = Cardinality(of) /\ h = have
      OBVIOUS
    <3>4. /\ x \in Nat /\ y \in Nat /\ z \in Nat /\ h \in Nat /\ r \in Nat /\ h < r
          /\ x = (IF y <= r - h THEN y ELSE r - h) /\ y = z - h
      BY <1>5, <1>6, <2>2, <3>1, <3>2, <3>3
    <3>5. x \in Nat /\ x <= r /\ (h + x < r <=> z < r)
      BY <3>4
    <3> QED BY <3>2, <3>3, <3>5
  <2> QED BY <2>1, <2>2
<1> HIDE DEF more
<1>8. sel \cup more \in SUBSET (1 .. n) /\ more \in SUBSET (1 .. n)
  BY <1>4, <1>7
<1>9. sel \cup more # None
  BY <1>8, PositionsNotNone DEF n
<1>10. Cardinality(sel \cup more) <= Cardinality(sel) + b.required
  <2>1. IsFiniteSet(sel) /\ IsFiniteSet(more) /\ sel \cap more = {}
    BY <1>1, <1>4, <1>7, <1>8, PositionsFinite
  <2>2. Cardinality(sel \cup more) = Cardinality(sel) + Cardinality(more) - Cardinality(sel \cap more)
    BY <2>1, FS_Union
  <2>3. Cardinality(sel \cup more) = Cardinality(sel) + Cardinality(more) - 0
    BY <2>1, <2>2, FS_EmptySet
  <2> QED BY <1>5, <1>7, <2>3
<1> QED BY <1>2, <1>3, <1>7, <1>8, <1>9, <1>10 DEF n, of

\* The batches, one after the other.
BatchSteps(iter, p) ==
  iter = [s \in SUBSET DOMAIN Batches |->
            IF s = {} THEN TypeReps(p)
            ELSE WithBatch(p, iter[s \ {Max(s)}], Batches[Max(s)])]

\* What the batches leave is a fold over their positions.
LEMMA BatchedIsFold ==
  ASSUME NEW p
  PROVE  Batched(p) = (CHOOSE iter : BatchSteps(iter, p))[DOMAIN Batches]
BY Zenon DEF Batched, FoldLeft, MapThenFoldSet, BatchSteps

\* A batch asks for a number of questions.
LEMMA BatchesAre ==
  /\ Len(Batches) \in Nat /\ DOMAIN Batches = 1 .. Len(Batches)
  /\ \A k \in 1 .. Len(Batches) : Batches[k].required \in Nat
<1> DEFINE R == [types : SUBSET QuestionTypes, required : Nat]
<1>1. PICK bs : bs = Batches
  OBVIOUS
<1>2. bs \in Seq(R)
  BY <1>1, CountsAssumption
<1> HIDE DEF R
<1>3. Len(bs) \in Nat /\ DOMAIN bs = 1 .. Len(bs) /\ \A k \in 1 .. Len(bs) : bs[k] \in R
  BY <1>2
<1>4. \A r \in R : r.required \in Nat
  BY DEF R
<1> QED BY <1>1, <1>3, <1>4

\* There is a way through them...
LEMMA BatchStepsExist ==
  ASSUME NEW p \in Seq(Attempts), Len(p) <= MaxPool
  PROVE  \E iter : BatchSteps(iter, p)
<1> DEFINE m == Len(Batches)
           A == {None} \cup SUBSET (1 .. Len(p))
           g == [x \in (1 .. m) \X A |-> WithBatch(p, x[2], Batches[x[1]])]
<1>1. m \in Nat /\ DOMAIN Batches = 1 .. m /\ \A k \in 1 .. m : Batches[k].required \in Nat
  BY BatchesAre
<1> HIDE DEF m
<1>2. ASSUME NEW k \in 1 .. m, NEW a \in A PROVE WithBatch(p, a, Batches[k]) \in A
  <2>1. CASE a = None
    BY <2>1 DEF WithBatch
  <2>2. CASE a # None
    BY <1>1, <2>2, BatchFilled
  <2> QED BY <2>1, <2>2
<1>3. \A k \in 1 .. m, a \in A : g[<<k, a>>] = WithBatch(p, a, Batches[k])
  OBVIOUS
<1>4. TypeReps(p) \in A
  BY RepsMany
<1> HIDE DEF A, g
<1>5. \A k \in 1 .. m, a \in A : g[<<k, a>>] \in A
  BY <1>2, <1>3
<1>6. PICK iter : LeftFolds(iter, m, g, TypeReps(p)) /\ iter \in [SUBSET (1 .. m) -> A]
  BY <1>1, <1>4, <1>5, LeftFoldExists
<1>7. BatchSteps(iter, p)
  <2> DEFINE Here(s) == IF s = {} THEN TypeReps(p) ELSE g[<<Max(s), iter[s \ {Max(s)}]>>]
             There(s) == IF s = {} THEN TypeReps(p)
                         ELSE WithBatch(p, iter[s \ {Max(s)}], Batches[Max(s)])
  <2>1. ASSUME NEW s \in SUBSET (1 .. m), s # {} PROVE Max(s) \in 1 .. m /\ iter[s \ {Max(s)}] \in A
    <3>1. s \in SUBSET (0 .. m)
      <4>1. \A i \in 1 .. m : i \in 0 .. m
        BY <1>1
      <4> QED BY <4>1
    <3>2. Max(s) \in s
      BY <1>1, <2>1, <3>1, GreatestOf
    <3> QED BY <1>6, <3>2
  <2>2. \A s \in SUBSET (1 .. m) : Here(s) = There(s)
    BY <1>3, <2>1
  <2>3. [s \in SUBSET (1 .. m) |-> Here(s)] = [s \in SUBSET (1 .. m) |-> There(s)]
    <3> HIDE DEF Here, There
    <3> QED BY <2>2
  <2> QED BY <1>1, <1>6, <2>3 DEF LeftFolds, BatchSteps
<1> QED BY <1>7

\* The questions the first k batches ask for.
Required(k) == SumOf([b \in DOMAIN Batches |-> Batches[b].required], 1 .. k)

Fillable(p, k) == Cardinality(OfBatch(p, Batches[k])) >= Batches[k].required

AskedAdds(iter) ==
  iter = [s \in SUBSET DOMAIN Batches |->
            IF s = {} THEN 0 ELSE Batches[AnyOf(s)].required + iter[s \ {AnyOf(s)}]]

\* What the batches ask for is a sum.
LEMMA AskedIsFold == Asked = (CHOOSE iter : AskedAdds(iter))[DOMAIN Batches]
BY Zenon DEF Asked, MapThenSumSet, MapThenFoldSet, AskedAdds, AnyOf

\* All of them together are what the batches ask for.
LEMMA AskedIs == Asked = Required(Len(Batches))
<1> DEFINE D == DOMAIN Batches
           f == [b \in D |-> Batches[b].required]
<1>1. D = 1 .. Len(Batches) /\ IsFiniteSet(D) /\ \A b \in D : f[b] = Batches[b].required /\ f[b] \in Int
  <2>1. IsFiniteSet(1 .. Len(Batches))
    BY BatchesAre, FS_Interval
  <2> QED BY <2>1, BatchesAre
<1>2. ASSUME NEW iter PROVE Adds(iter, f, D) <=> AskedAdds(iter)
  <2> DEFINE Here(s) == IF s = {} THEN 0 ELSE f[AnyOf(s)] + iter[s \ {AnyOf(s)}]
             There(s) == IF s = {} THEN 0 ELSE Batches[AnyOf(s)].required + iter[s \ {AnyOf(s)}]
  <2>1. \A s \in SUBSET D : Here(s) = There(s)
    <3> HIDE DEF f, D
    <3> QED BY <1>1, AnyOfIsOne
  <2>2. [s \in SUBSET D |-> Here(s)] = [s \in SUBSET D |-> There(s)]
    <3> HIDE DEF Here, There, D
    <3> QED BY <2>1
  <2> QED BY <2>2 DEF Adds, AskedAdds
<1> HIDE DEF f, D
<1>3. PICK iter \in [SUBSET D -> Int] : Adds(iter, f, D)
  BY <1>1, AddsExist
<1>4. PICK h : h = CHOOSE k : AskedAdds(k)
  OBVIOUS
<1>5. AskedAdds(h)
  BY <1>2, <1>3, <1>4, Zenon
<1>6. h[D] = SumOf(f, D)
  BY <1>1, <1>2, <1>5, SumIs
<1> QED BY <1>1, <1>4, <1>6, AskedIsFold DEF Required, f, D

\* ...and it comes through exactly if each can be filled.
LEMMA BatchedIs ==
  ASSUME NEW p \in Seq(Attempts), Len(p) <= MaxPool
  PROVE  /\ Batched(p) # None <=> \A k \in DOMAIN Batches : Fillable(p, k)
         /\ Batched(p) # None => /\ Batched(p) \in SUBSET (1 .. Len(p))
                                 /\ Cardinality(Batched(p)) <= MinTypes + Required(Len(Batches))
         /\ Required(Len(Batches)) \in Int
<1> DEFINE m == Len(Batches)
           f == [b \in DOMAIN Batches |-> Batches[b].required]
<1>1. m \in Nat /\ DOMAIN Batches = 1 .. m /\ \A k \in 1 .. m : Batches[k].required \in Nat
  BY BatchesAre
<1>2. PICK iter : iter = CHOOSE h : BatchSteps(h, p)
  OBVIOUS
<1>3. BatchSteps(iter, p)
  BY <1>2, BatchStepsExist, Zenon
<1> HIDE DEF m
<1> DEFINE after == [k \in 0 .. m |-> iter[1 .. k]]
<1>4. after[0] = TypeReps(p)
  <2>1. 1 .. 0 = {} /\ {} \in SUBSET (1 .. m) /\ 0 \in 0 .. m
    BY <1>1
  <2> QED BY <1>1, <1>3, <2>1 DEF BatchSteps
<1>5. ASSUME NEW k \in 1 .. m PROVE after[k] = WithBatch(p, after[k - 1], Batches[k])
  <2>1. iter[1 .. k] = WithBatch(p, iter[(1 .. k) \ {Max(1 .. k)}], Batches[Max(1 .. k)])
    BY <1>1, <1>3, FirstNumbers DEF BatchSteps
  <2>2. iter[1 .. k] = WithBatch(p, iter[1 .. (k - 1)], Batches[k])
    BY <1>1, <2>1, FirstNumbers
  <2>3. k - 1 \in 0 .. m /\ k \in 0 .. m
    BY <1>1
  <2> QED BY <2>2, <2>3
<1>6. after[m] = Batched(p)
  <2>1. m \in 0 .. m
    BY <1>1
  <2>2. after[m] = iter[DOMAIN Batches]
    BY <1>1, <2>1
  <2> HIDE DEF after
  <2> QED BY <1>2, <2>2, BatchedIsFold
<1>7. /\ \A k \in 1 .. m : Required(k) = Batches[k].required + Required(k - 1)
      /\ \A k \in 0 .. m : Required(k) \in Int
      /\ Required(0) = 0
  <2>1. \A b \in 1 .. m : f[b] = Batches[b].required /\ f[b] \in Int
    BY <1>1
  <2>2. \A k : Required(k) = SumOf(f, 1 .. k)
    BY DEF Required
  <2> HIDE DEF f
  <2>3. \A k \in 0 .. m : IsFiniteSet(1 .. k) /\ \A b \in 1 .. k : f[b] \in Int
    BY <1>1, <2>1, FS_Interval
  <2>4. ASSUME NEW k \in 1 .. m PROVE Required(k) = Batches[k].required + Required(k - 1)
    <3>1. k \in 1 .. k /\ (1 .. k) \ {k} = 1 .. (k - 1) /\ k \in 0 .. m
      BY <1>1
    <3>2. PICK S : S = 1 .. k
      OBVIOUS
    <3>3. SumOf(f, S) = f[k] + SumOf(f, S \ {k})
      BY <2>3, <3>1, <3>2, SumOfMore
    <3> QED BY <2>1, <2>2, <3>1, <3>2, <3>3
  <2>5. \A k \in 0 .. m : Required(k) \in Int
    <3> TAKE k \in 0 .. m
    <3>1. PICK S : S = 1 .. k
      OBVIOUS
    <3> QED BY <2>2, <2>3, <3>1, SumType
  <2>6. Required(0) = 0
    <3>1. 1 .. 0 = {}
      OBVIOUS
    <3> QED BY <2>2, <3>1, SumOfNone
  <2> QED BY <2>4, <2>5, <2>6
<1> HIDE DEF after, f
<1> DEFINE Through(k) ==
             /\ after[k] # None <=> \A j \in 1 .. k : Fillable(p, j)
             /\ after[k] # None => /\ after[k] \in SUBSET (1 .. Len(p))
                                   /\ Cardinality(after[k]) <= MinTypes + Required(k)
           Q == {k \in Nat : k <= m => Through(k)}
<1>8. 0 \in Q
  <2>1. TypeReps(p) \in SUBSET (1 .. Len(p)) /\ Cardinality(TypeReps(p)) <= MinTypes /\ MinTypes \in Nat
    BY RepsMany, CountsAssumption
  <2>2. TypeReps(p) # None
    BY <2>1, PositionsNotNone
  <2>3. Required(0) = 0
    BY <1>1, <1>7
  <2> QED BY <1>4, <2>1, <2>2, <2>3
<1>9. ASSUME NEW k \in Nat, k \in Q PROVE k + 1 \in Q
  <2> SUFFICES ASSUME k + 1 <= m PROVE Through(k + 1)
    OBVIOUS
  <2>1. k + 1 \in 1 .. m /\ k <= m /\ (k + 1) - 1 = k /\ k \in 0 .. m /\ k + 1 \in 0 .. m
    BY <1>1
  <2>2. Through(k)
    BY <1>9, <2>1
  <2>3. PICK b : b = Batches[k + 1]
    OBVIOUS
  <2>4. b.required \in Nat /\ after[k + 1] = WithBatch(p, after[k], b)
    BY <1>1, <1>5, <2>1, <2>3
  <2>5. \A j \in 1 .. (k + 1) : j \in 1 .. k \/ j = k + 1
    OBVIOUS
  <2>6. 1 .. k \subseteq 1 .. (k + 1) /\ k + 1 \in 1 .. (k + 1)
    OBVIOUS
  <2>7. CASE after[k] = None
    <3>1. after[k + 1] = None
      BY <2>4, <2>7 DEF WithBatch
    <3> QED BY <2>2, <2>6, <2>7, <3>1
  <2>8. CASE after[k] # None
    <3>1. PICK sel, next : sel = after[k] /\ next = after[k + 1]
      OBVIOUS
    <3>2. /\ sel \in SUBSET (1 .. Len(p)) /\ Cardinality(sel) <= MinTypes + Required(k)
          /\ \A j \in 1 .. k : Fillable(p, j)
      BY <2>2, <2>8, <3>1
    <3>3. /\ next = None <=> Cardinality(OfBatch(p, b)) < b.required
          /\ next # None => /\ next \in SUBSET (1 .. Len(p))
                            /\ Cardinality(next) <= Cardinality(sel) + b.required
      BY <2>4, <3>1, <3>2, BatchFilled
    <3>4. OfBatch(p, b) \in SUBSET (1 .. Len(p)) /\ Len(p) \in Nat
      BY DEF OfBatch
    <3>5. Cardinality(OfBatch(p, b)) \in Nat /\ Cardinality(sel) \in Nat
          /\ (next # None => Cardinality(next) \in Nat)
      BY <3>2, <3>3, <3>4, PositionsFinite
    <3>6. Fillable(p, k + 1) <=> next # None
      BY <2>3, <2>4, <3>3, <3>5 DEF Fillable
    <3>7. Required(k + 1) = b.required + Required(k) /\ Required(k) \in Int
      BY <1>7, <2>1, <2>3
    <3>8. next # None => Cardinality(next) <= MinTypes + Required(k + 1)
      <4>1. MinTypes \in Nat
        BY CountsAssumption
      <4>2. PICK x, y, r, s, t, u : /\ x = Cardinality(next) /\ y = Cardinality(sel) /\ r = b.required
                                    /\ s = Required(k) /\ t = Required(k + 1) /\ u = MinTypes
        OBVIOUS
      <4>3. /\ y \in Nat /\ r \in Nat /\ s \in Int /\ t = r + s /\ u \in Nat /\ y <= u + s
            /\ next # None => x \in Nat /\ x <= y + r
        BY <2>4, <3>2, <3>3, <3>5, <3>7, <4>1, <4>2
      <4>4. next # None => x <= u + t
        BY <4>3
      <4> QED BY <4>2, <4>4
    <3> QED BY <2>5, <2>6, <3>1, <3>2, <3>3, <3>6, <3>8
  <2> QED BY <2>7, <2>8
<1>10. \A k \in Nat : k \in Q
  <2> HIDE DEF Q
  <2> QED BY <1>8, <1>9, CountingUp
<1>11. Through(m)
  BY <1>1, <1>10
<1>12. Required(m) \in Int
  BY <1>1, <1>7
<1> QED BY <1>1, <1>6, <1>11, <1>12 DEF m

\* A NIPUN score needs as many attempts as it has questions, and nothing else.
LEMMA NipunIs ==
  ASSUME NEW p \in Seq(Attempts), Len(p) <= MaxPool
  PROVE  NipunSelected(p) # None <=> Len(p) >= NipunCount
<1>1. Len(p) \in Nat /\ NipunCount \in Nat /\ DOMAIN p = 1 .. Len(p)
  BY CountsAssumption
<1>2. Recent(DOMAIN p, NipunCount) \in SUBSET (1 .. Len(p))
  BY <1>1 DEF Recent
<1>3. Recent(DOMAIN p, NipunCount) # None
  BY <1>2, PositionsNotNone
<1> QED BY <1>1, <1>3 DEF NipunSelected

\* What a pool must hold for an MPL-B score.
Enough(p) ==
  /\ Len(p) >= MplBCount
  /\ Cardinality(TypesOf(p)) >= MinTypes
  /\ \A k \in DOMAIN Batches : Fillable(p, k)

\* It has a score exactly then, over exactly the questions there must be.
LEMMA MplBIs ==
  ASSUME NEW p \in Seq(Attempts), Len(p) <= MaxPool
  PROVE  /\ MplBSelected(p) # None <=> Enough(p)
         /\ MplBSelected(p) # None => Cardinality(MplBSelected(p)) = MplBCount
<1> DEFINE n == Len(p)
           B == Batched(p)
           rest == 1 .. n \ B
           more == Recent(rest, MplBCount - Cardinality(B))
<1>1. n \in Nat /\ DOMAIN p = 1 .. n /\ MplBCount \in Nat /\ MinTypes \in Nat
  BY CountsAssumption
<1>2. Cardinality(TypeReps(p)) \in Nat
      /\ (Cardinality(TypeReps(p)) >= MinTypes <=> Cardinality(TypesOf(p)) >= MinTypes)
  BY RepsMany
<1>3. Cardinality(TypeReps(p)) < MinTypes <=> ~(Cardinality(TypesOf(p)) >= MinTypes)
  BY <1>1, <1>2
<1>4. B # None <=> \A k \in DOMAIN Batches : Fillable(p, k)
  BY BatchedIs
<1>5. MplBSelected(p) = IF n < MplBCount \/ Cardinality(TypeReps(p)) < MinTypes \/ B = None
                        THEN None ELSE B \cup more
  BY <1>1 DEF MplBSelected
<1>6. n < MplBCount <=> ~(n >= MplBCount)
  BY <1>1
<1>7. ASSUME n >= MplBCount, B # None
      PROVE  B \cup more \in SUBSET (1 .. n) /\ Cardinality(B \cup more) = MplBCount
  <2>1. B \in SUBSET (1 .. n) /\ Cardinality(B) <= MinTypes + Required(Len(Batches))
        /\ Required(Len(Batches)) \in Int
    BY <1>7, BatchedIs
  <2>2. MinTypes + Required(Len(Batches)) <= MplBCount
    BY BatchesAssumption, AskedIs
  <2> HIDE DEF B, n
  <2>3. IsFiniteSet(B) /\ Cardinality(B) \in Nat
    BY <1>1, <2>1, PositionsFinite
  <2>4. Cardinality(B) <= MplBCount
    <3>1. PICK b, r : b = Cardinality(B) /\ r = Required(Len(Batches))
      OBVIOUS
    <3> QED BY <1>1, <2>1, <2>2, <2>3, <3>1
  <2>5. rest \in SUBSET (1 .. n) /\ rest \cup B = 1 .. n /\ rest \cap B = {}
    BY <2>1
  <2> HIDE DEF rest
  <2>6. IsFiniteSet(rest) /\ Cardinality(rest) \in Nat
    BY <1>1, <2>5, PositionsFinite
  <2>7. Cardinality(rest) + Cardinality(B) = n
    <3>1. Cardinality(rest \cup B) = Cardinality(rest) + Cardinality(B) - Cardinality(rest \cap B)
      BY <2>3, <2>6, FS_Union
    <3>2. Cardinality(1 .. n) = n
      <4>1. n - 1 + 1 = n /\ 1 <= n + 1
        BY <1>1
      <4> QED BY <1>1, <4>1, FS_Interval
    <3>3. n = Cardinality(rest) + Cardinality(B) - 0
      BY <2>5, <3>1, <3>2, FS_EmptySet
    <3> QED BY <1>1, <2>3, <2>6, <3>3
  <2>8. PICK r : r = MplBCount - Cardinality(B)
    OBVIOUS
  <2>9. r \in Nat /\ more = Recent(rest, r)
    BY <1>1, <2>3, <2>4, <2>8
  <2>10. /\ more \in SUBSET rest
         /\ Cardinality(more) = IF Cardinality(rest) <= r THEN Cardinality(rest) ELSE r
    BY <1>1, <2>5, <2>9, RecentMany
  <2>11. Cardinality(more) = r
    BY <1>1, <1>7, <2>3, <2>6, <2>7, <2>8, <2>9, <2>10
  <2> HIDE DEF more
  <2>12. more \in SUBSET (1 .. n) /\ B \cap more = {}
    BY <2>5, <2>10
  <2>13. IsFiniteSet(more)
    BY <1>1, <2>12, PositionsFinite
  <2>14. Cardinality(B \cup more) = Cardinality(B) + r - Cardinality(B \cap more)
    BY <2>3, <2>11, <2>13, FS_Union
  <2>15. Cardinality(B \cup more) = Cardinality(B) + r - 0
    BY <2>12, <2>14, FS_EmptySet
  <2>16. B \cup more \in SUBSET (1 .. n)
    BY <2>1, <2>12
  <2>17. PICK x, y : x = Cardinality(B \cup more) /\ y = Cardinality(B)
    OBVIOUS
  <2>18. x = MplBCount
    BY <1>1, <2>3, <2>8, <2>9, <2>15, <2>17
  <2> QED BY <2>16, <2>17, <2>18 DEF n
<1> HIDE DEF B, more
<1>8. ASSUME n >= MplBCount, B # None PROVE B \cup more # None
  BY <1>7, <1>8, PositionsNotNone
<1>9. Enough(p) <=> n >= MplBCount /\ Cardinality(TypesOf(p)) >= MinTypes /\ B # None
  BY <1>4 DEF Enough
<1> QED BY <1>3, <1>5, <1>6, <1>7, <1>8, <1>9

\* A pool that was once enough stays enough.
LEMMA StaysEnough ==
  ASSUME NEW p, NEW q, Begins(q, p), Len(p) <= MaxPool, NEW test, Selected(q, test) # None
  PROVE  Selected(p, test) # None
<1>1. /\ p \in Seq(Attempts) /\ q \in Seq(Attempts) /\ Len(q) \in Nat /\ Len(p) \in Nat
      /\ Len(q) <= Len(p) /\ {NipunCount, MplBCount, MinTypes, MaxPool} \subseteq Nat
  BY CountsAssumption DEF Begins
<1>2. Len(q) <= MaxPool
  BY <1>1
<1>3. CASE test = "nipun"
  <2>1. Len(q) >= NipunCount
    BY <1>1, <1>2, <1>3, NipunIs DEF Selected
  <2>2. Len(p) >= NipunCount
    BY <1>1, <2>1
  <2> QED BY <1>1, <1>3, <2>2, NipunIs DEF Selected
<1>4. CASE test # "nipun"
  <2>1. Enough(q)
    BY <1>1, <1>2, <1>4, MplBIs DEF Selected
  <2>2. Len(p) >= MplBCount
    BY <1>1, <2>1 DEF Enough
  <2>3. Cardinality(TypesOf(p)) >= MinTypes
    <3>1. IsFiniteSet(TypesOf(q)) /\ IsFiniteSet(TypesOf(p))
      BY <1>1, NewestMany
    <3>2. PICK x, y : x = Cardinality(TypesOf(q)) /\ y = Cardinality(TypesOf(p))
      OBVIOUS
    <3>3. x \in Nat /\ y \in Nat /\ x <= y /\ x >= MinTypes
      BY <2>1, <3>1, <3>2, MoreOfAll, FS_CardinalityType DEF Enough
    <3> QED BY <1>1, <3>2, <3>3
  <2>4. ASSUME NEW k \in DOMAIN Batches PROVE Fillable(p, k)
    <3>1. PICK b : b = Batches[k]
      OBVIOUS
    <3>2. b.required \in Nat
      BY <3>1, BatchesAre
    <3>3. OfBatch(q, b) \in SUBSET (1 .. Len(q)) /\ OfBatch(p, b) \in SUBSET (1 .. Len(p))
      BY <1>1 DEF OfBatch
    <3>4. PICK x, y : x = Cardinality(OfBatch(q, b)) /\ y = Cardinality(OfBatch(p, b))
      OBVIOUS
    <3>5. x \in Nat /\ y \in Nat /\ x <= y /\ x >= b.required
      BY <1>1, <2>1, <3>1, <3>3, <3>4, MoreOfAll, PositionsFinite DEF Enough, Fillable
    <3>6. y >= b.required
      BY <3>2, <3>5
    <3> QED BY <3>1, <3>4, <3>6 DEF Fillable
  <2>5. Enough(p)
    BY <2>2, <2>3, <2>4 DEF Enough
  <2> QED BY <1>1, <1>4, <2>5, MplBIs DEF Selected
<1> QED BY <1>3, <1>4

\* The first attempts of a pool begin it, and all of them are the pool.
LEMMA PrefixBegins ==
  ASSUME NEW p \in Seq(Attempts), NEW n \in 1 .. Len(p)
  PROVE  Begins(SubSeq(p, 1, n), p) /\ (n = Len(p) => SubSeq(p, 1, n) = p)
<1>1. Len(p) \in Nat /\ n \in Nat /\ n <= Len(p) /\ 1 <= n /\ \A i \in 1 .. Len(p) : p[i] \in Attempts
  BY ElementOfSeq, LenProperties
<1>2. \A i \in 1 .. n : i \in 1 .. Len(p)
  BY <1>1
<1>3. /\ SubSeq(p, 1, n) \in Seq(Attempts)
      /\ Len(SubSeq(p, 1, n)) = IF 1 <= n THEN n - 1 + 1 ELSE 0
      /\ \A i \in 1 .. n - 1 + 1 : SubSeq(p, 1, n)[i] = p[1 + i - 1]
  BY <1>1, <1>2, SubSeqProperties
<1>4. PICK q : q = SubSeq(p, 1, n)
  OBVIOUS
<1>5. q \in Seq(Attempts) /\ Len(q) = n /\ \A i \in 1 .. n : q[i] = p[i]
  <2>1. \A i \in 1 .. n : i \in 1 .. n - 1 + 1 /\ 1 + i - 1 = i
    BY <1>1
  <2> QED BY <1>1, <1>3, <1>4, <2>1
<1>6. Begins(q, p)
  BY <1>1, <1>5 DEF Begins
<1>7. ASSUME n = Len(p) PROVE q = p
  BY <1>5, <1>7, SeqEqual
<1> QED BY <1>4, <1>6, <1>7

\* So the series has a point wherever the pool has, and its last is there.
LEMMA SeriesEnds ==
  ASSUME NEW p \in Seq(Attempts), Len(p) <= MaxPool, NEW test
  PROVE  LatestPoint(p, test) = SeriesLatest(p, test)
<1> DEFINE n == Len(p)
<1>1. n \in Nat /\ Series(p, test) = {k \in 1 .. n : Selected(SubSeq(p, 1, k), test) # None}
  BY DEF Series
<1>2. CASE n = 0
  <2>1. p = <<>> /\ Series(p, test) = {}
    BY <1>1, <1>2, EmptySeq
  <2> QED BY <2>1 DEF LatestPoint, SeriesLatest
<1>3. CASE n # 0 /\ Selected(p, test) = None
  <2>1. \A k \in 1 .. n : Selected(SubSeq(p, 1, k), test) = None
    BY <1>3, PrefixBegins, StaysEnough
  <2>2. Series(p, test) = {}
    BY <1>1, <2>1
  <2> QED BY <1>3, <2>2 DEF LatestPoint, SeriesLatest
<1>4. CASE n # 0 /\ Selected(p, test) # None
  <2>1. n \in 1 .. n /\ SubSeq(p, 1, n) = p
    BY <1>1, <1>4, PrefixBegins
  <2>2. n \in Series(p, test)
    BY <1>1, <1>4, <2>1
  <2>3. PICK S : S = Series(p, test)
    OBVIOUS
  <2>4. \A k \in S : k \in 0 .. n /\ k <= n
    BY <1>1, <2>3
  <2>5. S \in SUBSET (0 .. n) /\ S # {}
    BY <2>2, <2>3, <2>4
  <2>6. PICK x : x = Max(S)
    OBVIOUS
  <2>7. x \in S /\ \A k \in S : x >= k
    BY <1>1, <2>5, <2>6, GreatestOf
  <2>8. x = n
    BY <1>1, <2>2, <2>3, <2>4, <2>7
  <2>9. p # <<>>
    BY <1>4
  <2>10. SeriesLatest(p, test) = [at |-> x, counted |-> Selected(SubSeq(p, 1, x), test)]
    BY <2>3, <2>5, <2>6 DEF SeriesLatest
  <2> QED BY <1>4, <2>1, <2>8, <2>9, <2>10 DEF LatestPoint
<1> QED BY <1>2, <1>3, <1>4

\* The pool holds attempts, and no more than the bound.
PoolFits == pool \in Seq(Attempts) /\ Len(pool) <= MaxPool

\* An attempt leaves a pool of attempts within the bound.
LEMMA AttemptFits == ASSUME PoolFits, Attempt PROVE PoolFits'
<1>1. PICK a \in Attempts : pool' = Append(pool, a)
  BY DEF Attempt
<1>2. pool \in Seq(Attempts) /\ Len(pool) < MaxPool /\ Len(pool) \in Nat /\ MaxPool \in Nat
  BY CountsAssumption DEF PoolFits, Attempt
<1>3. pool' \in Seq(Attempts) /\ Len(pool') = Len(pool) + 1
  BY <1>1, <1>2, AppendProperties
<1>4. Len(pool') <= MaxPool
  BY <1>2, <1>3
<1> QED BY <1>3, <1>4 DEF PoolFits

\* The score the nightly run stores is the last of the history the student's page
\* draws, and an MPL-B score is over its number of questions (snapshotLatest,
\* snapshotSeries, mplBSnapshot).
THEOREM LatestIsTheSeriesEnd == BookSpec => []LatestEndsTheSeries
<1>1. BookInit => PoolFits
  BY CountsAssumption, EmptySeq DEF BookInit, PoolFits
<1>2. ASSUME PoolFits, [BookNext]_book PROVE PoolFits'
  <2>1. CASE Attempt
    BY <1>2, <2>1, AttemptFits
  <2>2. CASE UNCHANGED pool
    BY <1>2, <2>2 DEF PoolFits
  <2>3. SeedLetter \/ Grade \/ SayAge \/ UNCHANGED book => UNCHANGED pool
    BY DEF SeedLetter, Grade, SayAge, book
  <2> QED BY <1>2, <2>1, <2>2, <2>3 DEF BookNext
<1>3. ASSUME PoolFits PROVE LatestEndsTheSeries
  <2>1. PICK p : p = pool
    OBVIOUS
  <2>2. p \in Seq(Attempts) /\ Len(p) <= MaxPool
    BY <1>3, <2>1 DEF PoolFits
  <2>3. \A test \in {"nipun", "mplB"} : LatestPoint(p, test) = SeriesLatest(p, test)
    BY <2>2, SeriesEnds
  <2>4. MplBSelected(p) # None => Cardinality(MplBSelected(p)) = MplBCount
    BY <2>2, MplBIs
  <2> QED BY <2>1, <2>3, <2>4 DEF LatestEndsTheSeries
<1> QED BY <1>1, <1>2, <1>3, PTL DEF BookSpec
===============================================================================
