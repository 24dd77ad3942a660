--------------------------- MODULE NightlyResults ---------------------------
(* The nightly scoring of every student and its roll-up to schools and areas
   (literacy/score/test-results.service.ts, the processor beside it, the
   test-results worker of main.ts, and scripts/backfill-usage.ts).

   An answer stands for whatever a night scores: a finished lesson, a tapped
   comprehension answer, an ASER note.  A result row keeps the answers its
   scores were read from, and a student counts as scored when there are any.
   Timestamps are the values of one logical clock. *)
EXTENDS Integers, FiniteSets, FiniteSetsExt

CONSTANTS
  Students,
  Home,          \* the school everyone starts in
  Schools,       \* the geo entities students are referred into
  Area,          \* the block above every school
  Nowhere,       \* a referrer without a geo entity, or no referrer
  Nothing,       \* no row, no job
  BatchSize,     \* STUDENT_BATCH_SIZE
  GeoBatchSize,  \* GEO_BATCH_SIZE
  FirstNight,    \* the first day the nightly exists
  MaxDay, MaxAnswers,                \* bounds: dates, answers,
  MaxFailures, MaxManual, MaxMoves,  \* failures, manual runs, transfers,
  MaxScripts,                        \* batches of the backfill script,
  MaxTrouble                         \* and the four together

ASSUME AreasDiffer == Home \in Schools /\ Area \notin Schools /\ Nowhere \notin Schools \cup {Area}
\* Nothing is no row.
ASSUME NothingAssumption == Nothing \notin [at : Nat, counted : SUBSET Nat]
ASSUME TablesAssumption == IsFiniteSet(Students) /\ IsFiniteSet(Schools)
ASSUME BoundsAssumption ==
  /\ {BatchSize, GeoBatchSize, FirstNight} \subseteq Nat \ {0}
  /\ {MaxDay, MaxAnswers, MaxFailures, MaxManual, MaxMoves, MaxScripts, MaxTrouble} \subseteq Nat

VARIABLES
  day,       \* the IST date
  now,       \* the clock behind created_at
  midnight,  \* when each date began: its 00:15 IST, the nightly's instant
  answers,   \* student -> the times of the answers in the database
  school,    \* student -> the geo entity of the referrer
  results,   \* test_results_student: student -> date -> row
  geo,       \* test_results_geo_entity of the last date a run wrote; with the
             \* scored students who were on the block itself, whether a student
             \* has left a school since its first row (left) and whether some
             \* rows of the last run are still to be written (torn)
  jobs,      \* the test-results queue
  run,       \* the run under way
  wreck,     \* the crashed run whose row still says running, under 6 h old: of
             \* the "early" hours of the date, or "late"
  slipped,   \* answers that arrived between the reading of a batch and its stamp
  moved,     \* a student changed school since the date's first roll-up
  used       \* failures, manual runs, moves and backfilled batches so far

vars == <<day, now, midnight, answers, school, results, geo, jobs, run, wreck,
          slipped, moved, used>>

Days == 0..MaxDay
Places == Schools \cup {Area, Nowhere}
Areas == Schools \cup {Area}
Idle == [at |-> "idle", kind |-> Nothing]
Zero == [scored |-> 0, cohort |-> 0]
NoRows == [a \in Areas |-> Zero]

Init ==
  /\ day = 0 /\ now = 0
  /\ midnight = [d \in Days |-> 0]
  /\ answers = [s \in Students |-> {}]
  /\ school = [s \in Students |-> Home]
  /\ results = [s \in Students |-> [d \in Days |-> Nothing]]
  /\ geo = [date |-> 0, left |-> FALSE, torn |-> FALSE, onBlock |-> 0, rows |-> NoRows]
  /\ jobs = {} /\ run = Idle /\ wreck = Nothing
  /\ slipped = {}
  /\ moved = FALSE
  /\ used = [failures |-> 0, manual |-> 0, moves |-> 0, scripts |-> 0]

-----------------------------------------------------------------------------
(* Rows *)

RowsOf(s) == {results[s][d] : d \in Days} \ {Nothing}

\* DISTINCT ON (student_id) ... ORDER BY created_at DESC
Latest(s) == CHOOSE r \in RowsOf(s) : \A other \in RowsOf(s) : r.at >= other.at

\* A mutant: only what came in since yesterday's midnight.
CandidatesToday(full) ==
  {s \in Students : full \/ \E a \in answers[s] : a > midnight[day - 1]}

\* Students with an answer newer than their latest row, or with no row yet;
\* everyone when the run is full.
Candidates(full) ==
  {s \in Students : full \/ \E a \in answers[s] : \A r \in RowsOf(s) : a > r.at}

-----------------------------------------------------------------------------
(* The world: answers, transfers, the calendar *)

Trouble == used.failures + used.manual + used.moves + used.scripts < MaxTrouble

InFlight(s) == run.at = "batch" /\ s \in DOMAIN run.read

Answer(s) ==
  /\ Cardinality(UNION {answers[t] : t \in Students}) < MaxAnswers
  /\ day < MaxDay - MaxFailures
  /\ now' = now + 1
  /\ answers' = [answers EXCEPT ![s] = @ \cup {now'}]
  /\ slipped' = IF InFlight(s) THEN slipped \cup {<<s, now'>>} ELSE slipped
  /\ UNCHANGED <<day, midnight, school, results, geo, jobs, run, wreck, moved, used>>

\* A teacher is attached to another school, or the student to another teacher.
Move(s) ==
  /\ used.moves < MaxMoves /\ Trouble
  /\ \E place \in Places \ {school[s]} : school' = [school EXCEPT ![s] = place]
  /\ used' = [used EXCEPT !.moves = @ + 1]
  /\ moved' = TRUE
  /\ UNCHANGED <<day, now, midnight, answers, results, geo, jobs, run, wreck, slipped>>

\* 00:15 IST.  The night before is long over: a run takes minutes, and a
\* running row it left behind is a day old.  That of a late manual run may be fresh.
Night ==
  /\ day < MaxDay
  /\ \A j \in jobs : j.kind = "manual"
  /\ run.kind # "nightly" /\ wreck # "early"
  /\ day' = day + 1 /\ now' = now + 1
  /\ midnight' = [midnight EXCEPT ![day'] = now']
  /\ jobs' = IF day' < FirstNight THEN jobs
             ELSE jobs \cup {[kind |-> "nightly", full |-> FALSE]}
  /\ wreck' = IF wreck = Nothing THEN Nothing ELSE "early"
  /\ UNCHANGED <<answers, school, results, geo, run, slipped, moved, used>>

\* A mutant: a running row blocks for ever.
SixHoursNever == FALSE /\ UNCHANGED vars

\* STALE_RUN_HOURS pass over the row of a crashed run.
SixHours ==
  /\ wreck # Nothing /\ jobs = {} /\ run.at = "idle"
  /\ wreck' = Nothing
  /\ UNCHANGED <<day, now, midnight, answers, school, results, geo, jobs, run,
                 slipped, moved, used>>

-----------------------------------------------------------------------------
(* The queue *)

IsRunning == run.at # "idle" \/ wreck # Nothing

\* POST /admin/test-results/run
Manual(full) ==
  /\ used.manual < MaxManual /\ Trouble /\ day >= FirstNight
  /\ ~IsRunning /\ ~\E j \in jobs : j.kind = "manual"
  /\ jobs' = jobs \cup {[kind |-> "manual", full |-> full]}
  /\ used' = [used EXCEPT !.manual = @ + 1]
  /\ UNCHANGED <<day, now, midnight, answers, school, results, geo, run, wreck,
                 slipped, moved>>

\* The worker takes a job; one whose run finds another under way is dropped.
Take(job) ==
  /\ job \in jobs /\ run.at = "idle"
  /\ jobs' = jobs \ {job}
  /\ run' = IF IsRunning THEN Idle
            ELSE [at |-> "candidates", kind |-> job.kind, full |-> job.full, date |-> day]
  /\ wreck' = IF wreck # Nothing /\ job.kind = "nightly" THEN "early" ELSE wreck
  /\ UNCHANGED <<day, now, midnight, answers, school, results, geo, slipped, moved, used>>

-----------------------------------------------------------------------------
(* The run *)

SelectCandidates ==
  /\ run.at = "candidates"
  /\ run' = [at |-> "students", kind |-> run.kind, date |-> run.date,
             todo |-> Candidates(run.full), asked |-> answers]
  /\ UNCHANGED <<day, now, midnight, answers, school, results, geo, jobs, wreck,
                 slipped, moved, used>>

\* scoreBatch reads the answers of a batch ...
ReadBatch ==
  /\ run.at = "students" /\ run.todo # {}
  /\ \E batch \in SUBSET run.todo :
       /\ Cardinality(batch) = Min({BatchSize, Cardinality(run.todo)})
       /\ run' = [at |-> "batch", kind |-> run.kind, date |-> run.date,
                  todo |-> run.todo \ batch, asked |-> run.asked,
                  read |-> [s \in batch |-> answers[s]]]
  /\ UNCHANGED <<day, now, midnight, answers, school, results, geo, jobs, wreck,
                 slipped, moved, used>>

\* ... and writes their rows of the date, stamped now().
UpsertBatch ==
  /\ run.at = "batch"
  /\ now' = now + 1
  /\ results' = [s \in Students |->
       IF s \in DOMAIN run.read
       THEN [results[s] EXCEPT ![run.date] = [at |-> now', counted |-> run.read[s]]]
       ELSE results[s]]
  /\ run' = [at |-> "students", kind |-> run.kind, date |-> run.date,
             todo |-> run.todo, asked |-> run.asked]
  /\ UNCHANGED <<day, midnight, answers, school, geo, jobs, wreck, slipped, moved, used>>

\* A mutant: the leaf alone.
LeafOnly(place) == {place} \ {Nowhere}

\* Where a student's vector is added: the leaf and everything above it.  A
\* referrer may be attached to the block itself.
Path(place) == IF place \in Schools THEN {place, Area} ELSE {place} \ {Nowhere}

\* Whose latest row has a score.
Scored == {s \in Students : RowsOf(s) # {} /\ Latest(s).counted # {}}

\* studentVector of every student's latest row, at the referrer's current place.
ScoredAt(area) == Cardinality({s \in Scored : area \in Path(school[s])})

\* Those among them straight on the block, which is no school.
OnTheBlock == Cardinality({s \in Scored : school[s] = Area})

\* cohortVector of every student referred there, scored or not.
CohortAt(area) == Cardinality({s \in Students : area \in Path(school[s])})

\* Answers older than a newest row that has no score: no run but a full one reads
\* them again.
Veiled(s) ==
  IF RowsOf(s) # {} /\ Latest(s).counted = {} THEN {a \in answers[s] : a <= Latest(s).at}
  ELSE {}

\* aggregateGeo reads the latest rows ...
ReadLatest ==
  /\ run.at = "students" /\ run.todo = {}
  /\ run' = [at |-> "cohort", kind |-> run.kind, date |-> run.date, asked |-> run.asked,
             scored |-> [a \in Areas |-> ScoredAt(a)], onBlock |-> OnTheBlock,
             veiled |-> [s \in Students |-> Veiled(s)],
             kept |-> [s \in Students |-> IF RowsOf(s) = {} THEN {} ELSE Latest(s).counted]]
  /\ moved' = (moved /\ geo.date = run.date)
  /\ UNCHANGED <<day, now, midnight, answers, school, results, geo, jobs, wreck,
                 slipped, used>>

\* ... then, in a query of its own, who belongs to each school; an area that has
\* anyone gets a row.
ReadCohort ==
  LET vectors == [a \in Areas |-> [scored |-> run.scored[a], cohort |-> CohortAt(a)]]
  IN /\ run.at = "cohort"
     /\ run' = [at |-> "write", kind |-> run.kind, date |-> run.date, asked |-> run.asked,
                kept |-> run.kept, veiled |-> run.veiled, onBlock |-> run.onBlock,
                vectors |-> vectors,
                todo |-> {a \in Areas : vectors[a] # Zero}]
     /\ UNCHANGED <<day, now, midnight, answers, school, results, geo, jobs, wreck,
                    slipped, moved, used>>

\* ... and writes the rows, a chunk at a time.  A row the same date already has
\* for an area that now has no one stays as it was.
WriteGeo ==
  LET old == IF geo.date = run.date THEN geo ELSE [rows |-> NoRows, left |-> FALSE]
  IN /\ run.at = "write" /\ run.todo # {}
     /\ \E chunk \in SUBSET run.todo :
          /\ Cardinality(chunk) = Min({GeoBatchSize, Cardinality(run.todo)})
          /\ geo' = [date |-> run.date, left |-> old.left \/ moved,
                     torn |-> chunk # run.todo, onBlock |-> run.onBlock,
                     rows |-> [a \in Areas |->
                                 IF a \in chunk THEN run.vectors[a] ELSE old.rows[a]]]
          /\ run' = [run EXCEPT !.todo = @ \ chunk]
     /\ UNCHANGED <<day, now, midnight, answers, school, results, jobs, wreck, slipped,
                    moved, used>>

Finish ==
  /\ run.at = "write" /\ run.todo = {}
  /\ run' = Idle
  /\ UNCHANGED <<day, now, midnight, answers, school, results, geo, jobs, wreck,
                 slipped, moved, used>>

\* A query of the run fails: the row says failed and the job is not tried again.
Fail ==
  /\ run.at # "idle" /\ used.failures < MaxFailures /\ Trouble
  /\ run' = Idle
  /\ used' = [used EXCEPT !.failures = @ + 1]
  /\ UNCHANGED <<day, now, midnight, answers, school, results, geo, jobs, wreck,
                 slipped, moved>>

\* The process dies: the row goes on saying running, and the queue gives the
\* stalled job to the worker again.
Crash ==
  /\ run.at # "idle" /\ used.failures < MaxFailures /\ Trouble
  /\ run' = Idle
  /\ wreck' = IF run.kind = "nightly" THEN "early" ELSE "late"
  /\ jobs' = jobs \cup {[kind |-> run.kind, full |-> FALSE]}
  /\ used' = [used EXCEPT !.failures = @ + 1]
  /\ UNCHANGED <<day, now, midnight, answers, school, results, geo, slipped, moved>>

-----------------------------------------------------------------------------
(* scripts/backfill-usage.ts, by hand and at any time, over days up to today: a
   row without scores, stamped with the nightly's instant of the date, for
   every student who was active the day before.  A row the student already has
   of the date keeps its scores and its stamp. *)

HistoricalStamp(d) == midnight[d]

\* A batch of upsertStudentUsage.  The script may die after any of them; what it
\* writes of the areas is the usage columns, on rows that otherwise count no one.
BackfillBatch(d) ==
  LET active == {s \in Students : /\ results[s][d] = Nothing
                                  /\ \E a \in answers[s] : midnight[d - 1] <= a /\ a < midnight[d]}
  IN /\ used.scripts < MaxScripts /\ Trouble
     /\ \E batch \in SUBSET active \ {{}} :
          /\ Cardinality(batch) <= BatchSize
          /\ results' = [s \in Students |->
               IF s \in batch
               THEN [results[s] EXCEPT ![d] = [at |-> HistoricalStamp(d), counted |-> {}]]
               ELSE results[s]]
     /\ used' = [used EXCEPT !.scripts = @ + 1]
     /\ UNCHANGED <<day, now, midnight, answers, school, geo, jobs, run, wreck, slipped,
                    moved>>

Worker == (\E job \in jobs : Take(job)) \/ SelectCandidates \/ ReadBatch \/ UpsertBatch
          \/ ReadLatest \/ ReadCohort \/ WriteGeo \/ Finish

Next ==
  \/ \E s \in Students : Answer(s) \/ Move(s)
  \/ Night \/ SixHours
  \/ \E full \in BOOLEAN : Manual(full)
  \/ Worker \/ Fail \/ Crash
  \/ \E d \in 1..day : BackfillBatch(d)

Spec == Init /\ [][Next]_vars
Fairness == WF_vars(Worker) /\ WF_vars(Night) /\ WF_vars(SixHours)

FairSpec == Spec /\ Fairness
-----------------------------------------------------------------------------
(* Properties *)

Known(s) == IF RowsOf(s) = {} THEN {} ELSE Latest(s).counted

Slipped(s) == {a \in 1..now : <<s, a>> \in slipped}

\* What a night rolls up of a student holds every answer that was in the
\* database when the night chose whom to score, whatever earlier nights
\* failed, crashed, were dropped or were run by hand -- but for the answers that
\* slipped between the reading of a student's batch and the stamp of its row,
\* and, where the usage backfill wrote the student's newest row, those older
\* than that row (candidates, scoreBatch, upsertStudentUsage).
MissedIsPickedUp ==
  run.at \in {"cohort", "write"} =>
    \A s \in Students : run.asked[s] \subseteq run.kept[s] \cup Slipped(s) \cup run.veiled[s]

SchoolsTotal(rows) == MapThenSumSet(LAMBDA a : rows[a].scored, Schools)

\* Once a run has written all its rows an area's row is the sum of the rows of
\* its schools and of the students on the block itself, also after a run of the
\* same date that stopped between two chunks -- unless a student changed school
\* since the first: the row of a school everyone left is not written again
\* (aggregateGeo, upsertGeoRows).
AreaIsTheSum ==
  ~geo.left /\ ~geo.torn =>
    geo.rows[Area].scored = SchoolsTotal(geo.rows) + geo.onBlock

\* Every answer is counted in the end, in spite of failed and crashed runs: a
\* crashed run's row stops blocking, and a failed night's students are chosen
\* again -- but for the exceptions of MissedIsPickedUp (isRunning,
\* STALE_RUN_HOURS, candidates).
EveryoneIsScored ==
  <>[](\A s \in Students : answers[s] \subseteq Known(s) \cup Slipped(s) \cup Veiled(s))
=============================================================================
