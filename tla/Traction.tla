-------------------------------- MODULE Traction -------------------------------
(***************************************************************************)
(* The public traction series: what buildTraction makes of the nightly      *)
(* results and of the students onboarded, and how TractionService serves    *)
(* it: one copy a day under the day's key, one computation at a time in a   *)
(* process, which visitors share, and the warm job that computes the day's  *)
(* copy again once the night's results are there.  The flows by day and by  *)
(* month are sums over UsageTime's days and left out.                       *)
(***************************************************************************)
EXTENDS Integers, Sequences, FiniteSets, SequencesExt

CONSTANTS Students, Processes,
          LastDay,   \* bound: days of a behaviour
          NoCopy

ASSUME TractionAssumption == IsFiniteSet(Students) /\ LastDay \in Nat \ {0}

VARIABLES today,      \* the IST day
          results,    \* test_results_student: a student's nightly verdicts
          nightsOver, \* days whose nightly results are all there
          joined,     \* the day each student was onboarded on
          copies,     \* the cache, by day
          flight,     \* each process's computation under way
          warmed      \* ghost: days warmed after the night, see Warm

tractionVars == <<today, results, nightsOver, joined, copies, flight, warmed>>

-----------------------------------------------------------------------------
(* buildTraction.                                                          *)

\* In date order; of one date, in any.
ByDate(rows) ==
  CHOOSE q \in SetToSeqs(rows) : \A i, j \in DOMAIN q : i < j => q[i].for <= q[j].for

Until(x) == x + 1

NoVerdicts == [latest |-> [s \in Students |-> FALSE], passing |-> 0]

WithVerdict(acc, r) ==
  [latest  |-> [acc.latest EXCEPT ![r.student] = r.passed],
   passing |-> acc.passing + (IF r.passed THEN 1 ELSE 0)
                           - (IF acc.latest[r.student] THEN 1 ELSE 0)]

\* The sweep of the nightly rows: the latest verdict of each student, and how many
\* of them are passes.
Swept(rows, x) ==
  FoldLeft(WithVerdict, NoVerdicts, ByDate({r \in rows : r.for <= Until(x)})).passing

\* stock: those whose first day is not after the day x.
Stock(firsts, x) == Cardinality({s \in DOMAIN firsts : firsts[s] # 0 /\ firsts[s] <= x})

\* The complete days up to yesterday.
Series(rows, firsts, day) ==
  [to |-> day - 1,
   passed   |-> [x \in 1 .. day - 1 |-> Swept(rows, x)],
   students |-> [x \in 1 .. day - 1 |-> Stock(firsts, x)]]

-----------------------------------------------------------------------------
(* The days, and TractionService.                                          *)

NoFlight == [day |-> 0, after |-> FALSE, warm |-> FALSE, read |-> NoCopy]

TractionInit ==
  /\ today = 1 /\ results = {} /\ nightsOver = {}
  /\ joined = [s \in Students |-> 0]
  /\ copies = [d \in 1 .. LastDay |-> NoCopy]
  /\ flight = [p \in Processes |-> NoFlight] /\ warmed = {}

NextDay ==
  /\ today < LastDay /\ today' = today + 1
  /\ UNCHANGED <<results, nightsOver, joined, copies, flight, warmed>>

Onboard(s) ==
  /\ joined[s] = 0 /\ joined' = [joined EXCEPT ![s] = today]
  /\ UNCHANGED <<today, results, nightsOver, copies, flight, warmed>>

\* The nightly job stores the verdicts of the students it considers, one by one.
StoreResult(s) ==
  /\ joined[s] # 0 /\ today \notin nightsOver
  /\ \A r \in results : r.student = s => r.for # today
  /\ \E passed \in BOOLEAN :
       results' = results \cup {[student |-> s, for |-> today, passed |-> passed]}
  /\ UNCHANGED <<today, nightsOver, joined, copies, flight, warmed>>

EndNight ==
  /\ nightsOver' = nightsOver \cup {today} /\ today \notin nightsOver
  /\ UNCHANGED <<today, results, joined, copies, flight, warmed>>

\* computeShared: a process computes once at a time.  `after`: it began after the
\* night's results were complete.
Shared(p, warm) ==
  IF flight[p] = NoFlight
  THEN [NoFlight EXCEPT !.day = today, !.after = today \in nightsOver, !.warm = warm]
  ELSE [flight[p] EXCEPT !.warm = @ \/ warm]

\* get: today's copy, or a computation for this visitor.
Visit(p) ==
  /\ copies[today] = NoCopy
  /\ flight' = [flight EXCEPT ![p] = Shared(p, FALSE)]
  /\ UNCHANGED <<today, results, nightsOver, joined, copies, warmed>>

RefreshIfMissing == copies[today] = NoCopy  \* mutant: a copy is good enough
Refresh == TRUE

\* The warm job, whose claim is about the night before it: the night was over, and
\* no process is at a computation that began before it was.
Warm(p) ==
  /\ today \notin warmed
  /\ IF Refresh THEN flight' = [flight EXCEPT ![p] = Shared(p, TRUE)] ELSE UNCHANGED flight
  /\ warmed' = IF /\ today \in nightsOver
                  /\ \A q \in Processes :
                       flight[q] = NoFlight \/ (flight[q].day = today /\ flight[q].after)
               THEN warmed \cup {today} ELSE warmed
  /\ UNCHANGED <<today, results, nightsOver, joined, copies>>

\* readInputs: the four queries run side by side, and no night ends among them.
ReadInputs(p) ==
  /\ flight[p] # NoFlight /\ flight[p].read = NoCopy
  /\ flight' = [flight EXCEPT ![p].read = Series(results, joined, flight[p].day)]
  /\ UNCHANGED <<today, results, nightsOver, joined, copies, warmed>>

\* The copy goes under the key of the day the computation began on.
Land(p) ==
  /\ flight[p].read # NoCopy
  /\ copies' = [copies EXCEPT ![flight[p].day] = flight[p].read]
  /\ flight' = [flight EXCEPT ![p] = NoFlight]
  /\ UNCHANGED <<today, results, nightsOver, joined, warmed>>

\* A query or the cache fails; the warm job is not run again.
Crash(p) ==
  /\ flight[p] # NoFlight /\ flight' = [flight EXCEPT ![p] = NoFlight]
  /\ warmed' = IF flight[p].warm THEN warmed \ {flight[p].day} ELSE warmed
  /\ UNCHANGED <<today, results, nightsOver, joined, copies>>

TractionNext ==
  \/ NextDay \/ EndNight
  \/ \E s \in Students : Onboard(s) \/ StoreResult(s)
  \/ \E p \in Processes : Visit(p) \/ Warm(p) \/ ReadInputs(p) \/ Land(p) \/ Crash(p)

TractionSpec == TractionInit /\ [][TractionNext]_tractionVars

-----------------------------------------------------------------------------
\* Those whose latest verdict of the days up to d is a pass.
PassingAsOf(d) ==
  {s \in Students : \E r \in results :
     /\ r.student = s /\ r.for <= d /\ r.passed
     /\ \A o \in results : o.student = s /\ o.for <= d => o.for <= r.for}

\* traction.service.ts, the warm job overwrites the day's key "so no visitor waits
\* and the MPL-B figure includes last night's results": once it is through, the copy
\* every visitor of the day gets counts the verdicts of that very night, whatever
\* copy there was before, in whichever process, and whoever shares the computation.
WarmedWithTheNight ==
  \A d \in warmed :
    (\A p \in Processes : flight[p].day # d) /\ d > 1 =>
      /\ copies[d] # NoCopy
      /\ copies[d].passed[d - 1] = Cardinality(PassingAsOf(d))
=============================================================================
