------------------------------- MODULE UsageTime -------------------------------
(***************************************************************************)
(* How long a student was active, and the milestones a turn's reply         *)
(* announces: the gap rule of active-time.ts over voice notes and taps, the *)
(* sums by day and by window of user-activity.service.ts, and               *)
(* usageMilestoneStids, which each lesson turn computes after its own row   *)
(* is in and before its reply is sent.  A turn whose window at wabot has    *)
(* expired is rolled back, which takes its row out of every sum, perhaps    *)
(* after the next turn has computed its own.                                *)
(***************************************************************************)
EXTENDS Integers, FiniteSets, FiniteSetsExt

CONSTANTS DayLength,       \* an IST day
          VoiceAllowance,  \* ACTIVE_GAP_THRESHOLD_MS
          TapAllowance,    \* TAP_ACTIVE_GAP_THRESHOLD_MS
          DayMarks,        \* ACTIVE_MINUTE_THRESHOLDS
          TotalMarks,      \* ACTIVE_HOUR_THRESHOLDS
          StreakMin,       \* STREAK_DAY_MIN_ACTIVE_MS
          MaxStreak,       \* MAX_STREAK_DAYS
          LastMoment,      \* bound: moments of a behaviour
          MaxLate          \* bound: turns not answered at the moment they came

ASSUME UsageAssumption ==
  /\ DayLength \in Nat \ {0} /\ LastMoment \in Nat /\ MaxLate \in Nat
  /\ VoiceAllowance \in Nat /\ TapAllowance \in Nat /\ VoiceAllowance <= TapAllowance
  /\ DayMarks \subseteq Nat \ {0} /\ TotalMarks \subseteq Nat \ {0}
  /\ StreakMin \in Nat \ {0} /\ MaxStreak \in Nat
\* No gap that counts spans two marks.
ASSUME MarksAssumption ==
  \A marks \in {DayMarks, TotalMarks} : \A m, n \in marks : m < n => n - m >= TapAllowance

VARIABLES clock,   \* the moment
          events,  \* the student's voice notes and taps
          told     \* ghost: milestones that the student was told of

usageVars == <<clock, events, told>>

DayOf(t) == t \div DayLength

\* ACTIVITY_EVENT_SQL: a row that is rolled back is no activity.
Live == {e \in events : e.fate # "undone"}

-----------------------------------------------------------------------------
(* The sums.                                                               *)

\* COUNTED_GAP_SQL, and activeMs' test: the event that ends the gap allows it.
Counted(gap, tap) == gap > 0 /\ gap < IF tap THEN TapAllowance ELSE VoiceAllowance

\* LAG(created_at): what the event e adds, when the one before it is of its day.
GapOfDay(e, es) ==
  LET earlier == {p \in es : p.at < e.at}
      prev    == Max({p.at : p \in earlier})
  IN  IF earlier # {} /\ DayOf(prev) = DayOf(e.at) /\ Counted(e.at - prev, e.tap)
      THEN e.at - prev ELSE 0

\* per_user_day: the active time of one IST day.
DayActive(es, d) ==
  MapThenSumSet(LAMBDA e : GapOfDay(e, es), {e \in es : DayOf(e.at) = d})

TotalActive(es) == MapThenSumSet(LAMBDA e : GapOfDay(e, es), es)

-----------------------------------------------------------------------------
(* getTodayActiveTime and usageMilestoneStids.                             *)

Latest(es)    == CHOOSE e \in es : \A o \in es : o.at <= e.at
LatestGap(es) == GapOfDay(Latest(es), es)

WithoutLatestAlways(es, today) == DayActive(es, today)  \* mutant: nothing is taken off
\* Today's active time without what the latest event added.
WithoutLatest(es, today) ==
  IF DayOf(Latest(es).at) = today THEN DayActive(es, today) - LatestGap(es)
                                  ELSE DayActive(es, today)

StreakDay(es, d) == DayActive(es, d) >= StreakMin

\* The days in a row before today that count towards a streak.
PriorStreak(es, today) ==
  LET breaks == {d \in 0 .. today - 1 : ~StreakDay(es, d)}
  IN  IF breaks = {} THEN today ELSE today - 1 - Max(breaks)

\* The lowest mark that the latest turn reached, if it reached any.
Reached(marks, without, with) ==
  LET crossed == {m \in marks : without < m /\ m <= with}
  IN  IF crossed = {} THEN {} ELSE {Min(crossed)}

Milestones(es, today) ==
  LET with    == DayActive(es, today)
      without == WithoutLatest(es, today)
      streak  == PriorStreak(es, today) + 1
      stid(kind, n) == [kind |-> kind, n |-> n, day |-> today]
  IN  {stid("minutes", m) : m \in Reached(DayMarks, without, with)}
      \cup {stid("streak", n) : n \in
              {k \in {streak} : /\ without < StreakMin /\ StreakMin <= with
                                /\ k \in 2 .. MaxStreak}}
      \cup {stid("hours", h) : h \in
              Reached(TotalMarks, TotalActive(es) - LatestGap(es), TotalActive(es))}

-----------------------------------------------------------------------------
UsageInit == clock = 0 /\ events = {} /\ told = {}

Late == {e \in events : e.fate # "answered" \/ e.done # e.at}

Tick ==
  /\ clock < LastMoment /\ clock' = clock + 1
  /\ Cardinality(Late) <= MaxLate
  /\ UNCHANGED <<events, told>>

\* wabot hands over one message at a time, until it gives up on it.
TakeTurn(tap) ==
  /\ \A e \in events : e.fate # "open" /\ e.at # clock
  /\ events' = events \cup {[at |-> clock, tap |-> tap, fate |-> "open", done |-> 0]}
  /\ UNCHANGED <<clock, told>>

Becomes(e, fate) ==
  events' = (events \ {e}) \cup {[e EXCEPT !.fate = fate, !.done = clock]}

GiveUp(e) ==
  /\ e.fate = "open" /\ Cardinality(Late) <= MaxLate
  /\ Becomes(e, "late")
  /\ UNCHANGED <<clock, told>>

\* The reply is built and delivered.
Answer(e) ==
  /\ e.fate = "open" /\ Becomes(e, "answered")
  /\ told' = told \cup {[what |-> m, by |-> e.at] : m \in Milestones(Live, DayOf(clock))}
  /\ UNCHANGED clock

\* Its reply comes too late and the turn is rolled back, or it fails for good.
Undo(e) ==
  /\ e.fate = "late" /\ \E fate \in {"undone", "failed"} : Becomes(e, fate)
  /\ UNCHANGED <<clock, told>>

UsageNext ==
  \/ Tick
  \/ \E tap \in BOOLEAN : TakeTurn(tap)
  \/ \E e \in events : GiveUp(e) \/ Answer(e) \/ Undo(e)

UsageSpec == UsageInit /\ [][UsageNext]_usageVars

-----------------------------------------------------------------------------
Days == 0 .. DayOf(LastMoment)

\* Every turn of the day was over, answered or rolled back, on that day and before
\* the next one came.
Calm(d) ==
  \A e \in {x \in events : DayOf(x.at) = d} :
    /\ e.fate \in {"answered", "undone"} /\ DayOf(e.done) = d
    /\ \A o \in events : ~(e.at < o.at /\ o.at <= e.done)

ToldOf(kind, n) == {t \in told : t.what.kind = kind /\ t.what.n = n}

\* user-activity.service.ts, a crossing is detected "exactly once per day": on a
\* calm day the student hears of each mark reached that day once, by the turn that
\* reached it, and of no other; over calm days alone the same of the total.
EachMarkOnce ==
  /\ \A d \in Days, m \in DayMarks : Calm(d) =>
       Cardinality({t \in ToldOf("minutes", m) : t.what.day = d})
         = IF DayActive(Live, d) >= m THEN 1 ELSE 0
  /\ (\A d \in Days : Calm(d)) => \A h \in TotalMarks :
       Cardinality(ToldOf("hours", h)) = IF TotalActive(Live) >= h THEN 1 ELSE 0

=============================================================================
