-------------------------- MODULE OnboardingMachine --------------------------
(***************************************************************************)
(* The consent questions of onboarding.machine.ts as a pure step function  *)
(* on persisted snapshots, and the staff page's reading of two consecutive *)
(* snapshots (onboarding-turns.ts).  A snapshot is what one row of the     *)
(* table onboarding_states stores: the machine state after the turn and    *)
(* its context.  Wording, prompts and the LLM are left out: a reply        *)
(* arrives already classified, as the value the machine is sent.           *)
(***************************************************************************)
EXTENDS Integers, Sequences

CONSTANTS Names,           \* the names a parent may say
          Ages,            \* the ages in MIN_AGE..MAX_AGE a parent may say
          Months,          \* the months a parent may say
          Null,            \* a context field that is not set
          None,            \* NONE: no name, no month in the reply
          Unintelligible   \* UNINTELLIGIBLE

ASSUME AnswersAssumption ==
  /\ Ages \subseteq Int
  /\ Months \subseteq 1 .. 12
  /\ Null \notin Names /\ Null \notin Int
  /\ None \notin Names /\ None \notin Int
  /\ Unintelligible \notin Int
  /\ Unintelligible \notin {"YES", "NO", "INFORMATION"}

OnboardingStateName ==
  {"askGuardian", "askConsent", "consentRefused", "declined",
   "askName", "askAge", "askMonth", "done"}

\* The states that may only be entered once consent was given.
AfterConsent == {"askName", "askAge", "askMonth", "done"}

Stids ==
  {<<"ask-guardian">>, <<"ask-guardian-retry">>, <<"ask-consent">>,
   <<"consent-info">>, <<"consent-refused">>, <<"declined">>, <<"ask-name">>,
   <<"ask-age">>, <<"ask-month">>, <<"complete">>}
    \cup {<<"unintelligible", s>> :
            s \in {"ask-guardian", "ask-consent", "consent-refused", "ask-age"}}

Snapshots ==
  [value : OnboardingStateName, stids : Stids, studentName : Names \cup {Null},
   birthYear : Int \cup {Null}, birthMonth : Months \cup {Null}]

\* The snapshot of a machine that has just started.
StartSnapshot ==
  [value |-> "askGuardian", stids |-> <<"ask-guardian">>, studentName |-> Null,
   birthYear |-> Null, birthMonth |-> Null]

(***************************************************************************)
(* What the classifier can hand the machine in each state: the options of  *)
(* its `interpret`, and the fallback of normalizeClassification.           *)
(***************************************************************************)
Readings(q) ==
  CASE q \in {"askGuardian", "consentRefused"} -> {"YES", "NO", Unintelligible}
    [] q = "askConsent" -> {"YES", "NO", "INFORMATION", Unintelligible}
    [] q = "askName"    -> Names \cup {None}
    [] q = "askAge"     -> Ages \cup {Unintelligible}
    [] q = "askMonth"   -> Months \cup {None}
    [] OTHER            -> {Null}

\* askConsent: tell me more and an unread reply ask again.
ConsentTargetUnlessYes(v) ==   \* mutant: a no is taken for a yes
  IF v \in {"YES", "NO"} THEN "askName" ELSE "askConsent"

ConsentTarget(v) ==
  CASE v = "YES" -> "askName"
    [] v = "NO"  -> "consentRefused"
    [] OTHER     -> "askConsent"

\* askAge: only an age in range is let through.
AgeTarget(v) == IF v \in Ages THEN "askMonth" ELSE "askAge"

\* The state a reply v to question q leads to.
Target(q, v) ==
  CASE q = "askGuardian"    -> IF v = "YES" THEN "askConsent" ELSE q
    [] q = "askConsent"     -> ConsentTarget(v)
    [] q = "consentRefused" -> CASE v = "YES" -> "askConsent"
                                 [] v = "NO"  -> "declined"
                                 [] OTHER     -> q
    [] q = "declined"       -> "askConsent"
    [] q = "askName"        -> "askAge"
    [] q = "askAge"         -> AgeTarget(v)
    [] OTHER                -> "done"

\* askGuardian: a no is answered with a media of its own.
GuardianEmitsSame(v) ==   \* mutant: a no repeats the first prompt
  CASE v = "YES" -> <<"ask-consent">>
    [] v = "NO"  -> <<"ask-guardian">>
    [] OTHER     -> <<"unintelligible", "ask-guardian">>

GuardianEmits(v) ==
  CASE v = "YES" -> <<"ask-consent">>
    [] v = "NO"  -> <<"ask-guardian-retry">>
    [] OTHER     -> <<"unintelligible", "ask-guardian">>

\* The media the turn sends back.
Emits(q, v) ==
  CASE q = "askGuardian"    -> GuardianEmits(v)
    [] q = "askConsent"     -> CASE v = "YES"         -> <<"ask-name">>
                                 [] v = "INFORMATION" -> <<"consent-info">>
                                 [] v = "NO"          -> <<"consent-refused">>
                                 [] OTHER             -> <<"unintelligible", "ask-consent">>
    [] q = "consentRefused" -> CASE v = "YES" -> <<"consent-info">>
                                 [] v = "NO"  -> <<"declined">>
                                 [] OTHER     -> <<"unintelligible", "consent-refused">>
    [] q = "declined"       -> <<"ask-consent">>
    [] q = "askName"        -> <<"ask-age">>
    [] q = "askAge"         -> IF v \in Ages THEN <<"ask-month">>
                               ELSE <<"unintelligible", "ask-age">>
    [] OTHER                -> <<"complete">>

\* The name or month a reply gave, if any.
HeardOrNull(v) == IF v = None THEN Null ELSE v

\* actor.send({ type: 'REPLY', value: v, istYear: y }) in snapshot s.
Reply(s, v, y) ==
  [value       |-> Target(s.value, v),
   stids       |-> Emits(s.value, v),
   studentName |-> IF s.value = "askName"
                   THEN HeardOrNull(v) ELSE s.studentName,
   birthYear   |-> IF s.value = "askAge" /\ v \in Ages
                   THEN y - v ELSE s.birthYear,
   birthMonth  |-> IF s.value = "askMonth"
                   THEN HeardOrNull(v) ELSE s.birthMonth]

-----------------------------------------------------------------------------
(***************************************************************************)
(* describe(prev, cur, createdAt) of onboarding-turns.ts, which recovers   *)
(* the reading from the snapshot before the turn, the one after it, and    *)
(* the year of the row's timestamp.                                        *)
(***************************************************************************)
IsStartRow(cur) ==
  cur.value = "askGuardian" /\ cur.stids = <<"ask-guardian">>

UnderstoodByTransition(q, cur, createdYear) ==
  CASE q = "askGuardian"    -> IF cur.value = "askConsent" THEN "YES" ELSE "NO"
    [] q = "askConsent"     -> CASE cur.value = "askName"        -> "YES"
                                 [] cur.value = "consentRefused" -> "NO"
                                 [] OTHER                        -> "INFORMATION"
    [] q = "consentRefused" -> IF cur.value = "askConsent" THEN "YES" ELSE "NO"
    [] q = "askName"        -> IF cur.studentName = Null THEN None ELSE cur.studentName
    [] q = "askAge"         -> IF cur.birthYear = Null THEN Null
                               ELSE createdYear - cur.birthYear
    [] q = "askMonth"       -> IF cur.birthMonth = Null THEN None ELSE cur.birthMonth
    [] OTHER                -> Null

Understood(prev, cur, createdYear) ==
  IF Head(cur.stids) = "unintelligible" THEN Unintelligible
  ELSE UnderstoodByTransition(prev.value, cur, createdYear)

\* `describe`: the question that was answered and what was understood.
Describe(hasPrev, prev, cur, createdYear) ==
  IF ~hasPrev \/ IsStartRow(cur)
  THEN [question |-> Null, understood |-> Null]
  ELSE [question |-> prev.value, understood |-> Understood(prev, cur, createdYear)]
=============================================================================
