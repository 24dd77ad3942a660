------------------------------ MODULE InboundTurn ------------------------------
(***************************************************************************)
(* The voice-note path of processWabotInboundJob for one known user: every *)
(* database transaction, cache access and call to wabot is one action, so  *)
(* jobs of the same user (the worker runs 100 at a time), retries after a  *)
(* failed attempt, re-runs after a crash and the expiry of wabot's         *)
(* in-flight window interleave between them.  What a lesson asks and how   *)
(* an answer is judged is left to LessonMachine, what the onboarding       *)
(* questions are to OnboardingMachine.                                     *)
(***************************************************************************)
EXTENDS OnboardingMachine, FiniteSets

CONSTANTS Jobs,         \* BullMQ jobs of the queue wabot-inbound
          Msgs,         \* WhatsApp voice notes, by wa_media_url
          Earlier,      \* the message that wrote the rows the model starts with
          Assignments,  \* which message each job may carry
          MaxAttempts,  \* `attempts` of the queue
          MaxFailing,   \* bound: jobs that have a failed attempt
          MaxStalls     \* bound: re-runs of a job whose worker died

ASSUME JobsAssumption ==
  /\ Earlier \notin Msgs /\ Null \notin BOOLEAN
  /\ Assignments \subseteq [Jobs -> Msgs]
  /\ MaxAttempts \in Nat \ {0} /\ MaxFailing \in Nat /\ MaxStalls \in Nat

VARIABLES msgOf,       \* the message each job carries
          pc,          \* where each job is
          attempts,    \* attemptsMade
          stalls,      \* re-runs after a stall
          loc,         \* locals of the running attempt
          window,      \* wabot: the in-flight window of each message
          heard,       \* messages whose reply wabot sent on to the parent
          lost,        \* messages of whose sendMessage the response was lost
          media,       \* media_metadata, one row per message
          onbRows,     \* onboarding_states
          lessonRows,  \* literacy_lesson_states
          scores,      \* scores
          audit,       \* outbound_messages
          onboarded,   \* the user's columns: birth year and permission are set
          cached,      \* the cached user's copy of them, Null when not cached
          seq          \* rows inserted so far; orders created_at

vars == <<msgOf, pc, attempts, stalls, loc, window, heard, lost, media,
          onbRows, lessonRows, scores, audit, onboarded, cached, seq>>
jobVars  == <<msgOf, attempts, stalls>>
wabot    == <<window, heard, lost>>
lesson   == <<lessonRows, scores>>
userVars == <<onboarded, cached>>

Ended  == {"done", "skipped", "failed"}
Active == {"find", "findDb", "cacheSet", "persist", "fetch",
           "onbClean", "onbRead", "onbCommit", "onbEvict",
           "cleanup", "lessonRead", "lessonInsert", "grade", "send", "record",
           "markRolledBack", "onbRollback"}

\* onb: the gate's verdict for this attempt; answer: whether processAnswer is
\* given the transcripts; row: the row about to be inserted; reply: the path
\* that produced the reply; delivered: what wabot answered.
NoRow  == [kind |-> "none", from |-> 0, done |-> FALSE]
NoLocs == [onb |-> FALSE, answer |-> TRUE, row |-> NoRow, next |-> Null,
           reply |-> "none", delivered |-> FALSE]

Locals ==
  [onb : BOOLEAN, answer : BOOLEAN,
   row : [kind : {"none", "fresh", "answer"}, from : Nat, done : BOOLEAN],
   next : OnboardingStateName \cup {Null},
   reply : {"none", "onboarding", "lesson"}, delivered : BOOLEAN]

\* The rows of the tables, as far as the properties tell them apart.
MediaRow ==
  [status : {"none", "created", "failed", "ready"}, transcribed : BOOLEAN,
   rolledBack : BOOLEAN]
OnbRow == [at : Nat, by : Msgs \cup {Earlier}, value : OnboardingStateName]
LessonRow ==
  [at : Nat, by : Msgs \cup {Earlier}, kind : {"fresh", "answer"}, from : Nat,
   done : BOOLEAN]

NewMedia == [status |-> "none", transcribed |-> FALSE, rolledBack |-> FALSE]

\* Mutant: the newest row is not asked for.
NewestUnordered(r, rows) == r \in rows

Newest(r, rows) == r \in rows /\ \A o \in rows : o.at <= r.at
By(m, rows)     == {r \in rows : r.by = m}
Without(m, rows) == rows \ By(m, rows)

\* Mutant: the foreign keys are not swept.
SweptNothing(m, rows) == rows

\* The sweep of one table with a user_message_id column.
Swept(m, rows) == Without(m, rows)

-----------------------------------------------------------------------------
\* The user is either still being onboarded, with no row yet or the
\* last question open, or onboarded with a lesson in flight.
Init ==
  /\ msgOf \in Assignments
  /\ pc = [j \in Jobs |-> "waiting"]
  /\ attempts = [j \in Jobs |-> 0] /\ stalls = [j \in Jobs |-> 0]
  /\ loc = [j \in Jobs |-> NoLocs]
  /\ window = [m \in Msgs |-> "none"] /\ heard = {} /\ lost = {}
  /\ media = [m \in Msgs |-> NewMedia]
  /\ scores = {} /\ audit = {} /\ cached = Null /\ seq = 1
  /\ \/ /\ onboarded = FALSE /\ lessonRows = {}
        /\ \/ onbRows = {}
           \/ onbRows = {[at |-> 1, by |-> Earlier, value |-> "askMonth"]}
     \/ /\ onboarded = TRUE /\ onbRows = {}
        /\ lessonRows = {[at |-> 1, by |-> Earlier, kind |-> "fresh",
                          from |-> 0, done |-> FALSE]}

\* wabot enqueues a message: it opens an in-flight window, unless one of the
\* user's is still open; then the job is flagged consecutive and ignored.  A
\* second job for the same message (an enqueue that was retried) finds the
\* window as it is.
Arrive(j) ==
  LET m == msgOf[j]
  IN  /\ pc[j] = "waiting"
      /\ \/ /\ window[m] = "none" /\ \A o \in Msgs : window[o] # "open"
            /\ window' = [window EXCEPT ![m] = "open"]
            /\ pc' = [pc EXCEPT ![j] = "find"]
         \/ /\ window[m] = "none" /\ \E o \in Msgs : window[o] = "open"
            /\ window' = [window EXCEPT ![m] = "consecutive"]
            /\ pc' = [pc EXCEPT ![j] = "skipped"]
         \/ /\ window[m] # "none"
            /\ pc' = [pc EXCEPT ![j] =
                        IF window[m] = "consecutive" THEN "skipped" ELSE "find"]
            /\ UNCHANGED window
      /\ UNCHANGED <<jobVars, loc, heard, lost, media, onbRows, lesson, audit,
                     userVars, seq>>

\* wabot gives up waiting and sends its fallback.
Expire(m) ==
  /\ window[m] = "open"
  /\ window' = [window EXCEPT ![m] = "expired"]
  /\ UNCHANGED <<jobVars, pc, loc, heard, lost, media, onbRows, lesson, audit,
                 userVars, seq>>

-----------------------------------------------------------------------------
(* userService.find: the cache, else the database and then the cache.      *)

Goto(j, label) == pc' = [pc EXCEPT ![j] = label]

Find(j) ==
  /\ pc[j] = "find"
  /\ Goto(j, IF cached = Null THEN "findDb" ELSE "persist")
  /\ loc' = [loc EXCEPT ![j].onb = IF cached = Null THEN FALSE ELSE cached]
  /\ UNCHANGED <<jobVars, wabot, media, onbRows, lesson, audit, userVars, seq>>

FindInDatabase(j) ==
  /\ pc[j] = "findDb" /\ Goto(j, "cacheSet")
  /\ loc' = [loc EXCEPT ![j].onb = onboarded]
  /\ UNCHANGED <<jobVars, wabot, media, onbRows, lesson, audit, userVars, seq>>

FillCache(j) ==
  /\ pc[j] = "cacheSet" /\ Goto(j, "persist")
  /\ cached' = loc[j].onb
  /\ UNCHANGED <<jobVars, loc, wabot, media, onbRows, lesson, audit, onboarded, seq>>

-----------------------------------------------------------------------------
(* The age check, and persistAndTranscribeAudio.                           *)

\* The message is older than 20 s by now.
SkipStale(j) ==
  /\ pc[j] = "persist" /\ Goto(j, "skipped")
  /\ UNCHANGED <<jobVars, loc, wabot, media, onbRows, lesson, audit, userVars, seq>>

\* Mutants: no attempt cleans up; the onboarding gate is missing.
StartOfTurnNoCleanup(j) == IF loc[j].onb THEN "lessonRead" ELSE "onbRead"
StartOfTurnNoGate(j)    == IF attempts[j] > 0 THEN "cleanup" ELSE "lessonRead"

\* Where the turn goes once the transcripts are there: an attempt after the
\* first begins by deleting what an earlier one wrote.
StartOfTurn(j) ==
  IF loc[j].onb
  THEN IF attempts[j] > 0 THEN "cleanup" ELSE "lessonRead"
  ELSE IF attempts[j] > 0 THEN "onbClean" ELSE "onbRead"

CreateMedia(j) ==
  LET m == msgOf[j]
  IN  /\ pc[j] = "persist" /\ media[m].status \in {"none", "failed"}
      /\ media' = [media EXCEPT ![m].status = "created"]
      /\ Goto(j, "fetch")
      /\ UNCHANGED <<jobVars, loc, wabot, onbRows, lesson, audit, userVars, seq>>

\* A row that exists and is not `failed` is returned as it is, in whatever
\* state; without transcripts the attempt fails.
ReuseMedia(j) ==
  LET m == msgOf[j]
  IN  /\ pc[j] = "persist" /\ media[m].status \notin {"none", "failed"}
      /\ media[m].transcribed
      /\ Goto(j, StartOfTurn(j))
      /\ UNCHANGED <<jobVars, loc, wabot, media, onbRows, lesson, audit,
                     userVars, seq>>

\* Download, upload, speech to text.  A download that throws is Fail(j): it
\* leaves the row `created`.
FetchAudio(j) ==
  /\ pc[j] = "fetch" /\ Goto(j, StartOfTurn(j))
  /\ media' = [media EXCEPT ![msgOf[j]].status = "ready",
                            ![msgOf[j]].transcribed = TRUE]
  /\ UNCHANGED <<jobVars, loc, wabot, onbRows, lesson, audit, userVars, seq>>

-----------------------------------------------------------------------------
(* The onboarding path: OnboardingService.rollback and handleTurn.         *)

\* DELETE ... RETURNING hands back the rows and a count; the code takes the
\* first of the two for a row, whose snapshot is then never `done`: the
\* columns and the lesson rows of a done turn stay.
RollbackOnboarding(j, next) ==
  /\ onbRows' = Without(msgOf[j], onbRows)
  /\ Goto(j, next)
  /\ UNCHANGED <<jobVars, loc, wabot, media, lesson, audit, userVars, seq>>

CleanOnboarding(j) == pc[j] = "onbClean" /\ RollbackOnboarding(j, "onbRead")

\* No row: onboarding starts and nothing is classified.
StartOnboarding(j) ==
  /\ pc[j] = "onbRead" /\ onbRows = {}
  /\ loc' = [loc EXCEPT ![j].next = "askGuardian"]
  /\ Goto(j, "onbCommit")
  /\ UNCHANGED <<jobVars, wabot, media, onbRows, lesson, audit, userVars, seq>>

ClassifyReply(j) ==
  /\ pc[j] = "onbRead"
  /\ \E r \in onbRows :
       /\ Newest(r, onbRows) /\ r.value # "done"
       /\ \E v \in Readings(r.value) :
            loc' = [loc EXCEPT ![j].next = Target(r.value, v)]
  /\ Goto(j, "onbCommit")
  /\ UNCHANGED <<jobVars, wabot, media, onbRows, lesson, audit, userVars, seq>>

\* The newest row is done although the gate saw the user as not onboarded:
\* evict the cache and send the completion media.
AlreadyDone(j) ==
  /\ pc[j] = "onbRead"
  /\ \E r \in onbRows : Newest(r, onbRows) /\ r.value = "done"
  /\ cached' = Null
  /\ loc' = [loc EXCEPT ![j].reply = "onboarding"]
  /\ Goto(j, "send")
  /\ UNCHANGED <<jobVars, wabot, media, onbRows, lesson, audit, onboarded, seq>>

\* One transaction: the row (its message is unique) and, when done, the
\* columns, with the cache evicted before the commit.
CommitOnboarding(j) ==
  LET done == loc[j].next = "done"
  IN  /\ pc[j] = "onbCommit" /\ By(msgOf[j], onbRows) = {}
      /\ onbRows' = onbRows \cup
           {[at |-> seq + 1, by |-> msgOf[j], value |-> loc[j].next]}
      /\ onboarded' = (onboarded \/ done)
      /\ cached' = IF done THEN Null ELSE cached
      /\ loc' = [loc EXCEPT ![j].reply = "onboarding", ![j].next = Null]
      /\ Goto(j, IF done THEN "onbEvict" ELSE "send")
      /\ seq' = seq + 1
      /\ UNCHANGED <<jobVars, wabot, media, lesson, audit>>

\* After the commit: evict again, then lesson one starts without transcripts.
EvictUser(j) ==
  /\ pc[j] = "onbEvict" /\ Goto(j, "lessonRead")
  /\ cached' = Null
  /\ loc' = [loc EXCEPT ![j].answer = FALSE]
  /\ UNCHANGED <<jobVars, wabot, media, onbRows, lesson, audit, onboarded, seq>>

-----------------------------------------------------------------------------
(* The lesson path: LiteracyLessonService.processAnswer.                   *)

CleanupPartialState(j) ==
  /\ pc[j] = "cleanup" /\ Goto(j, "lessonRead")
  /\ lessonRows' = Without(msgOf[j], lessonRows)
  /\ scores' = Without(msgOf[j], scores)
  /\ UNCHANGED <<jobVars, loc, wabot, media, onbRows, audit, userVars, seq>>

\* findCurrentState, then a fresh lesson or the next step of the current one.
\* Whether the current row is stale is the clock's choice.  Continuing without
\* transcripts throws: only Fail(j) is possible.
ReadLesson(j) ==
  /\ pc[j] = "lessonRead"
  /\ \/ loc' = [loc EXCEPT ![j].row = [NoRow EXCEPT !.kind = "fresh"]]
     \/ \E r \in lessonRows, done \in BOOLEAN :
          /\ Newest(r, lessonRows) /\ ~r.done /\ loc[j].answer
          /\ loc' = [loc EXCEPT ![j].row =
                       [kind |-> "answer", from |-> r.at, done |-> done]]
  /\ Goto(j, "lessonInsert")
  /\ UNCHANGED <<jobVars, wabot, media, onbRows, lesson, audit, userVars, seq>>

\* Mutant: the INSERT does not look at rolled_back.
MayReferToAny(m) == TRUE

\* A row may only refer to a message that is not rolled back.
MayReferTo(m) == ~media[m].rolledBack

\* INSERT ... SELECT ... WHERE rolled_back = false; no row inserted throws.
InsertLesson(j) ==
  LET m == msgOf[j]
      r == loc[j].row
  IN  /\ pc[j] = "lessonInsert" /\ MayReferTo(m)
      /\ lessonRows' = lessonRows \cup
           {[at |-> seq + 1, by |-> m, kind |-> r.kind, from |-> r.from,
             done |-> r.done]}
      /\ seq' = seq + 1
      /\ loc' = [loc EXCEPT ![j].reply = IF @ = "none" THEN "lesson" ELSE @,
                            ![j].row = IF r.kind = "answer" THEN @ ELSE NoRow]
      /\ Goto(j, IF r.kind = "answer" THEN "grade" ELSE "send")
      /\ UNCHANGED <<jobVars, wabot, media, onbRows, scores, audit, userVars>>

\* gradeAndRecord, guarded in the same way; it may have nothing to record, and
\* its failure is swallowed.  A finished lesson is followed by a fresh one.
Grade(j) ==
  LET m == msgOf[j]
  IN  /\ pc[j] = "grade"
      /\ \/ UNCHANGED scores
         \/ MayReferTo(m) /\ scores' = scores \cup {[by |-> m]}
      /\ loc' = [loc EXCEPT ![j].answer = FALSE, ![j].row = NoRow]
      /\ Goto(j, IF loc[j].row.done THEN "lessonRead" ELSE "send")
      /\ UNCHANGED <<jobVars, wabot, media, onbRows, lessonRows, audit, userVars, seq>>

-----------------------------------------------------------------------------
(* sendMessage and what follows from its answer.                           *)

\* wabot sends the reply on if the window is still open.
SendMessage(j) ==
  LET m  == msgOf[j]
      ok == window[m] = "open"
  IN  /\ pc[j] = "send" /\ Goto(j, "record")
      /\ window' = IF ok THEN [window EXCEPT ![m] = "answered"] ELSE window
      /\ heard' = IF ok THEN heard \cup {[by |-> m, reply |-> loc[j].reply]}
                  ELSE heard
      /\ loc' = [loc EXCEPT ![j].delivered = ok]
      /\ UNCHANGED <<jobVars, lost, media, onbRows, lesson, audit, userVars, seq>>

\* The audit row, before the delivered check; best effort.
Recorded(m) == [by |-> m, status |-> "sent"]

AfterRecordAlwaysUndo(j) == "markRolledBack"              \* mutant
AfterRecord(j) == IF loc[j].delivered THEN "done" ELSE "markRolledBack"

RecordSent(j) ==
  /\ pc[j] = "record"
  /\ \/ audit' = audit \cup {Recorded(msgOf[j])}
     \/ UNCHANGED audit
  /\ Goto(j, AfterRecord(j))
  /\ UNCHANGED <<jobVars, loc, wabot, media, onbRows, lesson, userVars, seq>>

\* One transaction: flag the message, flip its audit rows, and delete the rows
\* of every table with a user_message_id.
MarkRolledBack(j) ==
  LET m == msgOf[j]
  IN  /\ pc[j] = "markRolledBack"
      /\ media' = [media EXCEPT ![m].rolledBack = TRUE]
      /\ audit' = {IF a.by = m THEN [a EXCEPT !.status = "rolled_back"] ELSE a :
                     a \in audit}
      /\ onbRows' = Swept(m, onbRows)
      /\ lessonRows' = Swept(m, lessonRows)
      /\ scores' = Swept(m, scores)
      /\ Goto(j, IF loc[j].onb THEN "done" ELSE "onbRollback")
      /\ UNCHANGED <<jobVars, loc, wabot, userVars, seq>>

UndoOnboarding(j) == pc[j] = "onbRollback" /\ RollbackOnboarding(j, "done")

-----------------------------------------------------------------------------
(* Attempts that fail, and workers that die.                               *)

\* BullMQ: one attempt more, from the start, until there are none left.
AttemptsNotCounted(j)   == attempts[j]                    \* mutant
AttemptsAfterFailure(j) == attempts[j] + 1

EndAttempt(j) ==
  /\ attempts' = [attempts EXCEPT ![j] = AttemptsAfterFailure(j)]
  /\ Goto(j, IF AttemptsAfterFailure(j) < MaxAttempts THEN "find" ELSE "failed")
  /\ loc' = [loc EXCEPT ![j] = NoLocs]
  /\ UNCHANGED <<msgOf, stalls, onbRows, lesson, audit, userVars, seq>>

\* Failures that nothing forces are bounded.
MayFail(j) ==
  Cardinality({j} \cup {k \in Jobs : attempts[k] > 0}) <= MaxFailing

\* The next call of the attempt is bound to throw: there are no transcripts,
\* the message already has its onboarding row, or it has been rolled back.
MustFail(j) ==
  LET m == msgOf[j]
  IN  \/ pc[j] = "persist" /\ media[m].status \notin {"none", "failed"}
           /\ ~media[m].transcribed
      \/ pc[j] = "onbCommit" /\ By(m, onbRows) # {}
      \/ pc[j] = "lessonInsert" /\ ~MayReferTo(m)

\* Any awaited call may throw: the database, Redis, the download, the
\* classifier, sendMessage (or its 4XX or 5XX).
Fail(j) ==
  /\ pc[j] \in Active \ {"record"} /\ (MustFail(j) \/ MayFail(j))
  /\ EndAttempt(j)
  /\ UNCHANGED <<wabot, media>>

\* The upload or every speech-to-text provider fails: the row becomes `failed`.
TranscriptionFails(j) ==
  /\ pc[j] = "fetch" /\ MayFail(j) /\ EndAttempt(j)
  /\ media' = [media EXCEPT ![msgOf[j]].status = "failed"]
  /\ UNCHANGED wabot

\* wabot sent the reply on, but its response never reached the worker.
ResponseLost(j) ==
  LET m == msgOf[j]
  IN  /\ pc[j] = "send" /\ window[m] = "open" /\ MayFail(j)
      /\ EndAttempt(j)
      /\ window' = [window EXCEPT ![m] = "answered"]
      /\ heard' = heard \cup {[by |-> m, reply |-> loc[j].reply]}
      /\ lost' = lost \cup {m}
      /\ UNCHANGED media

\* The worker dies: BullMQ runs the job again and does not count an attempt.
Stall(j) ==
  /\ pc[j] \in Active /\ stalls[j] < MaxStalls
  /\ stalls' = [stalls EXCEPT ![j] = @ + 1]
  /\ Goto(j, "find")
  /\ loc' = [loc EXCEPT ![j] = NoLocs]
  /\ UNCHANGED <<msgOf, attempts, wabot, media, onbRows, lesson, audit,
                 userVars, seq>>

-----------------------------------------------------------------------------
Step(j) ==
  \/ Find(j) \/ FindInDatabase(j) \/ FillCache(j) \/ SkipStale(j)
  \/ CreateMedia(j) \/ ReuseMedia(j) \/ FetchAudio(j)
  \/ CleanOnboarding(j) \/ StartOnboarding(j) \/ ClassifyReply(j)
  \/ AlreadyDone(j) \/ CommitOnboarding(j) \/ EvictUser(j)
  \/ CleanupPartialState(j) \/ ReadLesson(j) \/ InsertLesson(j) \/ Grade(j)
  \/ SendMessage(j) \/ RecordSent(j) \/ MarkRolledBack(j) \/ UndoOnboarding(j)
  \/ Fail(j) \/ TranscriptionFails(j) \/ ResponseLost(j)

Next ==
  \/ \E j \in Jobs : Arrive(j) \/ Step(j) \/ Stall(j)
  \/ \E m \in Msgs : Expire(m)

\* A worker goes on with a job it has taken: every await settles.
Fairness == \A j \in Jobs : WF_vars(Step(j))

Spec == Init /\ [][Next]_vars /\ Fairness
-----------------------------------------------------------------------------
\* Every variable has its type.
TypeOK ==
  /\ msgOf \in [Jobs -> Msgs]
  /\ pc \in [Jobs -> {"waiting"} \cup Active \cup Ended]
  /\ attempts \in [Jobs -> 0 .. MaxAttempts]
  /\ stalls \in [Jobs -> 0 .. MaxStalls]
  /\ loc \in [Jobs -> Locals]
  /\ window \in [Msgs -> {"none", "open", "expired", "answered", "consecutive"}]
  /\ heard \subseteq [by : Msgs, reply : {"none", "onboarding", "lesson"}]
  /\ lost \subseteq Msgs
  /\ media \in [Msgs -> MediaRow]
  /\ onbRows \subseteq OnbRow /\ lessonRows \subseteq LessonRow
  /\ scores \subseteq [by : Msgs]
  /\ audit \subseteq [by : Msgs, status : {"sent", "rolled_back"}]
  /\ onboarded \in BOOLEAN /\ cached \in BOOLEAN \cup {Null}
  /\ seq \in Nat

\* The message was enqueued once; and no worker died on it.
Sole(m)   == \E j \in Jobs : {k \in Jobs : msgOf[k] = m} = {j}
Single(m) == Sole(m) /\ \A j \in Jobs : msgOf[j] = m => stalls[j] = 0

\* Once a message is rolled back no lesson row and no score refers to it, not
\* even one that another job of the same message was about to insert.
RolledBackLeavesNothing ==
  \A m \in Msgs : media[m].rolledBack =>
    By(m, lessonRows) = {} /\ By(m, scores) = {}

\* A voice note answers the lesson at most once, however many attempts it took
\* and wherever they failed.
AnsweredOnce ==
  \A m \in Msgs : Single(m) =>
    \A r, s \in By(m, lessonRows) : r.kind = "answer" /\ s.kind = "answer" => r = s

\* When wabot reported the reply undelivered and the job ended well, nothing of
\* the turn is left in any table and its audit rows say so.
UndeliveredLeavesNothing ==
  \A j \in Jobs : LET m == msgOf[j] IN
    pc[j] = "done" /\ ~loc[j].delivered /\ Sole(m) =>
      /\ media[m].rolledBack
      /\ By(m, onbRows) = {} /\ By(m, lessonRows) = {} /\ By(m, scores) = {}
      /\ \A a \in audit : a.by = m => a.status = "rolled_back"

\* When wabot reported it delivered, the turn the parent heard is on record:
\* the message is not rolled back and the reply's rows are there.
DeliveredKept ==
  \A j \in Jobs : LET m == msgOf[j] IN
    pc[j] = "done" /\ loc[j].delivered /\ Sole(m) =>
      /\ ~media[m].rolledBack
      /\ loc[j].reply = "lesson" => By(m, lessonRows) # {}
      /\ \A a \in audit : a.by = m => a.status = "sent"

\* Of two voice notes that answered the same prompt the parent heard at most
\* one reply: the lesson never forks under a parent who hears both branches.
NoForkIsHeard ==
  \A r, s \in lessonRows :
    /\ r.kind = "answer" /\ s.kind = "answer" /\ r.from = s.from /\ r.by # s.by
    /\ Single(r.by) /\ Single(s.by) /\ {r.by, s.by} \cap lost = {}
    => ~({r.by, s.by} \subseteq {h.by : h \in heard})

\* No lesson is started or answered for a parent who has not consented.
LessonNeedsConsent == (\E r \in lessonRows : r.by # Earlier) => onboarded

\* Every job a worker takes comes to an end.
EveryJobEnds == \A j \in Jobs : pc[j] \in Active ~> pc[j] \in Ended
-----------------------------------------------------------------------------
(* The promise of TurnPromise, for the voice notes that were enqueued once. *)

Told(m) == m \notin lost /\ \E h \in heard : h.by = m

PhaseOf(m) ==
  IF Sole(m) /\ media[m].rolledBack THEN "undone"
  ELSE IF Sole(m) /\ Told(m) THEN "told" ELSE "open"

Promise == INSTANCE TurnPromise WITH
  phase   <- [m \in Msgs |-> PhaseOf(m)],
  written <- {m \in Msgs : Sole(m) /\ By(m, lessonRows) # {}}

\* Two jobs interleaved at every await, with failed attempts and windows that
\* expire, keep the promise; a reply whose delivery the worker never learnt of does
\* not count as told.
KeepsThePromise == Promise!Spec
-----------------------------------------------------------------------------
(* What the repository says of the program and the code does not do.       *)

\* inbound.processor.prompt.md: on delivered:false the rollback "deletes this
\* turn's onboarding row (and, for a done turn, resets the user's columns)".
UndoneTurnResetsUser ==
  \A j \in Jobs :
    pc[j] = "done" /\ ~loc[j].delivered /\ loc[j].reply = "onboarding"
      /\ ~loc[j].answer
    => ~onboarded
=============================================================================
