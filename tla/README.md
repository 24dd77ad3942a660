# A verification of pp-sketch

pp-sketch teaches Hindi reading over WhatsApp: a parent sends voice notes, the
backend transcribes them, judges the answer, stores the next step of the lesson
and sends the next prompt back. This directory holds TLA+ models of the system,
the TLC configurations that check them on small instances, and proofs about
them that TLAPS checks. Paths below are relative to the repository's `src/`.

## The system

| Component | State it keeps | Operations | Interacts with |
|---|---|---|---|
| Inbound worker (`interfaces/wabot/inbound`) | BullMQ jobs: attempts, stalls | `processWabotInboundJob`: new user, phone change, voice note, tap | every service below; wabot, which keeps an in-flight window per message |
| Onboarding (`onboarding`) | table `onboarding_states`; the user's birth year, month, permission | `handleTurn`, `rollback`, `classify`; `describeOnboardingTurns` for staff | LLM classifier, user service, lesson one |
| Lesson (`literacy/literacy-lesson`) | table `literacy_lesson_states`, a machine snapshot per turn | `processAnswer`, `handleComprehensionAnswer`, `cleanupPartialState`, `selectNextString`; marking of words and passages | machine, scores, ASER, media |
| ASER test (`literacy/aser`) | `context.aser` inside lesson snapshots | `planFreshLesson`, `applyAserTurn` | lesson service and machine |
| Scores (`literacy/score`) | tables `scores`, `test_results_*` | `gradeAndRecord`, the nightly run, the usage backfill; dashboards | lesson service, users, traction |
| Media (`media-meta-data`) | table `media_metadata`, its files, copies at WhatsApp, a selection cache | creation, generation, preload, reload sweep, lookup, rollback, deletion; passage families and their gates | S3, speech to text, HeyGen, ElevenLabs, LLM, WhatsApp |
| Users (`users`) | table `users`, copies in Redis under id and number | `find`, `create`, `update`, `delete`, `invalidateCache`; active time, milestones, traction | everything |
| Outbound (`outbound-messages`, `interfaces/wabot/outbound`) | table `outbound_messages` | `sendMessage`, `sendNotification`, `recordSent` | wabot |
| Notifiers (`notifier`) | delayed and repeated jobs | hail-mary, evening reminder, morning update with its card | users, lesson service, media, wabot |
| Mirror, geo entities, letters, dashboards, scripts | their tables | CRUD, copies, reads | |

What is hard in it:

* the inbound worker runs 100 jobs at a time, two of the same parent included;
  it awaits the database, Redis, S3, an LLM and wabot between any two writes;
* a turn is not a transaction. A job that fails is run again up to three times,
  a job whose worker died is run again without counting an attempt, and a reply
  that wabot reports undelivered has to be undone;
* the rows of one turn are spread over six tables, guarded by `rolled_back`;
* the lesson and the onboarding are XState machines whose context outlives the
  question it was collected for, and the ASER test is a second machine inside
  the first one's snapshot;
* media rows are written by requests, four kinds of jobs, a webhook, a sweep and
  the dashboard, several of them by saving an entity read earlier;
* each account has two cached copies, each key selection one, the public series
  one a day, filled and dropped by whoever comes along;
* nightly results, milestones and levels are read back from what is stored, cut
  to windows of rows and days that need not begin where a lesson or a day does.

What makes each component correct is what its properties say, in the section on
runs. PROJECT.json lists the components with what is and is not modelled, the
hazards line by line, and the lines every definition translates.

## Modules

| Module | Models | Composition |
|---|---|---|
| `OnboardingMachine` | the questions and what a reply does to a snapshot, and the staff page's reading of two snapshots; constant level | extended by the two below |
| `Onboarding` | `OnboardingService` over its table and the user's columns | uses `OnboardingMachine` |
| `InboundTurn` | a voice note from its enqueueing to the undo of an undelivered reply, one action per await | uses `OnboardingMachine`; implements `TurnPromise` |
| `TurnPromise` | what the worker promises of a voice note: told or undone, for good | abstract specification |
| `TapTurn` | the answer to the question about a passage, by a tap | beside `InboundTurn` |
| `LessonMachine` | the lesson's machine: sentence, word, letters, comprehension, letter test | stands for what `InboundTurn` calls an answer |
| `WordReading`, `SentenceReading` | how a word and a passage are judged from several transcripts | decide the choices `LessonMachine` leaves open |
| `AserRun` | the test's runs and their call in `processAnswer` | its letter lesson is the letter test of `LessonMachine` |
| `LessonPlanning` | which level, word or passage comes next | its rows are lessons of `LessonMachine` |
| `Reminder` | the hail-mary timer and job, the evening cron and its send jobs, for one parent | a turn is reduced to saving, re-arming, ending; `InboundTurn` has the rest |
| `MediaLibrary` | the rows of one stid: creation, generation, upload, sweep, lookup, rollback | extended by `MorningUpdate` |
| `MorningUpdate` | the send jobs of the morning card, over the media rows and the workers of `MediaLibrary` | composed with it |
| `PassageFamily` | passages with question, options, flow and audio: requests, gates, deletion, sweep | |
| `NightlyResults` | the nightly run, its queue, the roll-up by area, the backfill | scores as sets of answers; `TestScores` has their values |
| `TestScores` | which attempts a test counts, who sits which test, letter scores and bins | |
| `UserDirectory` | the users table and the cached copies, with Postgres's locks | |
| `UsageTime` | active time and the milestones a reply announces | |
| `Traction` | the public series: computation, cache, warm job | fed by the nights of `NightlyResults` |
| `..._proofs` | theorems about one component: `Lesson_proofs` about the lesson, the tests, what comes next and the two readings, `Content_proofs` about the media and the passages, `NightlyResults_proofs` about the nights and the test scores, `UserDirectory_proofs` about the users, their marks and the public series, `InboundTurn_proofs` about both ways of a turn | extend its modules |
| `FoldLemmas` | least numbers, induction over the members of a finite set, sums, folds from the left, ways back, members in order | used by three of them |
| `MC...` | small instances; the parts that share no state are composed by a variable `part` | |

### InboundTurn and TurnPromise

`pc[j]` is the await a job is at, `loc[j]` the locals of `processWabotInboundJob`
in the running attempt. `find`, `findDb`, `cacheSet` are the three accesses of
`UserService.find`; `persist`, `fetch` are `createWhatsappAudioMedia`; `onb*` are
`OnboardingService`; `cleanup`, `lessonRead`, `lessonInsert`, `grade` are
`LiteracyLessonService`; `send`, `record`, `markRolledBack`, `onbRollback` are
step 10 of the processor. A table is the set of its rows, reduced to who wrote
them (`by`), when (`at`) and, for a lesson row, which row it answered (`from`).
wabot is external and modelled from how the processor uses it: it opens an
in-flight window per message, flags a message that arrives while one is open as
consecutive, gives up after a while, and answers `sendMessage` with `delivered`.

Abstractions: what a lesson asks and how an answer is judged; the lookup and the
insert of a media row are one step; a milestone message or a missing media row
changes only what is sent; the audio-only redirect is left out.

`KeepsThePromise` is the refinement: `phase` of a message is read off the reply
window, the rollback flag and the job, `written` off the lesson's rows. It is
claimed for messages enqueued once whose worker did not stall: a re-run after a
crash may undo a turn that was told. A response that is lost does not count as
told, though the parent may have heard it.

### TapTurn

One action per await of the flow-tap path. Each attempt inserts an anchor row of
its own; `shown` is the ghost that says which anchors' turns the student got a
reply to. The rollback of an ignored tap is best effort, as its failure is
swallowed. Only one tap completes a lesson; the age of a message is not looked
at on this path; the re-arming of the hail-mary timer is `Reminder`'s. What is
asked next is any passage of the bank (`Questions`) that no row is of.

### Onboarding

A turn is two steps: it reads the newest row, classifies and runs the machine
(`BeginStart`, `BeginReply`), then commits (`Commit`). `created_at` is the
database's clock, so a new year may begin between the two. `said`, `heard` and
`answered` are ghosts: what the parent really said on the chain of turns that
led to a row. `ShapeChange` is a deploy after which the newest snapshot no
longer restores.

### LessonMachine, WordReading, SentenceReading

One action per transition (or family of transitions with the same effect) of
the machine; the variables are its context. `scored` is a ghost. Whether an
answer is right, nearly right or wrong, and which letters it got wrong, is a
choice here. The two readings model that choice: what the engines heard is
enumerated token by token, so that every reachable state is one set of
transcripts; `WordReading` asks the word state's guards in their order and edits
the letters, `SentenceReading` aligns each transcript with the passage and
fuses the verdicts. The spelling tables of the engines' known confusions are
constants (`Respelt`, `Joined`, `Same`, `Near`); the speed gate, the
normalisation of strings and the choice of a drill word by letter scores are
left out.

### AserRun, LessonPlanning

`AserRun` has one action per fresh lesson or voice note of a student. `run` is
`context.aser`, `lesson` the part of the machine the test depends on, `past` what
`dueTest` reads of earlier runs. A bank's words and letters are interchangeable
and only counted; passages are kept apart because one may be culled while a
student has it. `early` is a ghost. That a passage may have to avoid words, and
that new passages are generated, is left out.

`LessonPlanning` has one action per turn, which writes one row; a row keeps the
text, the level, whether the lesson is over and what the band signal reads of
it. Which of the words that fit is taken is left open.

### Reminder

`slot` is the job under the id `hail-mary-<user>`, `pc` the worker on it, `turn[m]`
the turn of message `m`: `saved`, `removed` and `armed` lie around the two calls of
`rearmHailMary`. `sends` are the jobs of `notifier-send`, which keep the media the
cron built. `young` says that the newest lesson row is neither stale nor done, so
that `processAnswer` without a transcript throws. BullMQ is external: `remove`
leaves a locked (active) job, `add` leaves a job that is there under the id. It
follows that a stale job's re-arming of itself, and a turn's while the job runs,
arm nothing; `due` counts only the other re-armings. The delay is reduced to this:
the job fires after the turn that armed it is over. `heard`, `lost`, `due` are
ghosts. A worker that dies on a reminder is left out.

### MediaLibrary, MorningUpdate

One stid. `rows` are its media rows with the columns the code tests: status,
file, url, the date of its upload, rolled back, sendable. `repo.update` writes the
columns it names; `repo.save` compares the caller's copy with the row it reads
and writes the columns that differ, so a copy read before an await can undo
another writer's work, and each maker, job and request keeps its copy. `jobs`
holds per row the generation, the webhook and the two upload jobs, `look` and
`cache` the lesson's lookup, `admin` the dashboard's rollback and switch.
`MorningUpdate` adds the send jobs of one parent and day, which look for a card,
render one if there is none, find it again while it uploads, and send it. Another
job may insert a card between a job's looking and its rendering.

TypeORM, BullMQ, S3, HeyGen, ElevenLabs and WhatsApp are external. The sweep's
age limits (6 hours, 20 days) are reduced to: a row ages only while no job or
maker is at it; the sweep's limit of 9000 rows is not reached.

### PassageFamily

A request generates or takes a passage, asks its three gates, inserts the family
and adds the audio; `req[f]` is where it is, `tally[f][g]` the runs a verdict came
from. A gate's call may be answered, be unreadable, fail or be tried again. The
dashboard's deletion goes row by row and may fail at any of them, the sweep may
die between any two statements. The gates' numbers (5 valid runs of 8, 10 of 14,
24 of 50) are scaled; families share no row, so an instance has one.

### NightlyResults, TestScores

A result row keeps the answers its scores were read from. `run` is the run under
way with what each batch read, `jobs` the queue, `wreck` a crashed run whose row
still says running. A referrer hangs on a school, on the block above the schools or
nowhere; the rows of the roll-up are written `GeoBatchSize` at a time, so a run may
stop between two chunks (`geo.torn`). Failures, crashes, manual runs, transfers and
the backfill interleave. The backfill writes a batch of students at a time, of any
day up to today and at any time: a row without scores, stamped with the nightly's
instant, for a student who was active the day before and has no row of the date.
Times are one logical clock, on which a date begins at 00:15; `--to` is taken not to
lie in the future. Left out of the rows are the usage minutes, the school verdicts
and `students_active`; the rows of areas that the backfill inserts count no one. `TestScores` has the values: which attempts of a pool a test counts, which
ages sit which test, and a letter's score with its floor. A behaviour fills one
student's book, attempt by attempt.

### UserDirectory

One account column set (number, name, consent, referrer) with both cached copies.
Every statement, every Redis call and the two ends of a transaction are actions
of their own; the two SETs of a fill are one. TypeORM's `save()` is `Select`, which
reads the row again, and `Save`, which updates the columns in which the entity that
was loaded before differs from what `Select` read, inserts it if there was no row,
and hits nothing if the row has gone in between. Postgres is external and modelled
by the locks the transactions hold: a referrer's key while a row that names it is
uncommitted, a written row until the commit. Four variables are ghosts: `past`, the
values ever committed in each column of an account; `doubt`, the keys that a slower
reader or writer, a failed call or a dead process may have left stale; `left`, the
numbers a `PATCH` by id took from an account while a copy was under them; `unsaved`,
the accounts a `save()` found deleted after its SELECT.

### UsageTime, Traction

`UsageTime` has one student's voice notes and taps on a scaled clock, the active
time by the gap rule, and the milestones a turn computes between its row and its
reply; `told` is a ghost. `Traction` has the sweep of nightly verdicts, one copy of
the series a day, a shared computation per process and the warm job. Flows by day
and month and deletions of results are left out, as is the copies' expiry.

## Runs

| Run | Instance | What it shows |
|---|---|---|
| `turn` | 2 jobs (two notes, or one enqueued twice), 2 attempts, one job with failures; beside it the onboarding of a parent: 7 rows, 2 turns in flight, 1 rollback, 1 snapshot that stops restoring | the tables agree with what the parent heard, no fork is heard, nothing refers to a message rolled back, no lesson without consent; the worker implements its promise; no data is asked or stored without consent, the staff page reads every turn as it was |
| `turns` | 1 note with 3 attempts and 1 stall; beside it 2 taps with 2 attempts each | every job ends; shown answers fit their questions |
| `lesson` | five parts, see below | scores, queue and end of a lesson; counting and bracketing of a test; marking; what comes next |
| `reminder` | 2 messages, 2 attempts | the timer stays armed, one reminder per message, no lesson that is gone, every job ends |
| `content` | 2 rows of a stid, 1 maker that sends the card, 2 readers, 1 edit; beside it 1 family of four kinds, 2 deletions, 2 sweeps | urls and stamps agree, the drill word is shown, one card per job; live passages are vetted, swept and deleted together |
| `content_goes_on` | uploads and generated rows, no readers | no stored file is stranded; every request ends |
| `scores` | 2 students, 2 schools, a block, chunks of one row: 3 nights with 1 failure, 1 manual run, 1 batch of the backfill, at most 2 of them; or 2 nights with 1 failure, 1 manual run, 2 transfers; or pools of 5 attempts, 10 scores of a letter, 90 months | missed students are picked up, everyone is scored, the rows of an area add up; latest points, ages, letters |
| `users` | 2 ids, 2 numbers, 2 workers, 1 request, 1 mishap; beside it 2 days of a student, and 2 processes over 2 days | what copies hold was committed, writes evict; marks are told once; the warmed copy has the night |
| `turn_undo`, `tap_retry`, `media_switch`, `patch` | as `turn`, `turns`, `content`, `users` | four disagreements below |

Why the bounds are enough.

* *turn*, the onboarding: seven rows lead from no row to `done` and beyond it through either
  detour; a second turn in flight is the one that can overwrite the first, and
  rows older than the newest and those a rollback can uncover are never read
  again (`MCView` forgets them).
* *turn*, *turns*: the conflicts are between two jobs, each with one retry; a third
  job only repeats one of them. Failures and stalls are bounded by `MaxFailing`
  and `MaxStalls`. Two taps are a late one and a repeated one.
* *lesson*: of letters, two of each kind follow each other in every order, and
  thresholds of 2 and 3 let both verdicts fall inside a queue. Of words, up to
  four letters, a repeated one and one family, with answers of up to five sounds
  and pauses; of passages, two and three words, a pair in which one sounds like
  the other, two engines and four tokens between them. Of lessons, two word
  levels and three passage levels with windows of four to six rows (18, 8, 15 and
  6 in the code) and seven rows, so that a window cuts a lesson. Of tests,
  thresholds of 3 / 3, where the fast jump after two words is still undecided, as
  it is at 4 / 7, and five items are the fewest that always decide; two banks and
  three runs end a cycle and start the next. Paragraphs and banks are symmetric.
* *reminder*: two turns re-arm at the same time or during the other one's job, two
  attempts retry; three of its properties do not depend on more.
* *content*: two rows are the drill word's two candidates, a card and its
  successor, an upload and its rival; two readers race. Two deletions are a row's
  and its family's, two sweeps are one that dies and the one after it. `OnWhatsApp`
  is checked for one upload of a file at a time (see below); that urls and stamps
  agree is proved for any number. One send job makes one card; that two, which may
  both find none before either has rendered one, make two at most is proved.
* *scores*: three nights are a failed one, the one after it and one on which the
  first is past; a batch of one separates the reads of two students, and one batch
  of the backfill may come before, between and after them, of any date. Chunks of one
  row stop after every row; two transfers take a student to the other school, the
  block or nowhere and back again, or move both, while a run fails and another is of
  the same date; both exceptions of `AreaIsTheSum` are needed there. The two kinds of
  nights are separate parts, as is the book (`MCScores`); both theorems about them
  are proved of transfers, failures and the backfill together. Every order
  of five attempts over three types is a pool; ten answers reach the floor.
* *users*: a copy's conflict is between one reader or writer and another, with a
  request beside them; one number is old and one new. Of usage, days of three
  moments with allowances of two and three, so that a gap counts for a tap and
  not for a note; of traction, two students and two days.

Deadlock is checked in `lesson` only through its own part. The other systems stop:
at a bound on messages, edits, days or failures, or when all jobs have ended, and
say `CHECK_DEADLOCK FALSE`; liveness properties say there what must still happen.

Fairness, and why the code justifies it.

* `InboundTurn`: `WF(Step(j))` for each job. BullMQ keeps running a job it has
  taken, and every awaited call settles, as the clients have timeouts. Nothing is
  assumed of arrivals, of the window's expiry, or of stalls.
* `Reminder`: the same of turns that have begun, of the workers, and of BullMQ
  promoting a delayed job; not of new messages nor of the cron.
* `MediaLibrary`: `WF` of the makers, the jobs, the hourly sweep and a dashboard
  request that has begun, and `SF` of an upload's success: one that is tried again
  and again succeeds some time. `MorningUpdate` adds its send jobs.
* `PassageFamily`: `WF` of a request that has begun, as every call of the language
  model has a time cap.
* `NightlyResults`: `WF` of the worker, the repeated job and the passing of the six
  hours after which a crashed run is stale.

The other modules state none: whether a parent ever answers is not the code's to
promise. `LessonShrinks` replaces a liveness property there: every answer decreases
a measure, so a lesson ends if it is answered.

## Disagreements found

Checked by a run:

1. `turn_undo`. After an undelivered *done* turn the user's columns stay:
   `rollback` (onboarding.service.ts:276-288) reads `rows[0]` of what TypeORM's
   `query()` returns for `DELETE ... RETURNING`, which is `[rows, count]`
   (media-meta-data.service.ts:717 notes this), and `markRolledBack` has deleted
   the row before `rollback` looks for it. The documentation promises the reset
   (inbound.processor.prompt.md:86).
2. `tap_retry`. The tap path inserts a new anchor per attempt and cleans nothing
   up: when an attempt fails after it recorded the answer, the next one is ignored
   as late, the answer stays and the student gets no reply
   (inbound.processor.prompt.md:53, :111).
3. `media_switch`. `setSendable` reads the same shape wrongly
   (media-meta-data.service.ts:1960): the cached selection is never dropped.
4. `patch`. `PATCH :id` with a new number never evicts the copy under the old one
   (user.service.ts:322-333): `update` adds the old number's key only when it was
   asked by number, and the PATCH asks by id. user.controller.ts:1098-1100 says that
   it goes through `update` "so the user cache is evicted". `WritesEvict` holds with
   that copy as an exception of its own.

Met while modelling; the models follow the code:

* a failure after a done onboarding turn's commit: the retry finds the user
  onboarded and goes to the lesson (inbound.processor.ts:402); the rollback that
  onboarding.service.prompt.md:52-53 relies on does not run;
* a re-run after a stall has `attemptsMade = 0` and skips the cleanup that should
  give `processAnswer` a clean slate (inbound.processor.ts:520);
* `imageErrors` and `letterErrors` survive a right answer and are charged to the
  next letter (literacy-lesson.machine.ts:912);
* an ASER onboarding run that ends early forces two lessons to the placement
  level: its finished state is found again by the next (aser.service.ts:318);
* a hail-mary job that is rate limited has already started the lesson it was to
  carry; the retry's `processAnswer` throws and the reminder goes out without a
  lesson (hail-mary.processor.ts:160);
* deleting an account leaves the copies of those it referred: the same
  `[rows, count]`;
* "a student missed by a failed night is picked up the next night"
  (test-results.service.ts:540-541), unless the backfill was run in between: its row
  may be the student's newest, and only a full run, which
  backfill-usage.prompt.md:43-44 asks for, or another answer brings the student back.
  `MissedIsPickedUp` leaves these students out;
* `save()` writes every column in which a loaded row differs, so a slower writer
  undoes a faster one: if the onboarding's last turn commits between the load and the
  SELECT of `update` (user.service.ts:290, 295), a staff member's write puts the birth
  year and the permission back to null, with the onboarding row at `done`. It
  re-inserts an account deleted before its SELECT; one deleted after it is not
  updated, but its copy is published;
* an account whose seed scores failed is never welcomed (inbound.processor.ts:229);
* a demoted student can jump back, against literacy-lesson.service.ts:48-54;
* an A that was corrected from a near B is marked close, against
  sentence-assessment.ts:233-235;
* a file that is uploaded again after it failed, while the save of the first
  request is still between its SELECT and its UPDATE, may end as a ready row
  without a url: the older copy's url is written over the one of a preload that
  was retried (media-meta-data.service.ts:2357). `OnWhatsApp` therefore holds for
  one request at a time; the lookup defends itself (it asks for a url), as does
  the morning update (its test "also requeues when status=ready but wa_media_url
  is missing");
* `wa_media_url` is documented as unique (dto.prompt.md:37) and is not; the audio
  rows of a passage may be inserted after its family was rolled back; a file whose
  upload to S3 failed marks a card failed, and the next attempt of the job skips.


## Proofs

TLAPS checks the theorems below for every value of the constants that the named
assumptions allow. The assumptions fix types, keep names apart and, in three
places named below, relate numbers of the code; TLC evaluates them in the runs.
Each safety proof has the same shape: an inductive invariant that contains the
property, one lemma per action (or per group of actions that touch the same
conjuncts) and a last step for the temporal part.

`InboundTurn_proofs`, from `JobsAssumption` and `AnswersAssumption` (`TapsFit`: from
`TapsAssumption`): any jobs and messages, any enqueueing of one to the other, any
attempts, failures and stalls.

* `TypeCorrect`. `TypeInv` adds to the types that a job that runs has an attempt
  left, and that the next onboarding state and the row are known where they are
  written; without these the retries would leave the types.
* `RolledBackStaysClean`. The property is inductive by itself: the sweep and the
  flag are one statement's work, and every insert looks at the flag.
* `ConsentBeforeLessons`. `GateInv`: a job past the gate, its local copy of the
  user or a cached copy that says onboarded implies that the columns do, and they
  are never reset. The caches may be old, but only in the harmless direction.
* `OneAnswerPerNote`. `OnceInv`: wherever the job of a message enqueued once may still
  write an answer, none of that message is in the table, as a retry cleans up first.
* `UndeliveredIsUndone`, `DeliveredIsKept`. `UndoInv` and `DeliveredInv` relate the
  job's place, the window, the rollback flag and the audit row to the rows.
* `NoForkHeard`. `ForkInv`: windows are open one at a time (`OneOpen`); what was told
  before a window opened is in the table, and whatever is answered inside it
  answers that or a later row (`HeardFirst`, `AnswersAfter`); rows are younger than
  what they answer (`RowsInOrder`). Of two rows with one parent only one can then
  have been told. Stalls are allowed.
* `PromiseIsKept`: `InboundTurn` implements `TurnPromise`. It assumes `MaxStalls = 0`,
  for a re-run after a worker's death may undo what was told, and goes by steps:
  each action of the worker is mapped to a step of the promise or a stutter. The
  invariant says that a told message has only its audit row left to write, and of
  an undone one that its rows are gone and none can come back.
* `TapsFit`, for any taps, attempts and questions. `TapInv`: an attempt's answer hangs
  on an anchor of its own and is to the question it read, no question is asked
  again once it is answered, and the tap that wabot still waits for is of a
  question no shown answer is to. That wabot waits for one tap at a time is needed.

`Onboarding_proofs`, from `AnswersAssumption`, `YearAssumption`, `BoundsAssumption`.

* `TypeCorrect`.
* `ConsentFirst`. `ChainInv` says of every row, turn in flight and completed column
  that its snapshot lies past the consent only if what was said on its chain
  agreed; a turn extends the chain of the row it read, not of the newest.
* `StaffReadTheTurn`. `AnswersInv`: each row is the machine's reply to the row it
  answered. The rest is a case split over the machine's transitions: what was read
  can be told from the snapshots before and after it (`ToldFromSnapshots`), or is
  marked as not understood (`MarkedUnread`).

`Reminder_proofs`, from `ReminderAssumption`.

* `TypeCorrect`, with the lesson rows numbered without a gap.
* `TimerStaysArmed`. `ArmedInv`: a worker works on an active job, and no re-arming
  counts while that job, or a failed one, holds the parent's id.
* `HeardLessonsStand`. `StandsInv` follows the lesson a worker has started.
* `NobodyIsNagged`. `OnceInv`: whoever was reminded and whose reminder was reported
  delivered has no job left that would remind again, and there is one send job a
  message.

`Lesson_proofs`, from `LettersAssumption` and `AserAssumption` (the letter loop),
`BankAssumption` and `ItemsAssumption` (the test), `PlanAssumption`, `WordAssumption`
and `ReadAssumption`.

* `LetterToAsk`, `LettersScored`. `LoopInv` has five parts (`TypesOK`, `QueueInLoop`,
  `NoImageFresh`, `SentenceSpent`, `AlwaysALetterToAsk`); `HeardInv` ties what is
  scored to what was heard.
* `LessonEnds`: the measure of `LessonShrinks` (`AnswersLeft`) decreases in every
  transition, but for a voice note where a tap is expected, for queues of
  any length.
* `EveryItemCountedOnce`, `ResultIsBracketed`, for any banks, passages and thresholds.
  `TestInv`: what a run has passed lies below the level it is at and what it has
  failed above (`Between`), the machine's letter test and the run's count the same
  answers (`LetterInv`), and each item handed out is counted or waits (`CountedIn`).
  The counts are cardinalities of the passages seen, kept apart by `Shown`.
* `NoRepeatWhileNew`, an action property: what a step gives was never given before
  while the bank has a passage that was not, whatever the windows cut off.
* `TheWindowIsRight`. The window is an end of the history, so the n-th last done row
  of the one is the n-th last of the other (`NthMoves`); a lesson is told by its
  last row and by the done row before it, and where the window lacks that row the
  lesson is one of those it ignores, unless the window is the whole history.
* `WrongWordsAreDrilled`, for any letters, families, words and answers. If the edits
  of an answer's word replace and add nothing, they keep the word's letters in
  their order: either the answer is the word, which `MarkWord` takes, or it is
  longer and holds it, which `DetectInsertion` takes. `StepFits` follows this back
  along the trace; the nearest word is one that was said (`NearestIsSaid`).
* `MoreEnginesNeverHurt`, an action property. A word's rank never rises, the case in
  which nothing had been heard included (`NoWordWorse`), from which the flawed and
  the drilled words follow. The errors need more: a swapped pair that loses its
  first word keeps its error at the second, so the errors of any beginning of the
  passage are fewer by one while the pair is open (`NoMoreErrors`).

`NightlyResults_proofs`, about the nights and the test scores, from `AreasDiffer`,
`NothingAssumption`, `TablesAssumption` and `BoundsAssumption`; `CountsAssumption`,
`BatchesAssumption` (the batches ask for what fits into a test, 4 + 11 of 20 in the
code) and `NoneAssumption`.

* `NoAnswerIsMissed`. `NightInv`: a student's newest row holds every answer before it
  but for those that slipped, or holds none at all (`Counted`); who is not a
  candidate has a row younger than their answers, which a row that the backfill adds
  during the run cannot undo (`RunInv`).
* `LettersStayInReach`. `BookInv`: a history is a seed and scores that are none below
  the floor (`Scores`). A bin depends on the lowest score, which more answers only
  lower (`WasLow`). The scores after right answers are a recursive function: one is
  given (`AddedUp`), and by a least counterexample there is no other (`AddsUp`).
* `AgesAsStated`, from `MaxMonths >= 77`, the months from the earliest question to the
  end of the last band; with fewer looked ahead, that band's twelve months are cut
  off. The birth month is computed once (`BornThen`), each year of age is an interval
  of twelve months (`MonthsOfAge`), and each band is one year.
* `AreasAddUp`. `AreaInv` follows a night's sums from reading to writing (`ReadFits`),
  chunk by chunk (`Written`: an area that is no longer to be written has the vector
  the run computed), and the stored rows from one run to the next of their date
  (`RowsFit`): as long as nobody moves, a school that had a row is written again.
* `LatestIsTheSeriesEnd`. A selection stays inside a test's size through every batch,
  by induction over the batches, and a pool that is enough for a test stays
  enough with one more attempt (`PoolFits` keeps it within the bound).

`UserDirectory_proofs`, from `UserAssumption`; about the series from
`TractionAssumption`; about the marks from `UsageAssumption` and
`MarksAssumption` (no gap that counts spans two marks: 298 s at most against
five minutes).

* `NothingUncommittedIsRead`. `CommittedInv`: the rows' values are in `past`, and so
  are those of a row a process loaded, selected or is about to publish, but for an
  account in `unsaved`. A process that updates inside a transaction holds a value
  that is not, and the invariant says why that is harmless: it never comes to a
  step that publishes. Missed evictions matter here, as they skip a step.
* `EveryWriteEvicts`. `WriteInv` says of every copy that is stale and neither in `doubt`
  nor in `left` which process will still evict it and under which key, and of every
  process which number the row it is about to write has. What `Save` leaves of a row
  is followed column by column (`MixedRow`, `SavedRow`).
* `WarmedCopiesCountTheNight`. `SweptIs`: the sweep by date counts the students whose
  newest verdict is a pass, in whatever order rows of one date come. `WarmInv`: a
  warmed day's copy counts that night, or the warm job's own computation is still
  to land (`WarmedOK`); whoever shares a computation that began earlier is not
  counted as warm.
* `MarksAreToldOnce`. `UsageInv` states the property for what is answered so far and
  for days that may still turn out calm (`Quiet`): there the sums grow by the
  newest turn's gap alone (`NewestAdds`), so a mark is crossed by one turn.

`Content_proofs`, from `PassageAssumption`, `MediaAssumption`, `MorningAssumption` (the
send jobs are finitely many).

* `NothingLivesBelow`. A step leaves a family's rows as they are, inserts them, adds
  one audio row or rolls one row back, deepest first (`RowsAfter`, `RowsStep`).
* `SweepLeavesNone`. `SweptInv`: a passage noted as failed and still live is one the
  sweep has yet to come to, or the sweep has not run to its end.
* `LiveWasVetted`. `VettedInv`: a request beyond a gate has that gate's runs.
* `OneCardEach`. `MediaInv` says what requests, jobs and the dashboard rely on: a row
  that one of them holds is there, and a copy of it is neither of an absent nor of
  a rolled back row. `CardInv`: the cards no maker is at and the jobs that are about
  to render one are together no more than the send jobs: a job goes on to render
  only after it found none, and is run again once it has rendered.
* `WordIsShown`. `WordInv`: until somebody takes a row out of use, every row may be
  sent, so whoever loses the insert of the drill word's row serves the winner's.
* `StampsAgree`: a row has a url exactly if it has the date of its upload, the
  second half of `OnWhatsApp`, for any number of requests that save copies read
  earlier. `repo.save` writes each column by itself, so it could take the one without
  the other if a copy's date differed from the row's while both have a url.
  `StampInv`: as long as some copy has no url, no date is overdue, so no two differ.

## Only model-checked

* Liveness (`EveryJobEnds`, `EveryReminderEnds` and those of `MediaLibrary`,
  `PassageFamily`, `NightlyResults`): the provers reach neither fairness nor ENABLED.
* The first half of `OnWhatsApp`, which holds for one request at a time only: its
  invariant would be about that bound.

## Not modelled

* Answer matching of the onboarding, the normalisation of transcripts, prompts,
  texts, cards: strings whose result the models choose or take from a small table.
* Dashboards, listings, share messages and the other projections of scores and
  usage: queries that change nothing. Geo entities and letters: plain CRUD.
* The mirror, scripts, migrations, telemetry, authorisation.
* The providers' insides (BullMQ, Postgres, TypeORM, Redis, S3, WhatsApp, HeyGen,
  ElevenLabs, the speech and language models): what the code relies on is in the
  actions that call them.
* `Reminder` and `InboundTurn` over one table of lesson rows: a voice note between
  a reminder's insert and its sending is judged against a word that was never
  shown (hail-mary.processor.ts:160). The two modules keep their rows
  at different grains; their product was not built.
* The lost update of a letter's score by two turns at once, and two typed-in
  passages that pass the duplicate check together: both are a read followed by an
  insert, and no promise of the code speaks of them.
* A nightly run that takes longer than the six hours after which it counts as
  crashed; the usage columns of the result rows; the comprehension flow's copy.
* That of two onboarding turns which read the same row the second overwrites the
  first, maybe a refusal (onboarding.service.ts:183), and that the re-run after a
  worker's death answers a note again (inbound.processor.ts:520): the models have
  both behaviours, no property is about them, as the code promises nothing there.
* The warm job of the public series that joins a computation begun before the night
  (traction.service.ts:54) is not counted as warm.
* The `turn` instance leaves worker deaths out; `turns` and the proofs have them.
