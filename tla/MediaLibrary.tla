------------------------------ MODULE MediaLibrary ------------------------------
(***************************************************************************)
(* The rows of media_metadata that lessons are illustrated with, their     *)
(* files in the bucket and their copies at WhatsApp, for one state         *)
(* transition id (stid): who creates a row (a dashboard upload, a rendered *)
(* image, ElevenLabs, HeyGen), the jobs that generate its file, carry the  *)
(* file to WhatsApp and carry it there again before it expires, the lookup *)
(* of the lesson with its cache, and the dashboard's rollback and switch.  *)
(* repo.update writes the named columns.  repo.save reads the row, compares*)
(* it with the caller's copy and writes the columns that differ.           *)
(***************************************************************************)
EXTENDS Naturals, FiniteSets

CONSTANTS Rows,      \* rows that may be created
          Kinds,     \* the choices of a kind for every row
          Generic,   \* rows stored under the generic key ("_-...")
          Makers,    \* requests and jobs that create rows
          Readers,   \* turns that look the stid up
          Attempts,  \* attempts of the BullMQ jobs
          Tries,     \* attempts of the drill word's insert
          MaxEdits,  \* bound: rollbacks, switches and repeated uploads
          Null

ASSUME MediaAssumption ==
  /\ Attempts \in Nat \ {0} /\ Tries \in Nat \ {0} /\ MaxEdits \in Nat
  /\ Kinds \subseteq
       [Rows -> {"picture", "recording", "text", "report", "tts", "video", "auto"}]
  /\ Generic \subseteq Rows /\ Null \notin Rows

VARIABLES kind,    \* which row is created how
          rows,    \* the table
          bucket,  \* rows whose file is in S3
          make,    \* what a maker is at, with its copy of the row
          jobs,    \* per row: its generation, its webhook, its two uploads
          look,    \* what a reader is at, with the media it picked
          cache,   \* the cached result of the lookup, or Null
          admin,   \* what the dashboard is at
          edits

vars    == <<kind, rows, bucket, make, jobs, look, cache, admin, edits>>
reading == <<look, cache>>
dash    == <<admin, edits>>

Absent  == [status |-> "absent", file |-> FALSE, url |-> FALSE, stamp |-> "none",
            rolled |-> FALSE, sendable |-> TRUE, young |-> TRUE, born |-> 0]
ColumnsUnstamped == {"status", "file", "url", "rolled", "sendable"}
Columns == {"status", "file", "url", "stamp", "rolled", "sendable"}
Cards   == {r \in Rows : kind[r] = "report" /\ rows[r] # Absent}

\* A row as the code inserts it; the age of a row only matters among the cards.
Fresh(status, file) ==
  [Absent EXCEPT !.status = status, !.file = file, !.born = Cardinality(Cards)]

Idle   == [at |-> "idle", row |-> Null, copy |-> Absent, seen |-> Absent, next |-> "idle"]
NoJob  == [try |-> 0, at |-> "none", reload |-> FALSE]
Queues == {"generate", "webhook", "preload", "sweep"}
NewJob(reload) == [try |-> 1, at |-> "wait", reload |-> reload]
HasStid(r) == kind[r] # "report"
Type(r)    == CASE kind[r] \in {"text", "auto"}      -> "text"
                [] kind[r] \in {"picture", "report"} -> "image"
                [] kind[r] \in {"recording", "tts"}  -> "audio"
                [] kind[r] = "video"                 -> "video"

\* BullMQ's answer to a throw: again, until the attempts are used up.
IsLast(j) == j.try >= Attempts
Retry(j)  == IF IsLast(j) THEN NoJob ELSE [j EXCEPT !.try = @ + 1]

\* A drop of the cached lookup: only under the row's own stid, so that a generic
\* row leaves the results it was picked for.
Dropped(r) == IF HasStid(r) /\ r \notin Generic THEN Null ELSE cache

Init ==
  /\ kind \in Kinds /\ rows = [r \in Rows |-> Absent] /\ bucket = {}
  /\ make = [p \in Makers |-> Idle] /\ jobs = [r \in Rows |-> [q \in Queues |-> NoJob]]
  /\ look = [p \in Readers |-> [at |-> "idle", pick |-> {}, try |-> 0]] /\ cache = Null
  /\ admin = [at |-> "idle", row |-> Null, key |-> FALSE] /\ edits = 0

-----------------------------------------------------------------------------
(* Creating a row.                                                          *)

\* uploadStaticMedia, text: the row is ready at once.
UploadText(r) ==
  /\ kind[r] = "text" /\ rows[r] = Absent
  /\ rows' = [rows EXCEPT ![r] = Fresh("ready", FALSE)]
  /\ UNCHANGED <<kind, bucket, make, jobs, reading, dash>>

\* uploadStaticMedia, a file: a row of the same content is reused if it failed and
\* else left as it is, also when it is rolled back.  The file is stored first.
UploadFile(p, r) ==
  /\ kind[r] \in {"picture", "recording"} /\ make[p] = Idle
  /\ bucket' = bucket \cup {r}
  /\ \/ /\ rows[r] = Absent
        /\ rows' = [rows EXCEPT ![r] = Fresh("created", TRUE)] /\ UNCHANGED edits
        /\ make' = [make EXCEPT ![p] = [Idle EXCEPT !.at = "enqueue", !.row = r,
                                                    !.copy = rows'[r]]]
     \/ /\ rows[r].status = "failed" /\ UNCHANGED rows
        /\ edits < MaxEdits /\ edits' = edits + 1
        /\ make' = [make EXCEPT ![p] =
             [Idle EXCEPT !.at = "select", !.row = r, !.next = "enqueue",
                !.copy = [rows[r] EXCEPT !.status = "created", !.file = TRUE,
                                         !.rolled = FALSE, !.sendable = TRUE]]]
  /\ UNCHANGED <<kind, jobs, reading, admin>>

\* createRenderedImageMedia, createHeygenMedia and createElevenlabsMedia insert
\* the row before they have a file.
InsertRow(p, r) ==
  /\ make[p] = Idle /\ rows[r] = Absent
  /\ rows' = [rows EXCEPT ![r] = Fresh("created", FALSE)]
  /\ make' = [make EXCEPT ![p] = [Idle EXCEPT !.row = r, !.copy = rows'[r],
                !.at = IF kind[r] = "report" THEN "store" ELSE "enqueue"]]
  /\ UNCHANGED <<kind, bucket, jobs, reading, dash>>

\* The rendered image goes to S3; where that fails the row is failed.
StoreImage(p) ==
  /\ make[p].at = "store"
  /\ \/ /\ bucket' = bucket \cup {make[p].row}
        /\ make' = [make EXCEPT ![p] = [@ EXCEPT !.at = "select", !.next = "enqueue",
                                                 !.copy.file = TRUE]]
     \/ /\ make' = [make EXCEPT ![p] = [@ EXCEPT !.at = "select", !.next = "thrown",
                                                 !.copy.status = "failed"]]
        /\ UNCHANGED bucket
  /\ UNCHANGED <<kind, rows, jobs, reading, dash>>

\* A file is handed to the preload queue, a script to a generation queue.
Enqueue(p) ==
  LET r == make[p].row
      q == IF kind[r] \in {"tts", "video"} THEN "generate" ELSE "preload"
  IN /\ make[p].at = "enqueue"
     /\ \/ /\ jobs' = [jobs EXCEPT ![r][q] = NewJob(FALSE)]
           /\ make' = [make EXCEPT ![p] =
                IF q = "generate" THEN [@ EXCEPT !.at = "mark"]
                ELSE [@ EXCEPT !.at = "select", !.copy.status = "queued",
                               !.next = IF kind[r] = "report" THEN "done" ELSE "idle"]]
           /\ UNCHANGED rows
        \/ /\ q = "preload" /\ UNCHANGED <<jobs, rows>>
           /\ make' = [make EXCEPT ![p] =
                [@ EXCEPT !.at = "select", !.copy.status = "queued",
                          !.next = IF kind[r] = "report" THEN "thrown" ELSE "idle"]]
        \/ /\ q = "generate" /\ rows' = [rows EXCEPT ![r].status = "failed"]
           /\ make' = [make EXCEPT ![p] = Idle] /\ UNCHANGED jobs
     /\ UNCHANGED <<kind, bucket, reading, dash>>

\* createHeygenMedia and createElevenlabsMedia note that the job is queued, which
\* by then may have run.
Mark(p) ==
  /\ make[p].at = "mark" /\ make' = [make EXCEPT ![p] = Idle]
  /\ rows' = [rows EXCEPT ![make[p].row].status = "queued"]
  /\ UNCHANGED <<kind, bucket, jobs, reading, dash>>

SaveSelect(p) ==
  /\ make[p].at = "select"
  /\ make' = [make EXCEPT ![p] = [@ EXCEPT !.at = "write", !.seen = rows[make[p].row]]]
  /\ UNCHANGED <<kind, rows, bucket, jobs, reading, dash>>

\* The columns in which the caller's copy differs from the row as it was read.
Diffed(db, seen, copy) ==
  [c \in DOMAIN db |-> IF c \in Columns /\ copy[c] # seen[c] THEN copy[c] ELSE db[c]]

SaveWrite(p) ==
  LET m == make[p] IN
  /\ m.at = "write"
  /\ rows' = [rows EXCEPT ![m.row] = Diffed(@, m.seen, m.copy)]
  /\ make' = [make EXCEPT ![p] =
       IF m.next = "idle" THEN Idle ELSE [m EXCEPT !.at = m.next, !.seen = Absent]]
  /\ UNCHANGED <<kind, bucket, jobs, reading, dash>>

-----------------------------------------------------------------------------
(* Generating a file: processElevenlabsGenerateJob, processHeygenGenerateJob *)
(* and HeyGen's callback.                                                    *)

At(r, q, at)     == jobs[r][q].at = at
SetJob(r, q, j)  == jobs' = [jobs EXCEPT ![r][q] = j]
Failed(r)        == [rows EXCEPT ![r].status = "failed"]

\* The file is stored and noted; media_details are replaced, and with them the
\* switch that the dashboard keeps there.
Stored(r) ==
  [rows EXCEPT ![r] = [@ EXCEPT !.file = TRUE, !.status = "queued", !.sendable = TRUE]]

\* ElevenLabs (or HeyGen, for speech) answers with the file.
Speak(r) ==
  /\ kind[r] = "tts" /\ At(r, "generate", "wait")
  /\ bucket' = bucket \cup {r} /\ rows' = Stored(r)
  /\ SetJob(r, "generate", [jobs[r]["generate"] EXCEPT !.at = "add"])
  /\ UNCHANGED <<kind, make, reading, dash>>

\* HeyGen accepts the video, and will call back.
Render(r) ==
  /\ kind[r] = "video" /\ At(r, "generate", "wait")
  /\ rows' = [rows EXCEPT ![r].status = "queued", ![r].sendable = TRUE]
  /\ jobs' = [jobs EXCEPT ![r]["generate"] = NoJob, ![r]["webhook"].at = "rendering"]
  /\ UNCHANGED <<kind, bucket, make, reading, dash>>

\* The provider refuses (4xx) or fails (5xx, noted at the last attempt only), the
\* call throws, or the job is one of the load test, which is not run again.
NotGenerated(r) ==
  LET j == jobs[r]["generate"] IN
  /\ At(r, "generate", "wait")
  /\ \/ rows' = Failed(r) /\ \E end \in {Retry(j), NoJob} : SetJob(r, "generate", end)
     \/ SetJob(r, "generate", Retry(j)) /\ UNCHANGED rows
  /\ UNCHANGED <<kind, bucket, make, reading, dash>>

\* HeyGen reports the video as rendered or as failed.
Callback(r) ==
  /\ At(r, "webhook", "rendering")
  /\ \E at \in {"wait", "fail"} : SetJob(r, "webhook", [NewJob(FALSE) EXCEPT !.at = at])
  /\ UNCHANGED <<kind, rows, bucket, make, reading, dash>>

\* processHeygenInboundJob.
Webhook(r) ==
  LET j == jobs[r]["webhook"] IN
  /\ \/ /\ At(r, "webhook", "fail") /\ rows' = Failed(r) /\ UNCHANGED bucket
        /\ SetJob(r, "webhook", NoJob)
     \/ /\ At(r, "webhook", "wait") /\ rows' = Stored(r) /\ bucket' = bucket \cup {r}
        /\ SetJob(r, "webhook", [j EXCEPT !.at = "add"])
     \/ /\ At(r, "webhook", "wait") /\ UNCHANGED bucket
        /\ rows' = IF IsLast(j) THEN Failed(r) ELSE rows
        /\ SetJob(r, "webhook", Retry(j))
  /\ UNCHANGED <<kind, make, reading, dash>>

\* Both hand the file to the preload queue; a failure repeats the whole job.
AddPreload(r, q) ==
  /\ q \in {"generate", "webhook"} /\ At(r, q, "add")
  /\ \/ jobs' = [jobs EXCEPT ![r][q] = NoJob, ![r]["preload"] = NewJob(FALSE)]
     \/ SetJob(r, q, Retry([jobs[r][q] EXCEPT !.at = "wait"]))
  /\ UNCHANGED <<kind, rows, bucket, make, reading, dash>>

-----------------------------------------------------------------------------
(* Carrying the file to WhatsApp: processWhatsappPreloadJob, run by the      *)
(* preload jobs and by the sweep's.                                          *)

PreloadRead(r, q) ==
  /\ q \in {"preload", "sweep"} /\ At(r, q, "wait")
  /\ SetJob(r, q, IF rows[r].rolled \/ rows[r].status = "failed" THEN NoJob
                  ELSE [jobs[r][q] EXCEPT !.at = "upload"])
  /\ UNCHANGED <<kind, rows, bucket, make, reading, dash>>

\* recordWhatsappUpload: the url and its stamp in one statement, and ready unless
\* the row is only reloaded.
Recorded(r, reload) ==
  [rows EXCEPT ![r] = [@ EXCEPT !.url = TRUE, !.stamp = "fresh",
                                !.status = IF reload THEN rows[r].status ELSE "ready"]]

Uploaded(r, q) ==
  /\ At(r, q, "upload") /\ r \in bucket
  /\ rows' = Recorded(r, jobs[r][q].reload)
  /\ SetJob(r, q, [jobs[r][q] EXCEPT !.at = "uncache"])
  /\ UNCHANGED <<kind, bucket, make, reading, dash>>

Uncache(r, q) ==
  /\ At(r, q, "uncache") /\ SetJob(r, q, NoJob) /\ cache' \in {Dropped(r), cache}
  /\ UNCHANGED <<kind, rows, bucket, make, look, dash>>

\* The file cannot be fetched, WhatsApp refuses it (4xx), or is not available.
NotUploaded(r, q) ==
  /\ q \in {"preload", "sweep"} /\ At(r, q, "upload")
  /\ \/ UNCHANGED rows
     \/ r \in bucket /\ rows' = Failed(r)
  /\ SetJob(r, q, Retry([jobs[r][q] EXCEPT !.at = "wait"]))
  /\ UNCHANGED <<kind, bucket, make, reading, dash>>

-----------------------------------------------------------------------------
(* The hourly sweep, and the time that passes.                               *)

\* ELIGIBLE_WHERE: overdue, or stranded before it was uploaded once.
Eligible(r) ==
  /\ rows[r].file /\ ~rows[r].rolled /\ HasStid(r)
  /\ \/ rows[r].status = "ready" /\ rows[r].stamp # "fresh"
     \/ rows[r].status \in {"created", "queued"} /\ ~rows[r].young

SweepReloads ==
  /\ \A r \in Rows : jobs[r]["sweep"] = NoJob
  /\ \E r \in Rows : Eligible(r)
  /\ jobs' = [r \in Rows |-> [jobs[r] EXCEPT !["sweep"] =
                IF Eligible(r) THEN NewJob(TRUE) ELSE @]]
  /\ UNCHANGED <<kind, rows, bucket, make, reading, dash>>

\* Every eligible row becomes a job that flips the row to ready unless it is.  The
\* limit of 9000 rows is never reached, and the jobs of the hour before have ended.
Sweep ==
  /\ \A r \in Rows : jobs[r]["sweep"] = NoJob
  /\ \E r \in Rows : Eligible(r)
  /\ jobs' = [r \in Rows |-> [jobs[r] EXCEPT !["sweep"] =
                IF Eligible(r) THEN NewJob(rows[r].status = "ready") ELSE @]]
  /\ UNCHANGED <<kind, rows, bucket, make, reading, dash>>

\* Hours and days pass only where nothing is under way.
Quiet(r) ==
  /\ rows[r] # Absent /\ \A p \in Makers : make[p].row # r
  /\ \A q \in Queues : jobs[r][q].at \in {"none", "rendering"}

GrowOld(r) ==
  /\ Quiet(r) /\ rows[r].young /\ kind[r] \notin {"text", "auto"}
  /\ rows' = [rows EXCEPT ![r].young = FALSE]
  /\ UNCHANGED <<kind, bucket, make, jobs, reading, dash>>

Expire(r) ==
  /\ Quiet(r) /\ rows[r].stamp = "fresh" /\ rows' = [rows EXCEPT ![r].stamp = "old"]
  /\ UNCHANGED <<kind, bucket, make, jobs, reading, dash>>

-----------------------------------------------------------------------------
(* The lookup of a lesson's turn: findMediaByStateTransitionId.              *)

Deliverable(r) == ~rows[r].rolled /\ rows[r].sendable
Servable(r) ==
  /\ HasStid(r) /\ rows[r].status = "ready" /\ Deliverable(r)
  /\ rows[r].url \/ Type(r) = "text"

\* The rows of one media type to choose from: the stid's own before generic ones.
Best(t) ==
  LET all == {r \in Rows : Type(r) = t /\ Servable(r)}
  IN IF all \ Generic # {} THEN all \ Generic ELSE all
IsPick(S) ==
  /\ S \subseteq UNION {Best(t) : t \in {Type(r) : r \in Rows}}
  /\ \A t \in {Type(r) : r \in Rows} :
       Cardinality({r \in S : Type(r) = t}) = (IF Best(t) = {} THEN 0 ELSE 1)

ShowsWord(S) == \E r \in S : Type(r) \in {"text", "image"}
AutoRows     == {r \in Rows : kind[r] = "auto"}   \* one, if the stid asks for a drill word

Set(p, at, pick, try) == look' = [look EXCEPT ![p] = [at |-> at, pick |-> pick, try |-> try]]

\* A turn takes what is cached; a miss, or a cache that cannot be read, goes to the
\* table.
Lookup(p) ==
  /\ look[p].at = "idle" /\ \E r \in Rows : HasStid(r)
  /\ \E S \in SUBSET Rows :
       /\ IsPick(S)
       /\ IF AutoRows # {} /\ ~ShowsWord(S) THEN Set(p, "ensure", S, 1) ELSE Set(p, "fill", S, 0)
  /\ UNCHANGED <<kind, rows, bucket, make, jobs, cache, dash>>

\* ensureDrillWordTextMedia: insert the word's row, or take the one that is there,
\* if it may be sent; a failing database is asked again.
EnsureInsert(p, r) ==
  /\ rows[r] = Absent /\ rows' = [rows EXCEPT ![r] = Fresh("ready", FALSE)]
  /\ Set(p, "fill", look[p].pick \cup {r}, 0)
EnsureWinnerSilent(p, r) ==
  rows[r] # Absent /\ Set(p, "fill", look[p].pick, 0) /\ UNCHANGED rows
EnsureWinner(p, r) ==
  /\ rows[r] # Absent /\ UNCHANGED rows
  /\ Set(p, "fill", look[p].pick \cup (IF Deliverable(r) THEN {r} ELSE {}), 0)
EnsureFails(p) ==
  /\ UNCHANGED rows
  /\ IF look[p].try < Tries THEN Set(p, "ensure", look[p].pick, look[p].try + 1)
                            ELSE Set(p, "idle", {}, 0)
Ensure(p) ==
  /\ look[p].at = "ensure"
  /\ \/ \E r \in AutoRows : EnsureInsert(p, r) \/ EnsureWinner(p, r)
     \/ EnsureFails(p)
  /\ UNCHANGED <<kind, bucket, make, jobs, cache, dash>>

\* What was found is cached, if Redis takes it.
Fill(p) ==
  /\ look[p].at = "fill" /\ Set(p, "idle", {}, 0)
  /\ cache' \in {cache} \cup (IF look[p].pick # {} THEN {look[p].pick} ELSE {})
  /\ UNCHANGED <<kind, rows, bucket, make, jobs, dash>>

-----------------------------------------------------------------------------
(* The dashboard: markRolledBack and setSendable.                            *)

Dash(at, r, key) == admin' = [at |-> at, row |-> r, key |-> key]
Done             == admin' = [at |-> "idle", row |-> Null, key |-> FALSE]

BeginRollback(r) ==
  /\ admin.at = "idle" /\ edits < MaxEdits /\ edits' = edits + 1
  /\ rows[r] # Absent /\ Dash("flag", r, rows[r].file)
  /\ UNCHANGED <<kind, rows, bucket, make, jobs, reading>>

Flag ==
  /\ admin.at = "flag" /\ Dash("drop", admin.row, admin.key)
  /\ rows' = [rows EXCEPT ![admin.row].rolled = TRUE]
  /\ UNCHANGED <<kind, bucket, make, jobs, reading, edits>>

\* The stid of the cached lookup to drop is taken from the first of [rows, count],
\* where it is not: nothing is dropped.
SetSendable(r) ==
  /\ admin.at = "idle" /\ edits < MaxEdits /\ edits' = edits + 1
  /\ rows[r] # Absent /\ rows' = [rows EXCEPT ![r].sendable = ~@]
  /\ UNCHANGED <<kind, bucket, make, jobs, reading, admin>>

\* The cached lookup is dropped, then a rolled back file is deleted; neither
\* failure is reported.
Drop ==
  /\ admin.at = "drop" /\ cache' \in {Dropped(admin.row), cache}
  /\ IF admin.key THEN Dash("delete", admin.row, TRUE) ELSE Done
  /\ UNCHANGED <<kind, rows, bucket, make, jobs, look, edits>>

Delete ==
  /\ admin.at = "delete" /\ Done /\ bucket' \in {bucket \ {admin.row}, bucket}
  /\ UNCHANGED <<kind, rows, make, jobs, reading, edits>>

-----------------------------------------------------------------------------
MakerStep(p) == StoreImage(p) \/ Enqueue(p) \/ Mark(p) \/ SaveSelect(p) \/ SaveWrite(p)

Create == \E r \in Rows :
  \/ UploadText(r)
  \/ \E p \in Makers :
       \/ UploadFile(p, r)
       \/ kind[r] \in {"tts", "video"} /\ InsertRow(p, r)

JobStep(r) ==
  \/ Speak(r) \/ Render(r) \/ NotGenerated(r) \/ Callback(r) \/ Webhook(r)
  \/ \E q \in Queues : AddPreload(r, q) \/ PreloadRead(r, q) \/ NotUploaded(r, q)
                     \/ Uploaded(r, q) \/ Uncache(r, q)

LookStep(p) == Lookup(p) \/ Ensure(p) \/ Fill(p)

AdminStep == Flag \/ Drop \/ Delete \/ \E r \in Rows : BeginRollback(r) \/ SetSendable(r)

Next ==
  \/ Create
  \/ \E p \in Makers : MakerStep(p)
  \/ \E r \in Rows : JobStep(r) \/ GrowOld(r) \/ Expire(r)
  \/ Sweep
  \/ \E p \in Readers : LookStep(p)
  \/ AdminStep

\* Requests go on, workers run and the sweep comes every hour.  An upload that is
\* tried again and again succeeds some time.
Fairness ==
  /\ \A p \in Makers : WF_vars(MakerStep(p))
  /\ WF_vars(Sweep) /\ WF_vars(Flag \/ Drop \/ Delete)
  /\ \A r \in Rows :
       /\ WF_vars(JobStep(r))
       /\ \A q \in {"preload", "sweep"} : SF_vars(Uploaded(r, q))

Spec == Init /\ [][Next]_vars /\ Fairness

-----------------------------------------------------------------------------

\* A row has a url exactly if it has the date of the upload, however many saves of
\* older copies are written over each other (media-meta-data.entity.ts:79, "the two
\* can never disagree").
StampAgrees == \A r \in Rows : rows[r].url <=> rows[r].stamp # "none"

\* As long as a file is uploaded by one request at a time, a row that lessons may
\* pick has a url to send and its file.
OnWhatsApp ==
  /\ StampAgrees
  /\ \A r \in Rows : rows[r].status = "ready" /\ kind[r] \notin {"text", "auto"} =>
       rows[r].url /\ rows[r].file

\* "A lost job can no longer strand media forever" (whatsapp-preload.processor.ts:126):
\* a row whose upload gave up, was never enqueued or expired is on WhatsApp
\* again some time, unless it is taken out of use or its file is gone.
NeverStranded ==
  \A r \in Rows : Eligible(r) /\ r \in bucket ~> ~Eligible(r) \/ r \notin bucket

\* A drill hand-off always shows the word, though readers race to create its row
\* and take each other's results from the cache, unless the dashboard hid a row.
WordShown ==
  AutoRows # {} /\ edits = 0 =>
    /\ \A p \in Readers : look[p].at = "fill" => ShowsWord(look[p].pick)
    /\ cache # Null => ShowsWord(cache)

\* "Drops the stid's selection cache so the change is live on the next turn"
\* (setSendable): a row of the stid that is switched off is not served from the cache.
SwitchedOffIsLive ==
  \A r \in Rows \ Generic :
    ~rows[r].sendable /\ admin.at = "idle" /\ (\A p \in Readers : look[p].at = "idle")
      => cache = Null \/ r \notin cache
=============================================================================
