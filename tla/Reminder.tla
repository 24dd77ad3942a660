-------------------------------- MODULE Reminder --------------------------------
(***************************************************************************)
(* The reminders of one parent: the hail-mary job, delayed by 23 h 55 min, *)
(* which every turn removes and adds again under one id, and the evening   *)
(* cron with its send jobs.  Both start a lesson whose prompt they carry,  *)
(* both are retried after a rate limit.  What a turn does is InboundTurn's *)
(* subject; here it saves its message, re-arms the timer and either leaves *)
(* a lesson row or is rolled back.                                         *)
(***************************************************************************)
EXTENDS Naturals, FiniteSets

CONSTANTS MaxMsgs,     \* bound: messages of the parent, numbered by created_at
          MaxAttempts, \* `attempts` of the queues hail-mary and notifier-send
          LookupsFail  \* whether a lesson or its media may fail to be found

ASSUME ReminderAssumption ==
  MaxMsgs \in Nat \ {0} /\ MaxAttempts \in Nat \ {0} /\ LookupsFail \in BOOLEAN

VARIABLES turn,        \* where the turn of each message is
          rolledBack,  \* messages of turns that were undone
          slot,        \* the job under the parent's hail-mary id
          pc,          \* the hail-mary worker
          carries,     \* whether the reminder being built has a lesson prompt
          young,       \* the newest lesson row waits for an answer, not yet stale
          starts,      \* reminders that wrote a fresh lesson row
          evenings,    \* messages the evening cron has reminded of
          sends,       \* jobs of the queue notifier-send
          heard,       \* reminders the parent got, in numbers
          lost,        \* reminders whose delivery was not reported back
          due          \* messages armed since the timer last fired or failed

vars == <<turn, rolledBack, slot, pc, carries, young, starts, evenings, sends,
          heard, lost, due>>
turns   == <<turn, rolledBack>>
lessons == <<young, starts>>
worker  == <<pc, carries>>
evening == <<evenings, sends>>
told    == <<heard, lost>>

Msgs     == 1 .. MaxMsgs
Triggers == {"hail-mary", "evening-reminder"}
NoJob    == [state |-> "none", for |-> 0, tries |-> 0]
Saved    == {m \in Msgs : turn[m] # "none"}
NewestOf(S) == CHOOSE m \in S : \A o \in S : o <= m

Init ==
  /\ turn = [m \in Msgs |-> "none"] /\ rolledBack = {}
  /\ slot = NoJob /\ pc = "idle" /\ carries = FALSE
  /\ young = FALSE /\ starts = {}
  /\ evenings = {} /\ sends = {} /\ heard = {} /\ lost = {} /\ due = {}

-----------------------------------------------------------------------------
(* BullMQ: an active job is locked and survives remove, and add returns the *)
(* job there is under the id, also a failed one that is kept.               *)
Removed(job)  == IF job.state = "active" THEN job ELSE NoJob
Added(job, m) ==
  IF job.state = "none" THEN [state |-> "delayed", for |-> m, tries |-> 0] ELSE job

\* Mutant: the job is added first and then removed.
RearmedAddFirst(step, job, m) == IF step = "saved" THEN Added(job, m) ELSE Removed(job)

\* The two calls of rearmHailMary, in the order of the code.
Rearmed(step, job, m) == IF step = "saved" THEN Removed(job) ELSE Added(job, m)

\* The message is saved; a turn of an earlier message may still be running.
Save(m) ==
  /\ turn[m] = "none" /\ \A o \in Msgs : o < m => turn[o] # "none"
  /\ turn' = [turn EXCEPT ![m] = "saved"]
  /\ UNCHANGED <<rolledBack, slot, worker, lessons, evening, told, due>>

RearmRemove(m) ==
  /\ turn[m] = "saved" /\ turn' = [turn EXCEPT ![m] = "removed"]
  /\ slot' = Rearmed("saved", slot, m)
  /\ UNCHANGED <<rolledBack, worker, lessons, evening, told, due>>

RearmAdd(m) ==
  /\ turn[m] = "removed" /\ turn' = [turn EXCEPT ![m] = "armed"]
  /\ slot' = Rearmed("removed", slot, m)
  /\ due' = IF slot.state \in {"active", "failed"} THEN due ELSE due \cup {m}
  /\ UNCHANGED <<rolledBack, worker, lessons, evening, told>>

\* Redis fails: logged, the turn goes on without its timer.
RearmFails(m) ==
  /\ turn[m] \in {"saved", "removed"} /\ turn' = [turn EXCEPT ![m] = "armed"]
  /\ due' = {}
  /\ UNCHANGED <<rolledBack, slot, worker, lessons, evening, told>>

\* The reply was delivered, and the turn's lesson row is the newest one; or it
\* was not, and the turn is undone.
EndTurn(m) ==
  /\ turn[m] = "armed" /\ turn' = [turn EXCEPT ![m] = "over"]
  /\ \/ young' = TRUE /\ UNCHANGED rolledBack
     \/ rolledBack' = rolledBack \cup {m} /\ UNCHANGED young
  /\ UNCHANGED <<slot, worker, starts, evening, told, due>>

\* Two minutes (five, for a passage) after its row a lesson is stale.
LessonAges ==
  /\ young /\ young' = FALSE
  /\ UNCHANGED <<turns, slot, worker, starts, evening, told, due>>

-----------------------------------------------------------------------------
(* processAnswer without transcripts: a lesson that waits for an answer     *)
(* makes it throw, else it starts a fresh one.                              *)

\* Mutant: the insert does not look at the media row.
MayReferToAny(m) == TRUE

\* The insert selects from the media row, unless that is rolled back.
MayReferTo(m) == m \notin rolledBack

\* A failed processAnswer or lookup of the prompt's media is caught: the
\* reminder goes out without it.
BuildLesson(trigger, m, prompt) ==
  \/ /\ young \/ ~MayReferTo(m) \/ LookupsFail
     /\ prompt = FALSE /\ UNCHANGED lessons
  \/ /\ ~young /\ MayReferTo(m) /\ (prompt \/ LookupsFail)
     /\ young' = TRUE /\ starts' = starts \cup {<<trigger, m>>}

-----------------------------------------------------------------------------
(* sendNotification and the queue's answer to a throw.                      *)

\* Mutant: a throw is not counted.
TriesKept(n) == n

TriesAfter(n) == n + 1

OutOfAttempts(n) == n >= MaxAttempts

\* Mutant: a failure to record a delivered reminder is thrown.
OutcomesUnrecorded ==
  {[heard |-> TRUE, reported |-> TRUE, throws |-> thrown] : thrown \in BOOLEAN}

\* Delivered; rate limited or not delivered, which throws; outside the 24-hour
\* window; or delivered while the response is lost, which throws too.  recordSent
\* never throws.
Outcomes ==
  {[heard |-> TRUE,  reported |-> TRUE,  throws |-> FALSE],
   [heard |-> FALSE, reported |-> TRUE,  throws |-> TRUE],
   [heard |-> FALSE, reported |-> TRUE,  throws |-> FALSE],
   [heard |-> TRUE,  reported |-> FALSE, throws |-> TRUE]}

Tell(trigger, m, prompt, outcome) ==
  LET before == {d \in heard : d.trigger = trigger /\ d.msg = m}
  IN  /\ heard' = IF outcome.heard
                  THEN heard \cup {[trigger |-> trigger, msg |-> m,
                                    nth |-> Cardinality(before) + 1,
                                    lesson |-> prompt]}
                  ELSE heard
      /\ lost' = IF outcome.reported THEN lost ELSE lost \cup {<<trigger, m>>}

-----------------------------------------------------------------------------
(* The hail-mary worker.                                                    *)

\* Completed jobs are removed.
Finish == pc' = "idle" /\ carries' = FALSE /\ slot' = NoJob

Throw ==
  LET n == TriesAfter(slot.tries)
  IN  /\ pc' = "idle" /\ carries' = FALSE
      /\ slot' = [slot EXCEPT !.tries = n,
                    !.state = IF OutOfAttempts(n) THEN "failed" ELSE "delayed"]

\* The delay has run out, long after the turn that armed the timer.  The worker
\* reads the newest message that is not rolled back.
Fire ==
  LET live == Saved \ rolledBack
  IN  /\ slot.state = "delayed" /\ pc = "idle" /\ turn[slot.for] = "over"
      /\ slot' = [slot EXCEPT !.state = "active"] /\ due' = {}
      /\ \/ live = {} /\ pc' = "skip"
         \/ /\ live # {} /\ NewestOf(live) # slot.for
            /\ pc' = "stale"
         \/ /\ live # {} /\ NewestOf(live) = slot.for
            /\ pc' \in {"skip", "find"}
      /\ UNCHANGED <<turns, carries, lessons, evening, told>>

\* No message, or the newest is 24 hours old.
Skip ==
  /\ pc = "skip" /\ Finish
  /\ UNCHANGED <<turns, lessons, evening, told, due>>

\* A newer message exists: re-arm against it, unless another job is queued.
\* The job found is this one, active, so both calls are made.
StaleRemove ==
  /\ pc = "stale" /\ slot.state \in {"none", "active"}
  /\ slot' = Removed(slot) /\ pc' = "staleAdd"
  /\ UNCHANGED <<turns, carries, lessons, evening, told, due>>

StaleAdd ==
  LET job == Added(slot, NewestOf(Saved \ rolledBack))
  IN  /\ pc = "staleAdd" /\ pc' = "idle"
      /\ slot' = IF job.state = "active" THEN NoJob ELSE job
      /\ UNCHANGED <<turns, carries, lessons, evening, told, due>>

\* The user is found, not found, or the lookup throws.
FindUser ==
  /\ pc = "find"
  /\ \/ pc' = "build" /\ UNCHANGED <<slot, carries>>
     \/ Finish
     \/ Throw
  /\ UNCHANGED <<turns, lessons, evening, told, due>>

\* The video (if there is one) and the lesson; with neither nothing is sent.
Build ==
  /\ pc = "build"
  /\ \E prompt, video \in BOOLEAN :
       /\ BuildLesson("hail-mary", slot.for, prompt)
       /\ IF video \/ prompt
          THEN pc' = "send" /\ carries' = prompt /\ UNCHANGED slot
          ELSE Finish
  /\ UNCHANGED <<turns, evening, told, due>>

Send ==
  /\ pc = "send"
  /\ \E o \in Outcomes :
       /\ Tell("hail-mary", slot.for, carries, o)
       /\ IF o.throws THEN Throw ELSE Finish
  /\ UNCHANGED <<turns, lessons, evening, due>>

-----------------------------------------------------------------------------
(* The evening reminder.                                                    *)

\* The cron, once in the 24 hours of a message, finds the parent idle: it
\* builds the reminder of the newest message, rolled back or not.
EveningCron ==
  /\ Saved # {}
  /\ LET m == NewestOf(Saved)
     IN  /\ turn[m] = "over" /\ m \notin evenings
         /\ evenings' = evenings \cup {m}
         /\ \E prompt \in BOOLEAN :
              /\ BuildLesson("evening-reminder", m, prompt)
              /\ sends' = sends \cup {[for |-> m, lesson |-> prompt, tries |-> 0]}
  /\ UNCHANGED <<turns, slot, worker, told, due>>

\* A send job keeps the media it was given.
EveningSend ==
  \E s \in sends, o \in Outcomes :
    LET n == TriesAfter(s.tries)
    IN  /\ Tell("evening-reminder", s.for, s.lesson, o)
        /\ sends' = (sends \ {s}) \cup
             (IF o.throws /\ ~OutOfAttempts(n) THEN {[s EXCEPT !.tries = n]} ELSE {})
        /\ UNCHANGED <<turns, slot, worker, lessons, evenings, due>>

-----------------------------------------------------------------------------
TurnStep(m) == RearmRemove(m) \/ RearmAdd(m) \/ RearmFails(m) \/ EndTurn(m)
Work == Skip \/ StaleRemove \/ StaleAdd \/ FindUser \/ Build \/ Send

Next ==
  \/ \E m \in Msgs : Save(m) \/ TurnStep(m)
  \/ LessonAges \/ Fire \/ Work \/ EveningCron \/ EveningSend

\* Turns come to an end, delayed jobs come due and the workers run.
Fairness ==
  /\ \A m \in Msgs : WF_vars(TurnStep(m))
  /\ WF_vars(Fire) /\ WF_vars(Work) /\ WF_vars(EveningSend)

Spec == Init /\ [][Next]_vars /\ Fairness

-----------------------------------------------------------------------------
\* Every variable has its type; no job is tried more often than its queue says.
TypeOK ==
  /\ turn \in [Msgs -> {"none", "saved", "removed", "armed", "over"}]
  /\ rolledBack \subseteq Msgs
  /\ slot.state \in {"none", "delayed", "active", "failed"}
  /\ slot.state # "none" => slot.for \in Msgs /\ slot.tries \in 0 .. MaxAttempts
  /\ pc \in {"idle", "skip", "stale", "staleAdd", "find", "build", "send"}
  /\ pc # "idle" => slot.state = "active" /\ slot.tries < MaxAttempts
  /\ carries \in BOOLEAN /\ young \in BOOLEAN
  /\ starts \subseteq Triggers \X Msgs
  /\ lost \subseteq Triggers \X Msgs
  /\ evenings \subseteq Msgs /\ due \subseteq Msgs
  /\ sends \subseteq [for : Msgs, lesson : BOOLEAN, tries : 0 .. MaxAttempts - 1]
  /\ heard \subseteq [trigger : Triggers, msg : Msgs, nth : Nat, lesson : BOOLEAN]

\* However many turns re-arm the timer at a time, one of them leaves it armed.
ArmedWhenQuiet ==
  due # {} /\ (\A m \in Msgs : turn[m] # "removed") => slot.state = "delayed"

\* A message is reminded of once per kind of reminder, over all retries and
\* re-armings, unless wabot's answer to a delivered one was lost.
RemindedOnce ==
  \A d \in heard : d.nth > 1 => <<d.trigger, d.msg>> \in lost

\* A lesson the parent was prompted for by a reminder is in the table, and
\* belongs to a turn that was not undone.
HeardLessonStands ==
  \A d \in heard : d.lesson => <<d.trigger, d.msg>> \in starts /\ d.msg \notin rolledBack

\* Once the parent is quiet, the timer fires and its job ends, and so do the
\* send jobs: no retry goes on for ever.
EveryReminderEnds == <>[](slot.state \in {"none", "failed"} /\ sends = {})
=============================================================================
