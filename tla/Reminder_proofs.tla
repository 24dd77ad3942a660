----------------------------- MODULE Reminder_proofs -----------------------------
(***************************************************************************)
(* The hail-mary timer stays armed, the lessons of reminders stand, and no *)
(* message is reminded of twice: for any number of messages and attempts,  *)
(* and any interleaving of turns, the worker and the evening cron.         *)
(***************************************************************************)
EXTENDS Reminder, FiniteSetTheorems, TLAPS

Job == [state : {"none", "delayed", "active", "failed"}, for : Nat, tries : Nat]

\* What the timer needs to know: a worker works on an active job, and nothing
\* counts as armed while that job, or a failed one, takes the parent's id.
ArmedInv ==
  /\ slot \in Job
  /\ turn \in [Msgs -> {"none", "saved", "removed", "armed", "over"}]
  /\ pc # "idle" => slot.state = "active"
  /\ slot.state \in {"active", "failed"} => due = {}
  /\ ArmedWhenQuiet

\* Removing a job by its id leaves an active one alone, and takes any other away.
LEMMA RemovedType ==
  ASSUME NEW job \in Job
  PROVE  /\ Removed(job) \in Job
         /\ job.state = "active" => Removed(job) = job
         /\ job.state # "active" => Removed(job).state = "none"
BY DEF Removed, Job, NoJob

\* Adding a job under an id that is taken changes nothing.
LEMMA AddedType ==
  ASSUME NEW job \in Job, NEW m \in Msgs
  PROVE  /\ Added(job, m) \in Job
         /\ job.state = "none" => Added(job, m).state = "delayed"
         /\ job.state # "none" => Added(job, m) = job
BY DEF Added, Job, Msgs

\* A job that throws waits for its next try, or has failed for good.
LEMMA ThrowType ==
  ASSUME slot \in Job, slot.state = "active", Throw
  PROVE  /\ slot' \in Job /\ slot'.state \in {"delayed", "failed"} /\ pc' = "idle"
         /\ slot'.for = slot.for
<1> DEFINE st == IF OutOfAttempts(TriesAfter(slot.tries)) THEN "failed" ELSE "delayed"
<1>1. st \in {"failed", "delayed"}
  OBVIOUS
<1>2. slot' = [slot EXCEPT !.tries = TriesAfter(slot.tries), !.state = st]
  BY DEF Throw
<1>3. TriesAfter(slot.tries) \in Nat
  BY DEF TriesAfter, Job
<1> HIDE DEF st
<1> QED BY <1>1, <1>2, <1>3 DEF Throw, Job

\* A job that finishes frees its id.
LEMMA FinishType ==
  ASSUME Finish
  PROVE  slot' \in Job /\ slot'.state = "none" /\ pc' = "idle"
BY DEF Finish, NoJob, Job

\* An active job is the worker's: when it ends, nothing was armed meanwhile.
LEMMA WorkStep ==
  ASSUME ArmedInv, Work
  PROVE  ArmedInv'
<1> USE DEF ArmedInv
<1>1. slot.state = "active" /\ due = {} /\ due' = due /\ turn' = turn
  BY DEF Work, Skip, StaleRemove, StaleAdd, FindUser, Build, Send, turns
<1>2. ASSUME slot' \in Job, pc' # "idle" => slot'.state = "active"
      PROVE  ArmedInv'
  BY <1>1, <1>2 DEF ArmedWhenQuiet
<1>3. CASE Finish \/ Throw
  BY <1>1, <1>2, <1>3, FinishType, ThrowType
<1>4. CASE Skip
  BY <1>3, <1>4 DEF Skip
<1>5. CASE StaleRemove
  BY <1>1, <1>2, <1>5, RemovedType DEF StaleRemove
<1>6. CASE StaleAdd
  <2>1. slot' = NoJob /\ pc' = "idle"
    BY <1>1, <1>6 DEF StaleAdd, Added
  <2> QED BY <1>2, <2>1 DEF NoJob, Job
<1>7. CASE FindUser
  BY <1>1, <1>2, <1>3, <1>7 DEF FindUser
<1>8. CASE Build
  BY <1>1, <1>2, <1>3, <1>8 DEF Build
<1>9. CASE Send
  BY <1>3, <1>9 DEF Send
<1> QED BY <1>4, <1>5, <1>6, <1>7, <1>8, <1>9 DEF Work

\* Every step keeps ArmedInv.
LEMMA ArmedStep ==
  ASSUME ArmedInv, [Next]_vars
  PROVE  ArmedInv'
<1> USE DEF ArmedInv
<1>1. ASSUME NEW m \in Msgs, RearmRemove(m) PROVE ArmedInv'
  <2>1. turn'[m] = "removed" /\ slot' = Removed(slot)
    BY <1>1 DEF RearmRemove, Rearmed
  <2>2. slot' \in Job /\ (slot'.state \in {"active", "failed"} => slot.state = "active")
        /\ (slot.state = "active" => slot'.state = "active")
    BY <2>1, RemovedType DEF Job
  <2> QED BY <1>1, <2>1, <2>2 DEF RearmRemove, worker, ArmedWhenQuiet
<1>2. ASSUME NEW m \in Msgs, RearmAdd(m) PROVE ArmedInv'
  <2>1. slot' = Added(slot, m)
    BY <1>2 DEF RearmAdd, Rearmed
  <2>2. slot' \in Job
    BY <2>1, AddedType
  <2>3. CASE slot.state \in {"active", "failed"}
    <3>1. slot' = slot /\ due' = {}
      BY <1>2, <2>1, <2>3, AddedType DEF RearmAdd
    <3> QED BY <1>2, <2>3, <3>1 DEF RearmAdd, worker, ArmedWhenQuiet
  <2>4. CASE slot.state \in {"none", "delayed"}
    <3>1. slot'.state = "delayed"
      BY <2>1, <2>4, AddedType
    <3>2. pc' = "idle"
      BY <1>2, <2>4 DEF RearmAdd, worker
    <3>3. turn' \in [Msgs -> {"none", "saved", "removed", "armed", "over"}]
      BY <1>2 DEF RearmAdd
    <3> QED BY <2>2, <3>1, <3>2, <3>3 DEF ArmedWhenQuiet
  <2> QED BY <2>3, <2>4 DEF Job
<1>3. ASSUME NEW m \in Msgs, RearmFails(m) PROVE ArmedInv'
  BY <1>3 DEF RearmFails, worker, ArmedWhenQuiet
<1>4. ASSUME NEW m \in Msgs, Save(m) \/ EndTurn(m) PROVE ArmedInv'
  <2>1. UNCHANGED <<slot, pc, due>>
    BY <1>4 DEF Save, EndTurn, worker
  <2>2. turn' \in [Msgs -> {"none", "saved", "removed", "armed", "over"}]
    BY <1>4 DEF Save, EndTurn
  <2>3. \A o \in Msgs : turn[o] = "removed" => turn'[o] = "removed"
    BY <1>4 DEF Save, EndTurn
  <2> QED BY <2>1, <2>2, <2>3 DEF ArmedWhenQuiet
<1>5. CASE Fire
  <2>1. slot' = [slot EXCEPT !.state = "active"] /\ due' = {} /\ turn' = turn
    BY <1>5 DEF Fire, turns
  <2>2. slot' \in Job /\ slot'.state = "active"
    BY <2>1 DEF Job
  <2> QED BY <2>1, <2>2 DEF ArmedWhenQuiet
<1>6. CASE LessonAges \/ EveningCron \/ EveningSend \/ UNCHANGED vars
  <2>1. UNCHANGED <<slot, pc, due, turn>>
    BY <1>6 DEF LessonAges, EveningCron, EveningSend, vars, turns, worker
  <2> QED BY <2>1 DEF ArmedWhenQuiet
<1> QED
  BY <1>1, <1>2, <1>3, <1>4, <1>5, <1>6, WorkStep DEF Next, TurnStep

\* However many turns re-arm the timer at a time, and whatever the worker and
\* the evening cron do meanwhile, one of them leaves it armed.
THEOREM TimerStaysArmed == Spec => []ArmedWhenQuiet
<1>1. Init => ArmedInv
  BY DEF Init, ArmedInv, ArmedWhenQuiet, Job, NoJob
<1>2. ArmedInv /\ [Next]_vars => ArmedInv'
  BY ArmedStep
<1>3. ArmedInv => ArmedWhenQuiet
  BY DEF ArmedInv
<1> QED BY <1>1, <1>2, <1>3, PTL DEF Spec
-----------------------------------------------------------------------------
(* The lessons of reminders.  A turn that is over is not rolled back any    *)
(* more, and reminders are built only for such turns.                       *)

Stands(trigger, m) ==
  /\ <<trigger, m>> \in starts /\ m \notin rolledBack
  /\ m \in Msgs => turn[m] = "over"

\* A prompt on its way, in the worker or in a send job, has its lesson row.
StandsInv ==
  /\ ArmedInv
  /\ pc # "idle" /\ slot.for \in Msgs => turn[slot.for] = "over"
  /\ pc = "send" /\ carries => Stands("hail-mary", slot.for)
  /\ \A s \in sends :
       /\ s = [for |-> s.for, lesson |-> s.lesson, tries |-> s.tries]
       /\ s.lesson => Stands("evening-reminder", s.for)
  /\ \A d \in heard : d.lesson => Stands(d.trigger, d.msg)

\* A row that stands goes on standing.
LEMMA StandsKept ==
  ASSUME StandsInv, [Next]_vars, NEW t, NEW m, Stands(t, m)
  PROVE  Stands(t, m)'
<1> USE DEF StandsInv, ArmedInv, Stands
<1>1. starts \subseteq starts'
  BY DEF Next, TurnStep, Work, Save, RearmRemove, RearmAdd, RearmFails, EndTurn,
     LessonAges, Fire, Skip, StaleRemove, StaleAdd, FindUser, Build, Send,
     EveningCron, EveningSend, BuildLesson, lessons, vars
<1>2. CASE \E o \in Msgs : Save(o) \/ TurnStep(o)
  <2>1. PICK o \in Msgs : Save(o) \/ TurnStep(o)
    BY <1>2
  <2>2. turn[o] # "over" /\ rolledBack' \subseteq rolledBack \cup {o}
        /\ \E w : turn' = [turn EXCEPT ![o] = w]
    BY <2>1 DEF Save, TurnStep, RearmRemove, RearmAdd, RearmFails, EndTurn
  <2> QED BY <1>1, <2>2
<1>3. CASE ~\E o \in Msgs : Save(o) \/ TurnStep(o)
  <2>1. UNCHANGED <<turn, rolledBack>>
    BY <1>3 DEF Next, Work, LessonAges, Fire, Skip, StaleRemove, StaleAdd, FindUser,
       Build, Send, EveningCron, EveningSend, turns, vars
  <2> QED BY <1>1, <2>1
<1> QED BY <1>2, <1>3

\* Telling the parent of a lesson that stands adds nothing that does not.
LEMMA TellStands ==
  ASSUME StandsInv, [Next]_vars, NEW trigger, NEW m, NEW prompt, NEW outcome,
         Tell(trigger, m, prompt, outcome), prompt => Stands(trigger, m)
  PROVE  \A d \in heard' : d.lesson => Stands(d.trigger, d.msg)'
<1>1. PICK n : heard' \subseteq heard \cup
        {[trigger |-> trigger, msg |-> m, nth |-> n, lesson |-> prompt]}
  BY DEF Tell
<1> QED BY <1>1, StandsKept DEF StandsInv

\* While its reminder is built, the turn is over: the row that is inserted stands.
LEMMA BuildStands ==
  ASSUME NEW trigger, NEW m, NEW prompt \in BOOLEAN, BuildLesson(trigger, m, prompt),
         prompt, m \in Msgs => turn[m] = "over", UNCHANGED turns
  PROVE  Stands(trigger, m)'
BY DEF BuildLesson, MayReferTo, Stands, turns

\* Every step keeps StandsInv.
LEMMA StandsStep ==
  ASSUME StandsInv, [Next]_vars
  PROVE  StandsInv'
<1> USE DEF StandsInv
<1>1. ArmedInv'
  BY ArmedStep
<1>2. pc' # "idle" /\ slot'.for \in Msgs => turn'[slot'.for] = "over"
  <2>1. ASSUME NEW m \in Msgs, Save(m) \/ TurnStep(m), pc # "idle" PROVE slot' = slot
    BY <2>1, RemovedType, AddedType
       DEF Save, TurnStep, RearmRemove, RearmAdd, RearmFails, EndTurn, Rearmed, ArmedInv
  <2>2. CASE \E m \in Msgs : Save(m) \/ TurnStep(m)
    <3>1. PICK m \in Msgs : Save(m) \/ TurnStep(m)
      BY <2>2
    <3>2. turn[m] # "over" /\ pc' = pc /\ \E w : turn' = [turn EXCEPT ![m] = w]
      BY <3>1 DEF Save, TurnStep, RearmRemove, RearmAdd, RearmFails, EndTurn, worker
    <3> QED BY <2>1, <3>1, <3>2 DEF ArmedInv
  <2>3. CASE Fire
    BY <2>3 DEF Fire, turns, ArmedInv, Job
  <2>4. CASE Work
    <3>1. turn' = turn /\ (Throw \/ Finish => pc' = "idle")
      BY <2>4 DEF Work, Skip, StaleRemove, StaleAdd, FindUser, Build, Send, turns,
         Throw, Finish
    <3>2. pc' = "idle" \/ slot' = slot
      BY <2>4, <3>1, RemovedType DEF Work, Skip, StaleRemove, StaleAdd, FindUser, Build,
         Send, ArmedInv
    <3> QED BY <2>4, <3>1, <3>2
         DEF Work, Skip, StaleRemove, StaleAdd, FindUser, Build, Send
  <2>5. CASE LessonAges \/ EveningCron \/ EveningSend \/ UNCHANGED vars
    BY <2>5 DEF LessonAges, EveningCron, EveningSend, vars, turns, worker
  <2> QED BY <2>2, <2>3, <2>4, <2>5 DEF Next
<1>3. CASE Build
  <2>1. PICK prompt \in BOOLEAN :
          /\ BuildLesson("hail-mary", slot.for, prompt)
          /\ pc' = "send" => carries' = prompt /\ slot' = slot
    BY <1>3 DEF Build, Finish
  <2>2. UNCHANGED <<sends, heard>> /\ UNCHANGED turns
    BY <1>3 DEF Build, evening, told
  <2>3. PICK m : m = slot.for
    OBVIOUS
  <2>4. prompt => Stands("hail-mary", m)'
    BY <1>3, <2>1, <2>2, <2>3, BuildStands DEF Build
  <2>5. (pc = "send" /\ carries => Stands("hail-mary", slot.for))'
    BY <2>1, <2>3, <2>4 DEF Stands
  <2> QED BY <1>1, <1>2, <2>2, <2>5, StandsKept DEF Stands
<1>4. CASE Send
  <2>1. PICK o \in Outcomes : Tell("hail-mary", slot.for, carries, o)
    BY <1>4 DEF Send
  <2>2. \A d \in heard' : d.lesson => Stands(d.trigger, d.msg)'
    BY <1>4, <2>1, TellStands DEF Send
  <2>3. pc' = "idle" /\ UNCHANGED sends
    BY <1>4 DEF Send, Throw, Finish, evening
  <2> QED BY <1>1, <1>2, <2>2, <2>3, StandsKept DEF Stands
<1>5. CASE EveningCron
  <2> PICK m : m = NewestOf(Saved)
    OBVIOUS
  <2>1. PICK prompt \in BOOLEAN :
          /\ BuildLesson("evening-reminder", m, prompt)
          /\ sends' = sends \cup {[for |-> m, lesson |-> prompt, tries |-> 0]}
    BY <1>5 DEF EveningCron
  <2>2. turn[m] = "over" /\ UNCHANGED <<heard, pc, slot, carries>> /\ UNCHANGED turns
    BY <1>5 DEF EveningCron, told, worker
  <2>3. prompt => Stands("evening-reminder", m)'
    BY <2>1, <2>2, BuildStands
  <2>4. (pc = "send" /\ carries => Stands("hail-mary", slot.for))'
    BY <2>2, StandsKept DEF Stands
  <2>5. \A s \in sends' :
          /\ s = [for |-> s.for, lesson |-> s.lesson, tries |-> s.tries]
          /\ s.lesson => Stands("evening-reminder", s.for)'
    <3>1. ASSUME NEW s \in sends, s.lesson PROVE Stands("evening-reminder", s.for)'
      BY <3>1, StandsKept
    <3> QED BY <2>1, <2>3, <3>1
  <2> QED BY <1>1, <1>2, <2>2, <2>4, <2>5, StandsKept DEF Stands
<1>6. CASE EveningSend
  <2>1. PICK s \in sends, o \in Outcomes :
          /\ Tell("evening-reminder", s.for, s.lesson, o)
          /\ sends' \subseteq sends \cup {[s EXCEPT !.tries = TriesAfter(s.tries)]}
    BY <1>6 DEF EveningSend
  <2>2. UNCHANGED <<pc, slot, carries>>
    BY <1>6 DEF EveningSend, worker
  <2>3. \A d \in heard' : d.lesson => Stands(d.trigger, d.msg)'
    BY <2>1, TellStands
  <2>4. [s EXCEPT !.tries = TriesAfter(s.tries)]
          = [for |-> s.for, lesson |-> s.lesson, tries |-> TriesAfter(s.tries)]
    OBVIOUS
  <2>5. \A r \in sends' :
          /\ r = [for |-> r.for, lesson |-> r.lesson, tries |-> r.tries]
          /\ r.lesson => Stands("evening-reminder", r.for)'
    <3>1. ASSUME NEW r \in sends, r.lesson PROVE Stands("evening-reminder", r.for)'
      BY <3>1, StandsKept
    <3> QED BY <2>1, <2>4, <3>1
  <2> QED BY <1>1, <1>2, <2>2, <2>3, <2>5, StandsKept DEF Stands
<1>7. CASE ~(Build \/ Send \/ EveningCron \/ EveningSend)
  <2>1. UNCHANGED <<sends, heard>>
    BY <1>7 DEF Next, TurnStep, Work, Save, RearmRemove, RearmAdd, RearmFails, EndTurn,
       LessonAges, Fire, Skip, StaleRemove, StaleAdd, FindUser, evening, told, vars
  <2>2. pc' = "send" => pc = "send" /\ UNCHANGED <<carries, slot>>
    BY <1>7, RemovedType, AddedType DEF Next, TurnStep, Work, Save, RearmRemove,
       RearmAdd, RearmFails, EndTurn, LessonAges, Fire, Skip, StaleRemove, StaleAdd,
       FindUser, Finish, Throw, worker, vars, ArmedInv, Rearmed
  <2> QED BY <1>1, <1>2, <2>1, <2>2, StandsKept DEF Stands
<1> QED BY <1>3, <1>4, <1>5, <1>6, <1>7

\* A lesson the parent was prompted for by a reminder is in the table, and
\* belongs to a turn that was not undone.
THEOREM HeardLessonsStand == Spec => []HeardLessonStands
<1>1. Init => StandsInv
  BY DEF Init, StandsInv, ArmedInv, ArmedWhenQuiet, Job, NoJob
<1>2. StandsInv /\ [Next]_vars => StandsInv'
  BY StandsStep
<1>3. StandsInv => HeardLessonStands
  BY DEF StandsInv, Stands, HeardLessonStands
<1> QED BY <1>1, <1>2, <1>3, PTL DEF Spec
-----------------------------------------------------------------------------
(* Once per message.  A reminder that was heard and reported has ended its  *)
(* job, and nobody makes another for its message: the turn that armed it is *)
(* over, and the cron remembers the evening.                                *)

Told(trigger, m) == \E d \in heard : d.trigger = trigger /\ d.msg = m

\* A reminder is told again only if the answer to an earlier one was lost.
OnceInv ==
  /\ StandsInv
  /\ \A d \in heard : d.trigger = "hail-mary" =>
       /\ d.msg \in Msgs => turn[d.msg] = "over"
       /\ slot.state # "none" /\ slot.for = d.msg => <<"hail-mary", d.msg>> \in lost
  /\ \A s, t \in sends : s.for \in evenings /\ (s.for = t.for => s = t)
  /\ \A d \in heard : d.trigger = "evening-reminder" =>
       /\ d.msg \in evenings
       /\ \A s \in sends : s.for = d.msg => <<"evening-reminder", d.msg>> \in lost
  /\ RemindedOnce

\* Telling: a second time only after a loss, and not without an end or a loss.
LEMMA TellOnce ==
  ASSUME RemindedOnce, NEW trigger, NEW m, NEW prompt, NEW o \in Outcomes,
         Tell(trigger, m, prompt, o), Told(trigger, m) => <<trigger, m>> \in lost
  PROVE  /\ RemindedOnce' /\ lost \subseteq lost' /\ heard \subseteq heard'
         /\ \A d \in heard' : d \in heard \/ (d.trigger = trigger /\ d.msg = m)
         /\ Told(trigger, m)' /\ o.throws => <<trigger, m>> \in lost'
<1> DEFINE before == {d \in heard : d.trigger = trigger /\ d.msg = m}
           new == [trigger |-> trigger, msg |-> m, nth |-> Cardinality(before) + 1,
                   lesson |-> prompt]
<1>1. heard' = (IF o.heard THEN heard \cup {new} ELSE heard)
      /\ lost' = (IF o.reported THEN lost ELSE lost \cup {<<trigger, m>>})
  BY DEF Tell
<1>2. o.heard /\ o.throws => ~o.reported
  BY DEF Outcomes
<1>3. before # {} => <<trigger, m>> \in lost
  BY DEF Told
<1>4. before = {} => new.nth = 1
  BY FS_EmptySet
<1>5. new.trigger = trigger /\ new.msg = m
  OBVIOUS
<1>6. lost \subseteq lost'
  BY <1>1
<1> HIDE DEF before, new
<1>7. RemindedOnce'
  <2> SUFFICES ASSUME NEW d \in heard', d.nth > 1 PROVE <<d.trigger, d.msg>> \in lost'
    BY DEF RemindedOnce
  <2>1. CASE d \in heard
    BY <1>6, <2>1 DEF RemindedOnce
  <2>2. CASE d = new
    <3>1. before # {}
      BY <1>4, <2>2
    <3> QED BY <1>3, <1>5, <1>6, <2>2, <3>1
  <2> QED BY <1>1, <2>1, <2>2
<1>8. Told(trigger, m)' /\ o.throws => <<trigger, m>> \in lost'
  BY <1>1, <1>2, <1>6 DEF Told
<1> QED BY <1>1, <1>5, <1>6, <1>7, <1>8

\* The hail-mary job under the parent's id is the same message's, or a new one's
\* whose turn has just armed it, or gone.
LEMMA SlotMoves ==
  ASSUME ArmedInv, [Next]_vars
  PROVE  \/ slot'.for = slot.for /\ slot.state # "none"
         \/ slot'.state = "none"
         \/ \E m \in Msgs : slot'.for = m /\ turn[m] = "removed" /\ RearmAdd(m)
<1> USE DEF ArmedInv, Job
<1>1. ASSUME NEW m \in Msgs, RearmRemove(m)
      PROVE  (slot'.for = slot.for /\ slot.state # "none") \/ slot'.state = "none"
  BY <1>1 DEF RearmRemove, Rearmed, Removed, NoJob
<1>2. ASSUME NEW m \in Msgs, RearmAdd(m)
      PROVE  \/ slot'.for = slot.for /\ slot.state # "none"
             \/ slot'.for = m /\ turn[m] = "removed"
  BY <1>2 DEF RearmAdd, Rearmed, Added
<1>3. ASSUME Work
      PROVE  (slot'.for = slot.for /\ slot.state # "none") \/ slot'.state = "none"
  <2>1. slot.state = "active"
    BY <1>3 DEF Work, Skip, StaleRemove, StaleAdd, FindUser, Build, Send
  <2>2. CASE Finish \/ Throw
    BY <2>1, <2>2, FinishType, ThrowType
  <2>3. CASE StaleAdd
    BY <2>1, <2>3 DEF StaleAdd, Added, NoJob
  <2>4. CASE slot' = slot
    BY <2>1, <2>4
  <2> QED BY <1>3, <2>1, <2>2, <2>3, <2>4
          DEF Work, Skip, StaleRemove, FindUser, Build, Send, Removed
<1>4. ASSUME Fire PROVE slot'.for = slot.for /\ slot.state # "none"
  BY <1>4 DEF Fire
<1>5. ASSUME NEW m \in Msgs, RearmFails(m) \/ Save(m) \/ EndTurn(m) PROVE slot' = slot
  BY <1>5 DEF RearmFails, Save, EndTurn
<1>6. CASE LessonAges \/ EveningCron \/ EveningSend \/ UNCHANGED vars
  BY <1>6 DEF LessonAges, EveningCron, EveningSend, vars
<1> QED BY <1>1, <1>2, <1>3, <1>4, <1>5, <1>6 DEF Next, TurnStep

\* A turn that is over stays so.
LEMMA OverKept ==
  ASSUME ArmedInv, [Next]_vars, NEW m \in Msgs, turn[m] = "over"
  PROVE  turn'[m] = "over"
<1>1. CASE \E o \in Msgs : Save(o) \/ TurnStep(o)
  BY <1>1 DEF Save, TurnStep, RearmRemove, RearmAdd, RearmFails, EndTurn, ArmedInv
<1>2. CASE ~\E o \in Msgs : Save(o) \/ TurnStep(o)
  BY <1>2 DEF Next, Work, LessonAges, Fire, Skip, StaleRemove, StaleAdd, FindUser,
     Build, Send, EveningCron, EveningSend, turns, vars
<1> QED BY <1>1, <1>2

\* A step that tells nothing and touches no send job.
LEMMA OnceQuiet ==
  ASSUME OnceInv, StandsInv', [Next]_vars, UNCHANGED <<heard, lost, sends, evenings>>
  PROVE  OnceInv'
<1>1. ASSUME NEW d \in heard, d.trigger = "hail-mary"
      PROVE  /\ d.msg \in Msgs => turn'[d.msg] = "over"
             /\ slot'.state # "none" /\ slot'.for = d.msg => <<"hail-mary", d.msg>> \in lost
  <2>1. d.msg \in Msgs => turn[d.msg] = "over" /\ turn'[d.msg] = "over"
    BY <1>1, OverKept DEF OnceInv, StandsInv
  <2>2. ASSUME slot'.state # "none", slot'.for = d.msg
        PROVE  slot.state # "none" /\ slot.for = d.msg
    BY <2>1, <2>2, SlotMoves DEF OnceInv, StandsInv
  <2> QED BY <1>1, <2>1, <2>2 DEF OnceInv
<1> QED BY <1>1 DEF OnceInv, RemindedOnce

\* Every step keeps OnceInv.
LEMMA OnceStep ==
  ASSUME OnceInv, [Next]_vars
  PROVE  OnceInv'
<1>1. StandsInv'
  BY StandsStep DEF OnceInv
<1>2. CASE Send
  <2>0. slot.state = "active" /\ UNCHANGED <<turn, sends, evenings>>
    BY <1>2 DEF Send, OnceInv, StandsInv, ArmedInv, turns, evening
  <2>1. PICK m : m = slot.for
    OBVIOUS
  <2>2. PICK o \in Outcomes : /\ Tell("hail-mary", m, carries, o)
                              /\ IF o.throws THEN Throw ELSE Finish
    BY <1>2, <2>1 DEF Send
  <2>3. Told("hail-mary", m) => <<"hail-mary", m>> \in lost
    BY <2>0, <2>1 DEF OnceInv, Told
  <2>4. /\ RemindedOnce' /\ lost \subseteq lost'
        /\ \A d \in heard' : d \in heard \/ (d.trigger = "hail-mary" /\ d.msg = m)
        /\ Told("hail-mary", m)' /\ o.throws => <<"hail-mary", m>> \in lost'
    BY <2>2, <2>3, TellOnce DEF OnceInv
  <2>5. m \in Msgs => turn[m] = "over"
    BY <1>2, <2>1 DEF Send, OnceInv, StandsInv
  <2>6. slot'.state = "none" \/ (slot'.for = m /\ o.throws)
    BY <2>0, <2>1, <2>2, FinishType DEF Throw, OnceInv, StandsInv, ArmedInv, Job
  <2>7. ASSUME NEW d \in heard', d.trigger = "hail-mary"
        PROVE  /\ d.msg \in Msgs => turn'[d.msg] = "over"
               /\ slot'.state # "none" /\ slot'.for = d.msg => <<"hail-mary", d.msg>> \in lost'
    <3>1. d.msg \in Msgs => turn'[d.msg] = "over"
      BY <2>0, <2>4, <2>5, <2>7 DEF OnceInv
    <3>2. ASSUME slot'.state # "none", slot'.for = d.msg
          PROVE  <<"hail-mary", d.msg>> \in lost'
      <4>1. d.msg = m /\ o.throws
        BY <2>6, <3>2
      <4>2. Told("hail-mary", m)'
        BY <2>7, <4>1 DEF Told
      <4> QED BY <2>4, <4>1, <4>2
    <3> QED BY <3>1, <3>2
  <2>8. \A d \in heard' : d.trigger = "evening-reminder" =>
          /\ d.msg \in evenings'
          /\ \A s \in sends' : s.for = d.msg => <<"evening-reminder", d.msg>> \in lost'
    BY <2>0, <2>4 DEF OnceInv
  <2>9. \A s, t \in sends' : s.for \in evenings' /\ (s.for = t.for => s = t)
    BY <2>0 DEF OnceInv
  <2> QED BY <1>1, <2>4, <2>7, <2>8, <2>9 DEF OnceInv
<1>3. CASE EveningCron
  <2>1. PICK m : m = NewestOf(Saved)
    OBVIOUS
  <2>2. m \notin evenings /\ evenings' = evenings \cup {m} /\ UNCHANGED <<turn, slot, heard, lost>>
    BY <1>3, <2>1 DEF EveningCron, turns, told
  <2>3. PICK prompt \in BOOLEAN :
          sends' = sends \cup {[for |-> m, lesson |-> prompt, tries |-> 0]}
    BY <1>3, <2>1 DEF EveningCron
  <2>4. \A s, t \in sends' : s.for \in evenings' /\ (s.for = t.for => s = t)
    BY <2>2, <2>3 DEF OnceInv
  <2>5. \A d \in heard' : d.trigger = "evening-reminder" =>
          /\ d.msg \in evenings'
          /\ \A s \in sends' : s.for = d.msg => <<"evening-reminder", d.msg>> \in lost'
    <3>1. \A s \in sends' : s \in sends \/ s.for = m
      BY <2>3
    <3>2. \A d \in heard : d.trigger = "evening-reminder" => d.msg # m
      BY <2>2 DEF OnceInv
    <3> QED BY <2>2, <3>1, <3>2 DEF OnceInv
  <2>6. RemindedOnce'
    BY <2>2 DEF OnceInv, RemindedOnce
  <2> QED BY <1>1, <2>2, <2>4, <2>5, <2>6 DEF OnceInv
<1>4. CASE EveningSend
  <2>1. PICK s \in sends, o \in Outcomes :
          /\ Tell("evening-reminder", s.for, s.lesson, o)
          /\ sends' = (sends \ {s}) \cup
               (IF o.throws /\ ~OutOfAttempts(TriesAfter(s.tries))
                THEN {[s EXCEPT !.tries = TriesAfter(s.tries)]} ELSE {})
    BY <1>4 DEF EveningSend
  <2>2. UNCHANGED <<turn, slot, evenings>>
    BY <1>4 DEF EveningSend, turns
  <2>3. PICK m : m = s.for
    OBVIOUS
  <2>4. Told("evening-reminder", m) => <<"evening-reminder", m>> \in lost
    BY <2>1, <2>3 DEF OnceInv, Told
  <2>5. /\ RemindedOnce' /\ lost \subseteq lost'
        /\ \A d \in heard' : d \in heard \/ (d.trigger = "evening-reminder" /\ d.msg = m)
        /\ Told("evening-reminder", m)' /\ o.throws => <<"evening-reminder", m>> \in lost'
    BY <2>1, <2>3, <2>4, TellOnce DEF OnceInv
  <2>6. [s EXCEPT !.tries = TriesAfter(s.tries)].for = m
    BY <2>1, <2>3 DEF OnceInv, StandsInv
  <2>7. \A t \in sends' : \/ t \in sends /\ t # s
                          \/ t.for = m /\ o.throws
                             /\ t = [s EXCEPT !.tries = TriesAfter(s.tries)]
    BY <2>1, <2>6
  <2>8. \A t \in sends \ {s} : t.for # m
    BY <2>1, <2>3 DEF OnceInv
  <2>9. \A t, u \in sends' : t.for \in evenings' /\ (t.for = u.for => t = u)
    BY <2>1, <2>2, <2>3, <2>7, <2>8 DEF OnceInv
  <2>10. ASSUME NEW d \in heard', d.trigger = "evening-reminder"
         PROVE  /\ d.msg \in evenings'
                /\ \A t \in sends' : t.for = d.msg => <<"evening-reminder", d.msg>> \in lost'
    <3>1. d.msg \in evenings'
      BY <2>1, <2>2, <2>3, <2>5, <2>10 DEF OnceInv
    <3>2. ASSUME NEW t \in sends', t.for = d.msg
          PROVE  <<"evening-reminder", d.msg>> \in lost'
      <4>1. CASE d.msg = m
        <5>1. Told("evening-reminder", m)' /\ o.throws
          BY <2>7, <2>8, <2>10, <3>2, <4>1 DEF Told
        <5> QED BY <2>5, <4>1, <5>1
      <4>2. CASE d.msg # m
        BY <2>5, <2>7, <2>10, <3>2, <4>2 DEF OnceInv
      <4> QED BY <4>1, <4>2
    <3> QED BY <3>1, <3>2
  <2>11. \A d \in heard' : d.trigger = "hail-mary" =>
           /\ d.msg \in Msgs => turn'[d.msg] = "over"
           /\ slot'.state # "none" /\ slot'.for = d.msg => <<"hail-mary", d.msg>> \in lost'
    BY <2>2, <2>5 DEF OnceInv
  <2> QED BY <1>1, <2>5, <2>9, <2>10, <2>11 DEF OnceInv
<1>5. CASE ~(Send \/ EveningCron \/ EveningSend)
  <2>1. UNCHANGED <<heard, lost, sends, evenings>>
    BY <1>5 DEF Next, TurnStep, Work, Save, RearmRemove, RearmAdd, RearmFails, EndTurn,
       LessonAges, Fire, Skip, StaleRemove, StaleAdd, FindUser, Build, evening, told, vars
  <2> QED BY <1>1, <2>1, OnceQuiet
<1> QED BY <1>2, <1>3, <1>4, <1>5

\* A message is reminded of once per kind of reminder, over all retries and
\* re-armings, unless wabot's answer to a delivered one was lost.
THEOREM NobodyIsNagged == Spec => []RemindedOnce
<1>1. Init => OnceInv
  BY DEF Init, OnceInv, StandsInv, ArmedInv, ArmedWhenQuiet, RemindedOnce, Job, NoJob
<1>2. OnceInv /\ [Next]_vars => OnceInv'
  BY OnceStep
<1>3. OnceInv => RemindedOnce
  BY DEF OnceInv
<1> QED BY <1>1, <1>2, <1>3, PTL DEF Spec
-----------------------------------------------------------------------------
(* Types.  Messages are saved in their order, so the newest of them exists; *)
(* a job that may run has a try left.                                       *)

TypeInv ==
  /\ ArmedInv /\ TypeOK
  /\ slot.state = "delayed" => slot.tries < MaxAttempts
  /\ \E k \in 0 .. MaxMsgs : Saved = 1 .. k
  /\ IsFiniteSet(heard)

\* The newest message that was saved.
LEMMA NewestSaved ==
  ASSUME NEW k \in 0 .. MaxMsgs, Saved = 1 .. k, Saved # {}
  PROVE  NewestOf(Saved) \in Msgs
<1>1. k \in Saved /\ \A o \in Saved : o <= k
  BY ReminderAssumption
<1>2. NewestOf(Saved) \in Saved
  BY <1>1 DEF NewestOf
<1> QED BY <1>2 DEF Saved

\* Messages are saved one after the other.
LEMMA SavedStep ==
  ASSUME TypeInv, [Next]_vars
  PROVE  \E k \in 0 .. MaxMsgs : Saved' = 1 .. k
<1>0. PICK k \in 0 .. MaxMsgs : Saved = 1 .. k
  BY DEF TypeInv
<1>1. ASSUME NEW m \in Msgs, Save(m) PROVE \E n \in 0 .. MaxMsgs : Saved' = 1 .. n
  <2>1. m \notin Saved /\ \A o \in Msgs : o < m => o \in Saved
    BY <1>1 DEF Save, Saved
  <2>2. m = k + 1
    BY <1>0, <2>1, ReminderAssumption DEF Msgs
  <2>3. Saved' = Saved \cup {m}
    BY <1>1 DEF Save, Saved, TypeInv, TypeOK
  <2>4. Saved' = 1 .. m /\ m \in 0 .. MaxMsgs
    BY <1>0, <2>2, <2>3, ReminderAssumption DEF Msgs
  <2> QED BY <2>4
<1>2. ASSUME NEW m \in Msgs, TurnStep(m) PROVE Saved' = Saved
  BY <1>2 DEF TurnStep, RearmRemove, RearmAdd, RearmFails, EndTurn, Saved, TypeInv, TypeOK
<1>3. CASE ~\E m \in Msgs : Save(m) \/ TurnStep(m)
  <2>1. turn' = turn
    BY <1>3 DEF Next, Work, LessonAges, Fire, Skip, StaleRemove, StaleAdd, FindUser,
       Build, Send, EveningCron, EveningSend, turns, vars
  <2> QED BY <1>0, <2>1 DEF Saved
<1> QED BY <1>0, <1>1, <1>2, <1>3

\* The job's tries: counted by a throw, and never beyond the limit.
LEMMA SlotStep ==
  ASSUME TypeInv, [Next]_vars
  PROVE  /\ slot'.state # "none" => slot'.for \in Msgs /\ slot'.tries \in 0 .. MaxAttempts
         /\ slot'.state = "delayed" => slot'.tries < MaxAttempts
         /\ pc' # "idle" => slot'.tries < MaxAttempts
<1> USE DEF TypeInv, ArmedInv, TypeOK, Job
<1>1. ASSUME NEW m \in Msgs, RearmRemove(m) \/ RearmAdd(m)
      PROVE  /\ slot' \in {slot, NoJob, [state |-> "delayed", for |-> m, tries |-> 0]}
             /\ pc' = pc /\ (pc # "idle" => slot' = slot)
  BY <1>1 DEF RearmRemove, RearmAdd, Rearmed, Removed, Added, worker
<1>2. ASSUME NEW m \in Msgs, RearmFails(m) \/ Save(m) \/ EndTurn(m)
      PROVE  UNCHANGED <<slot, pc>>
  BY <1>2 DEF RearmFails, Save, EndTurn, worker
<1>3. CASE Fire
  <2>1. /\ slot' = [slot EXCEPT !.state = "active"]
        /\ slot.state = "delayed"
    BY <1>3 DEF Fire
  <2>2. slot'.for = slot.for /\ slot'.tries = slot.tries /\ slot'.state = "active"
    BY <2>1
  <2> QED BY <2>1, <2>2
<1>4. CASE Work
  <2>1. slot.state = "active" /\ pc # "idle"
    BY <1>4 DEF Work, Skip, StaleRemove, StaleAdd, FindUser, Build, Send
  <2>2. CASE Finish
    BY <2>2 DEF Finish, NoJob
  <2>3. CASE Throw
    <3> DEFINE n == TriesAfter(slot.tries)
               st == IF OutOfAttempts(n) THEN "failed" ELSE "delayed"
    <3>1. n \in 0 .. MaxAttempts /\ (st = "delayed" => n < MaxAttempts)
      BY <2>1, ReminderAssumption DEF TriesAfter, OutOfAttempts
    <3>2. slot' = [slot EXCEPT !.tries = n, !.state = st] /\ pc' = "idle"
      BY <2>3 DEF Throw
    <3> HIDE DEF n, st
    <3>3. slot'.for = slot.for /\ slot'.tries = n /\ slot'.state = st
      BY <3>2
    <3> QED BY <2>1, <3>1, <3>2, <3>3
  <2>4. CASE StaleAdd
    BY <2>1, <2>4 DEF StaleAdd, Added, NoJob
  <2>5. CASE slot' = slot
    BY <2>1, <2>5
  <2> QED BY <1>4, <2>1, <2>2, <2>3, <2>4, <2>5
          DEF Work, Skip, StaleRemove, FindUser, Build, Send, Removed
<1>5. CASE LessonAges \/ EveningCron \/ EveningSend \/ UNCHANGED vars
  <2>1. UNCHANGED <<slot, pc>>
    BY <1>5 DEF LessonAges, EveningCron, EveningSend, vars, worker
  <2> QED BY <2>1
<1>6. ASSUME NEW m \in Msgs, RearmRemove(m) \/ RearmAdd(m)
      PROVE  /\ slot'.state # "none" => slot'.for \in Msgs /\ slot'.tries \in 0 .. MaxAttempts
             /\ slot'.state = "delayed" => slot'.tries < MaxAttempts
             /\ pc' # "idle" => slot'.tries < MaxAttempts
  BY <1>1, <1>6, ReminderAssumption DEF NoJob
<1> QED BY <1>2, <1>3, <1>4, <1>5, <1>6 DEF Next, TurnStep

\* Telling a message keeps what was told well typed and countable.
LEMMA TellType ==
  ASSUME TypeInv, NEW trigger \in Triggers, NEW m \in Msgs, NEW prompt \in BOOLEAN,
         NEW o \in Outcomes, Tell(trigger, m, prompt, o)
  PROVE  /\ heard' \subseteq [trigger : Triggers, msg : Msgs, nth : Nat, lesson : BOOLEAN]
         /\ IsFiniteSet(heard') /\ lost' \subseteq Triggers \X Msgs
<1> DEFINE before == {d \in heard : d.trigger = trigger /\ d.msg = m}
           n == Cardinality(before) + 1
           new == [trigger |-> trigger, msg |-> m, nth |-> n, lesson |-> prompt]
<1>1. heard' = heard \cup {new} \/ heard' = heard
  BY DEF Tell
<1>2. IsFiniteSet(before)
  BY FS_Subset DEF TypeInv
<1>3. n \in Nat
  BY <1>2, FS_CardinalityType
<1>4. lost' \subseteq lost \cup {<<trigger, m>>}
  BY DEF Tell
<1>5. IsFiniteSet(heard \cup {new})
  BY FS_AddElement DEF TypeInv
<1> HIDE DEF n
<1>6. new \in [trigger : Triggers, msg : Msgs, nth : Nat, lesson : BOOLEAN]
  BY <1>3
<1>7. <<trigger, m>> \in Triggers \X Msgs
  OBVIOUS
<1>8. /\ heard \subseteq [trigger : Triggers, msg : Msgs, nth : Nat, lesson : BOOLEAN]
      /\ IsFiniteSet(heard) /\ lost \subseteq Triggers \X Msgs
  BY DEF TypeInv, TypeOK
<1> HIDE DEF new
<1> QED BY <1>1, <1>4, <1>5, <1>6, <1>7, <1>8

\* Every step keeps what was told well typed and countable.
LEMMA HeardStep ==
  ASSUME TypeInv, [Next]_vars
  PROVE  /\ heard' \subseteq [trigger : Triggers, msg : Msgs, nth : Nat, lesson : BOOLEAN]
         /\ IsFiniteSet(heard') /\ lost' \subseteq Triggers \X Msgs
<1>1. CASE Send
  <2>1. slot.for \in Msgs /\ carries \in BOOLEAN /\ "hail-mary" \in Triggers
    BY <1>1 DEF Send, TypeInv, TypeOK, ArmedInv, Triggers
  <2> QED BY <1>1, <2>1, TellType DEF Send
<1>2. CASE EveningSend
  <2>1. PICK s \in sends, o \in Outcomes : Tell("evening-reminder", s.for, s.lesson, o)
    BY <1>2 DEF EveningSend
  <2>2. s.for \in Msgs /\ s.lesson \in BOOLEAN /\ "evening-reminder" \in Triggers
    BY DEF TypeInv, TypeOK, Triggers
  <2> QED BY <2>1, <2>2, TellType
<1>3. CASE ~(Send \/ EveningSend)
  <2>1. UNCHANGED <<heard, lost>>
    BY <1>3 DEF Next, TurnStep, Work, Save, RearmRemove, RearmAdd, RearmFails, EndTurn,
       LessonAges, Fire, Skip, StaleRemove, StaleAdd, FindUser, Build, EveningCron,
       told, vars
  <2> QED BY <2>1 DEF TypeInv, TypeOK
<1> QED BY <1>1, <1>2, <1>3

\* A lesson that is built for a message is a reminder's.
LEMMA BuildType ==
  ASSUME TypeInv, NEW trigger \in Triggers, NEW m \in Msgs, NEW prompt,
         BuildLesson(trigger, m, prompt)
  PROVE  young' \in BOOLEAN /\ starts' \subseteq Triggers \X Msgs
<1>1. <<trigger, m>> \in Triggers \X Msgs
  OBVIOUS
<1>2. young' \in {young, TRUE} /\ starts' \subseteq starts \cup {<<trigger, m>>}
  BY DEF BuildLesson, lessons
<1>3. young \in BOOLEAN /\ starts \subseteq Triggers \X Msgs
  BY DEF TypeInv, TypeOK
<1> QED BY <1>1, <1>2, <1>3

\* Every step keeps the worker's, the lessons' and the evening's types.
LEMMA WorkTypes ==
  ASSUME TypeInv, [Next]_vars
  PROVE  /\ rolledBack' \subseteq Msgs /\ due' \subseteq Msgs
         /\ pc' \in {"idle", "skip", "stale", "staleAdd", "find", "build", "send"}
         /\ carries' \in BOOLEAN /\ young' \in BOOLEAN
         /\ starts' \subseteq Triggers \X Msgs /\ evenings' \subseteq Msgs
         /\ sends' \subseteq [for : Msgs, lesson : BOOLEAN, tries : 0 .. MaxAttempts - 1]
<1> USE DEF TypeInv, TypeOK
<1>1. ASSUME NEW m \in Msgs, Save(m) \/ TurnStep(m)
      PROVE  /\ rolledBack' \subseteq Msgs /\ due' \subseteq Msgs /\ young' \in BOOLEAN
             /\ UNCHANGED <<pc, carries, starts, evenings, sends>>
  BY <1>1 DEF Save, TurnStep, RearmRemove, RearmAdd, RearmFails, EndTurn, worker,
     lessons, evening
<1>2. CASE Work \/ Fire \/ LessonAges
  <2>1. UNCHANGED <<rolledBack, evenings, sends>> /\ due' \subseteq Msgs
    BY <1>2 DEF Work, Fire, LessonAges, Skip, StaleRemove, StaleAdd, FindUser, Build,
       Send, turns, evening
  <2>2. /\ pc' \in {"idle", "skip", "stale", "staleAdd", "find", "build", "send"}
        /\ carries' \in BOOLEAN
    BY <1>2 DEF Work, Fire, LessonAges, Skip, StaleRemove, StaleAdd, FindUser, Build,
       Send, Finish, Throw, worker
  <2>3. young' \in BOOLEAN /\ starts' \subseteq Triggers \X Msgs
    <3>1. CASE Build
      <4>1. slot.for \in Msgs /\ "hail-mary" \in Triggers
        BY <3>1 DEF Build, ArmedInv, Triggers
      <4> QED BY <3>1, <4>1, BuildType DEF Build
    <3>2. CASE ~Build
      BY <1>2, <3>2 DEF Work, Fire, LessonAges, Skip, StaleRemove, StaleAdd, FindUser,
         Send, lessons
    <3> QED BY <3>1, <3>2
  <2> QED BY <2>1, <2>2, <2>3
<1>3. CASE EveningCron
  <2>1. PICK m : m = NewestOf(Saved)
    OBVIOUS
  <2>2. m \in Msgs
    BY <1>3, <2>1, NewestSaved DEF EveningCron
  <2>3. UNCHANGED <<rolledBack, due, pc, carries>> /\ evenings' = evenings \cup {m}
    BY <1>3, <2>1 DEF EveningCron, turns, worker
  <2>4. PICK prompt \in BOOLEAN :
          /\ BuildLesson("evening-reminder", m, prompt)
          /\ sends' = sends \cup {[for |-> m, lesson |-> prompt, tries |-> 0]}
    BY <1>3, <2>1 DEF EveningCron
  <2>5. [for |-> m, lesson |-> prompt, tries |-> 0]
          \in [for : Msgs, lesson : BOOLEAN, tries : 0 .. MaxAttempts - 1]
    BY <2>2, ReminderAssumption
  <2>6. young' \in BOOLEAN /\ starts' \subseteq Triggers \X Msgs
    BY <2>2, <2>4, BuildType DEF Triggers
  <2> QED BY <2>2, <2>3, <2>4, <2>5, <2>6
<1>4. CASE EveningSend
  <2>1. PICK s \in sends, o \in Outcomes :
          sends' = (sends \ {s}) \cup
             (IF o.throws /\ ~OutOfAttempts(TriesAfter(s.tries))
              THEN {[s EXCEPT !.tries = TriesAfter(s.tries)]} ELSE {})
    BY <1>4 DEF EveningSend
  <2>2. ASSUME ~OutOfAttempts(TriesAfter(s.tries))
        PROVE  [s EXCEPT !.tries = TriesAfter(s.tries)]
                 \in [for : Msgs, lesson : BOOLEAN, tries : 0 .. MaxAttempts - 1]
    <3>1. TriesAfter(s.tries) \in 0 .. MaxAttempts - 1
      BY <2>2, ReminderAssumption DEF TriesAfter, OutOfAttempts
    <3> QED BY <3>1
  <2>3. UNCHANGED <<rolledBack, due, pc, carries, young, starts, evenings>>
    BY <1>4 DEF EveningSend, turns, worker, lessons
  <2> QED BY <2>1, <2>2, <2>3
<1>5. CASE UNCHANGED vars
  BY <1>5 DEF vars
<1> QED BY <1>1, <1>2, <1>3, <1>4, <1>5 DEF Next

\* Every variable of the reminders has its type, for any number of messages and
\* attempts, and no job is tried more often than its queue says.
THEOREM TypeCorrect == Spec => []TypeOK
<1>1. Init => TypeInv
  <2>1. Init => Saved = 1 .. 0 /\ IsFiniteSet(heard)
    BY FS_EmptySet DEF Init, Saved
  <2>2. 0 \in 0 .. MaxMsgs
    BY ReminderAssumption
  <2>3. Init => ArmedInv
    BY DEF Init, ArmedInv, ArmedWhenQuiet, Job, NoJob
  <2>4. Init => TypeOK /\ slot.state = "none"
    <3> SUFFICES ASSUME Init PROVE TypeOK /\ slot.state = "none"
      OBVIOUS
    <3>1. slot.state = "none" /\ pc = "idle"
      BY DEF Init, NoJob
    <3>2. turn \in [Msgs -> {"none", "saved", "removed", "armed", "over"}]
      BY DEF Init
    <3>3. /\ rolledBack = {} /\ starts = {} /\ lost = {} /\ evenings = {} /\ due = {}
          /\ sends = {} /\ heard = {} /\ carries = FALSE /\ young = FALSE
      BY DEF Init
    <3> QED BY <3>1, <3>2, <3>3 DEF TypeOK
  <2> QED BY <2>1, <2>2, <2>3, <2>4 DEF TypeInv
<1>2. TypeInv /\ [Next]_vars => TypeInv'
  <2> SUFFICES ASSUME TypeInv, [Next]_vars PROVE TypeInv'
    OBVIOUS
  <2>1. ArmedInv'
    BY ArmedStep DEF TypeInv
  <2>2. \E k \in 0 .. MaxMsgs : Saved' = 1 .. k
    BY SavedStep
  <2> QED BY <2>1, <2>2, SlotStep, HeardStep, WorkTypes DEF TypeInv, TypeOK, ArmedInv, Job
<1>3. TypeInv => TypeOK
  BY DEF TypeInv
<1> QED BY <1>1, <1>2, <1>3, PTL DEF Spec
=============================================================================
