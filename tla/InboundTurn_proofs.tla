-------------------------- MODULE InboundTurn_proofs --------------------------
(***************************************************************************)
(* What holds of InboundTurn for any number of jobs, messages, attempts    *)
(* and re-runs, and of TapTurn for any number of taps.                     *)
(***************************************************************************)
EXTENDS InboundTurn, TapTurn, TLAPS

\* Where the questions of onboarding lead is a state of the machine.
LEMMA TargetType ==
  ASSUME NEW q \in OnboardingStateName, NEW v
  PROVE  Target(q, v) \in OnboardingStateName
BY DEF Target, ConsentTarget, AgeTarget, OnboardingStateName

-----------------------------------------------------------------------------
(* Types, one part of the state at a time.  A job that is still going has  *)
(* an attempt left, which is why the count never passes the limit.         *)

AttemptsLeft == \A j \in Jobs : pc[j] \in Ended \/ attempts[j] < MaxAttempts

ControlOK ==
  /\ msgOf \in [Jobs -> Msgs]
  /\ pc \in [Jobs -> {"waiting"} \cup Active \cup Ended]
  /\ attempts \in [Jobs -> 0 .. MaxAttempts]
  /\ stalls \in [Jobs -> 0 .. MaxStalls]

WabotOK ==
  /\ window \in [Msgs -> {"none", "open", "expired", "answered", "consecutive"}]
  /\ heard \subseteq [by : Msgs, reply : {"none", "onboarding", "lesson"}]
  /\ lost \subseteq Msgs

TablesOK ==
  /\ media \in [Msgs -> MediaRow]
  /\ onbRows \subseteq OnbRow /\ lessonRows \subseteq LessonRow
  /\ scores \subseteq [by : Msgs]
  /\ audit \subseteq [by : Msgs, status : {"sent", "rolled_back"}]
  /\ seq \in Nat

UserOK == onboarded \in BOOLEAN /\ cached \in BOOLEAN \cup {Null}

\* A turn about to be written knows what to write.
NextKnown ==
  \A j \in Jobs : pc[j] = "onbCommit" => loc[j].next \in OnboardingStateName

RowKnown ==
  \A j \in Jobs : pc[j] = "lessonInsert" => loc[j].row.kind \in {"fresh", "answer"}

TypeInv ==
  /\ ControlOK /\ AttemptsLeft /\ loc \in [Jobs -> Locals] /\ NextKnown /\ RowKnown
  /\ WabotOK /\ TablesOK /\ UserOK

\* The type invariant is among its parts.
LEMMA TypeInvIsTypeOK == TypeInv => TypeOK
BY DEF TypeInv, TypeOK, ControlOK, WabotOK, TablesOK, UserOK

\* What an attempt starts with is well typed.
LEMMA NoLocsType == NoLocs \in Locals
BY DEF NoLocs, NoRow, Locals

\* It holds at the beginning.
LEMMA TypeInit == Init => TypeInv
<1> SUFFICES ASSUME Init PROVE TypeInv
  OBVIOUS
<1> USE JobsAssumption
<1>1. ControlOK /\ AttemptsLeft
  BY DEF Init, ControlOK, AttemptsLeft
<1>2. loc \in [Jobs -> Locals] /\ NextKnown /\ RowKnown
  BY NoLocsType DEF Init, NextKnown, RowKnown
<1>3. WabotOK
  BY DEF Init, WabotOK
<1>4. TablesOK
  <2>1. media \in [Msgs -> MediaRow]
    BY DEF Init, NewMedia, MediaRow
  <2>2. onbRows \subseteq OnbRow
    BY DEF Init, OnbRow, OnboardingStateName
  <2>3. [at |-> 1, by |-> Earlier, kind |-> "fresh", from |-> 0, done |-> FALSE]
          \in LessonRow
    BY DEF LessonRow
  <2>4. lessonRows \subseteq LessonRow
    BY <2>3 DEF Init
  <2> QED BY <2>1, <2>2, <2>4 DEF Init, TablesOK
<1>5. UserOK
  BY DEF Init, UserOK
<1> QED BY <1>1, <1>2, <1>3, <1>4, <1>5 DEF TypeInv

\* A failed attempt leaves one attempt less, or none and the job failed.
LEMMA EndAttemptControl ==
  ASSUME ControlOK, AttemptsLeft, NEW j \in Jobs, pc[j] \in Active, EndAttempt(j)
  PROVE  ControlOK' /\ AttemptsLeft'
<1>1. attempts[j] < MaxAttempts
  BY DEF AttemptsLeft, Active, Ended
<1>2. attempts' = [attempts EXCEPT ![j] = attempts[j] + 1]
  BY DEF EndAttempt, AttemptsAfterFailure
<1>3. pc' = [pc EXCEPT ![j] = IF attempts[j] + 1 < MaxAttempts THEN "find" ELSE "failed"]
  BY DEF EndAttempt, AttemptsAfterFailure, Goto
<1>4. UNCHANGED <<msgOf, stalls>>
  BY DEF EndAttempt
<1> QED
  BY <1>1, <1>2, <1>3, <1>4, JobsAssumption
  DEF ControlOK, AttemptsLeft, Active, Ended

\* Where the steps of a job lead: on to another step, or to an end.
LEMMA GotoControl ==
  ASSUME ControlOK, AttemptsLeft, NEW j \in Jobs, pc[j] \in Active,
         NEW label \in Active \cup Ended, Goto(j, label),
         UNCHANGED <<msgOf, attempts>>, stalls' \in [Jobs -> 0 .. MaxStalls]
  PROVE  ControlOK' /\ AttemptsLeft'
BY DEF ControlOK, AttemptsLeft, Goto, Active, Ended

\* Every step keeps each job at a step it has, with the attempts it may have.
LEMMA ControlStep ==
  ASSUME TypeInv, Next
  PROVE  ControlOK' /\ AttemptsLeft'
<1> USE DEF TypeInv
<1>1. ASSUME NEW j \in Jobs, Arrive(j) PROVE ControlOK' /\ AttemptsLeft'
  BY <1>1 DEF ControlOK, AttemptsLeft, Arrive, jobVars, Active, Ended
<1>2. ASSUME NEW j \in Jobs, Stall(j) PROVE ControlOK' /\ AttemptsLeft'
  <2>1. Goto(j, "find") /\ pc[j] \in Active /\ UNCHANGED <<msgOf, attempts>>
    BY <1>2 DEF Stall
  <2>2. stalls' \in [Jobs -> 0 .. MaxStalls]
    BY <1>2, JobsAssumption DEF Stall, ControlOK
  <2>3. "find" \in Active
    BY DEF Active
  <2> QED BY <2>1, <2>2, <2>3, GotoControl
<1>3. ASSUME NEW m \in Msgs, Expire(m) PROVE ControlOK' /\ AttemptsLeft'
  BY <1>3 DEF ControlOK, AttemptsLeft, Expire, jobVars
<1>4. ASSUME NEW j \in Jobs, Fail(j) \/ TranscriptionFails(j) \/ ResponseLost(j)
      PROVE  ControlOK' /\ AttemptsLeft'
  <2>1. pc[j] \in Active /\ EndAttempt(j)
    BY <1>4 DEF Fail, TranscriptionFails, ResponseLost, Active
  <2> QED BY <2>1, EndAttemptControl
<1>5. ASSUME NEW j \in Jobs, Step(j), ~Fail(j), ~TranscriptionFails(j), ~ResponseLost(j)
      PROVE  ControlOK' /\ AttemptsLeft'
  <2>1. UNCHANGED <<msgOf, attempts, stalls>>
    BY <1>5 DEF Step, Find, FindInDatabase, FillCache, SkipStale, CreateMedia,
      ReuseMedia, FetchAudio, CleanOnboarding, UndoOnboarding, RollbackOnboarding,
      StartOnboarding, ClassifyReply, AlreadyDone, CommitOnboarding, EvictUser,
      CleanupPartialState, ReadLesson, InsertLesson, Grade, SendMessage,
      RecordSent, MarkRolledBack, jobVars
  <2>2. pc[j] \in Active
    BY <1>5 DEF Step, Find, FindInDatabase, FillCache, SkipStale, CreateMedia,
      ReuseMedia, FetchAudio, CleanOnboarding, UndoOnboarding, RollbackOnboarding,
      StartOnboarding, ClassifyReply, AlreadyDone, CommitOnboarding, EvictUser,
      CleanupPartialState, ReadLesson, InsertLesson, Grade, SendMessage,
      RecordSent, MarkRolledBack, Active
  <2>3. \E label \in Active \cup Ended : Goto(j, label)
    BY <1>5 DEF Step, Find, FindInDatabase, FillCache, SkipStale, CreateMedia,
      ReuseMedia, FetchAudio, CleanOnboarding, UndoOnboarding, RollbackOnboarding,
      StartOnboarding, ClassifyReply, AlreadyDone, CommitOnboarding, EvictUser,
      CleanupPartialState, ReadLesson, InsertLesson, Grade, SendMessage,
      RecordSent, MarkRolledBack, StartOfTurn, AfterRecord, Active, Ended
  <2>4. stalls' \in [Jobs -> 0 .. MaxStalls]
    BY <2>1 DEF ControlOK
  <2> QED BY <2>1, <2>2, <2>3, <2>4, GotoControl
<1> QED BY <1>1, <1>2, <1>3, <1>4, <1>5 DEF Next

\* The locals stay well typed when one of them is set: the row to insert,
LEMMA SetRow ==
  ASSUME NEW l \in [Jobs -> Locals], NEW j \in Jobs,
         NEW row \in [kind : {"none", "fresh", "answer"}, from : Nat, done : BOOLEAN]
  PROVE  [l EXCEPT ![j].row = row] \in [Jobs -> Locals]
BY DEF Locals

\* Assigning one local of a job leaves the locals of every job well typed.
LEMMA SetFlag ==
  ASSUME NEW l \in [Jobs -> Locals], NEW j \in Jobs, NEW b \in BOOLEAN
  PROVE  /\ [l EXCEPT ![j].onb = b] \in [Jobs -> Locals]
         /\ [l EXCEPT ![j].answer = b] \in [Jobs -> Locals]
         /\ [l EXCEPT ![j].delivered = b] \in [Jobs -> Locals]
<1>1. [l EXCEPT ![j].onb = b] \in [Jobs -> Locals]
  BY DEF Locals
<1>2. [l EXCEPT ![j].answer = b] \in [Jobs -> Locals]
  BY DEF Locals
<1>3. [l EXCEPT ![j].delivered = b] \in [Jobs -> Locals]
  BY DEF Locals
<1> QED BY <1>1, <1>2, <1>3

\* the next question of onboarding,
LEMMA SetNext ==
  ASSUME NEW l \in [Jobs -> Locals], NEW j \in Jobs,
         NEW n \in OnboardingStateName \cup {Null}
  PROVE  [l EXCEPT ![j].next = n] \in [Jobs -> Locals]
BY DEF Locals

\* and the path that made the reply.
LEMMA SetReply ==
  ASSUME NEW l \in [Jobs -> Locals], NEW j \in Jobs,
         NEW reply \in {"none", "onboarding", "lesson"}
  PROVE  [l EXCEPT ![j].reply = reply] \in [Jobs -> Locals]
BY DEF Locals

\* Every step keeps the locals well typed.
LEMMA LocsStep ==
  ASSUME TypeInv, Next
  PROVE  loc' \in [Jobs -> Locals]
<1> USE DEF TypeInv
<1>1. CASE UNCHANGED loc
  BY <1>1
<1>2. ASSUME NEW j \in Jobs, Find(j) PROVE loc' \in [Jobs -> Locals]
  <2> DEFINE b == IF cached = Null THEN FALSE ELSE cached
  <2>1. b \in BOOLEAN
    BY DEF UserOK
  <2>2. loc' = [loc EXCEPT ![j].onb = b]
    BY <1>2 DEF Find
  <2> HIDE DEF b
  <2> QED BY <2>1, <2>2, SetFlag
<1>3. ASSUME NEW j \in Jobs, FindInDatabase(j) PROVE loc' \in [Jobs -> Locals]
  <2>1. loc' = [loc EXCEPT ![j].onb = onboarded]
    BY <1>3 DEF FindInDatabase
  <2>2. onboarded \in BOOLEAN
    BY DEF UserOK
  <2> QED BY <2>1, <2>2, SetFlag
<1>4. ASSUME NEW j \in Jobs, StartOnboarding(j) PROVE loc' \in [Jobs -> Locals]
  <2>1. loc' = [loc EXCEPT ![j].next = "askGuardian"]
    BY <1>4 DEF StartOnboarding
  <2>2. "askGuardian" \in OnboardingStateName \cup {Null}
    BY DEF OnboardingStateName
  <2> QED BY <2>1, <2>2, SetNext
<1>5. ASSUME NEW j \in Jobs, ClassifyReply(j) PROVE loc' \in [Jobs -> Locals]
  <2>1. PICK r \in onbRows :
          \E v \in Readings(r.value) : loc' = [loc EXCEPT ![j].next = Target(r.value, v)]
    BY <1>5 DEF ClassifyReply
  <2>2. r.value \in OnboardingStateName
    BY DEF TablesOK, OnbRow
  <2>3. PICK v : loc' = [loc EXCEPT ![j].next = Target(r.value, v)]
    BY <2>1
  <2>4. Target(r.value, v) \in OnboardingStateName
    BY <2>2, TargetType
  <2> QED BY <2>3, <2>4, SetNext
<1>6. ASSUME NEW j \in Jobs, AlreadyDone(j) PROVE loc' \in [Jobs -> Locals]
  <2>1. loc' = [loc EXCEPT ![j].reply = "onboarding"]
    BY <1>6 DEF AlreadyDone
  <2> QED BY <2>1, SetReply
<1>7. ASSUME NEW j \in Jobs, CommitOnboarding(j) PROVE loc' \in [Jobs -> Locals]
  <2> DEFINE l == [loc EXCEPT ![j].reply = "onboarding"]
  <2>1. l \in [Jobs -> Locals]
    BY SetReply
  <2>2. loc' = [l EXCEPT ![j].next = Null]
    BY <1>7 DEF CommitOnboarding
  <2> HIDE DEF l
  <2> QED BY <2>1, <2>2, SetNext
<1>8. ASSUME NEW j \in Jobs, EvictUser(j) PROVE loc' \in [Jobs -> Locals]
  <2>1. loc' = [loc EXCEPT ![j].answer = FALSE]
    BY <1>8 DEF EvictUser
  <2> QED BY <2>1, SetFlag
<1>9. ASSUME NEW j \in Jobs, ReadLesson(j) PROVE loc' \in [Jobs -> Locals]
  <2>1. \E row \in [kind : {"none", "fresh", "answer"}, from : Nat, done : BOOLEAN] :
          loc' = [loc EXCEPT ![j].row = row]
    <3>1. CASE loc' = [loc EXCEPT ![j].row = [NoRow EXCEPT !.kind = "fresh"]]
      <4>1. [NoRow EXCEPT !.kind = "fresh"]
              \in [kind : {"none", "fresh", "answer"}, from : Nat, done : BOOLEAN]
        BY DEF NoRow
      <4> QED BY <3>1, <4>1
    <3>2. ASSUME NEW r \in lessonRows, NEW done \in BOOLEAN,
                 loc' = [loc EXCEPT ![j].row =
                           [kind |-> "answer", from |-> r.at, done |-> done]]
          PROVE  \E row \in [kind : {"none", "fresh", "answer"}, from : Nat,
                              done : BOOLEAN] :
                   loc' = [loc EXCEPT ![j].row = row]
      <4>1. r.at \in Nat
        BY DEF TablesOK, LessonRow
      <4> QED BY <3>2, <4>1
    <3> QED BY <1>9, <3>1, <3>2 DEF ReadLesson
  <2> QED BY <2>1, SetRow
<1>10. ASSUME NEW j \in Jobs, InsertLesson(j) PROVE loc' \in [Jobs -> Locals]
  <2> DEFINE reply == IF loc[j].reply = "none" THEN "lesson" ELSE loc[j].reply
             row == IF loc[j].row.kind = "answer" THEN loc[j].row ELSE NoRow
  <2>1. loc[j] \in Locals
    OBVIOUS
  <2>2. reply \in {"none", "onboarding", "lesson"}
    BY <2>1 DEF Locals
  <2>3. row \in [kind : {"none", "fresh", "answer"}, from : Nat, done : BOOLEAN]
    BY <2>1 DEF Locals, NoRow
  <2> DEFINE l == [loc EXCEPT ![j].reply = reply]
  <2>4. l \in [Jobs -> Locals]
    <3> HIDE DEF reply
    <3> QED BY <2>2, SetReply
  <2>5. loc' = [l EXCEPT ![j].row = row]
    BY <1>10 DEF InsertLesson
  <2> HIDE DEF l, row
  <2> QED BY <2>3, <2>4, <2>5, SetRow
<1>11. ASSUME NEW j \in Jobs, Grade(j) PROVE loc' \in [Jobs -> Locals]
  <2>1. NoRow \in [kind : {"none", "fresh", "answer"}, from : Nat, done : BOOLEAN]
    BY DEF NoRow
  <2> DEFINE l == [loc EXCEPT ![j].answer = FALSE]
  <2>2. l \in [Jobs -> Locals]
    BY SetFlag
  <2>3. loc' = [l EXCEPT ![j].row = NoRow]
    BY <1>11 DEF Grade
  <2> HIDE DEF l
  <2> QED BY <2>1, <2>2, <2>3, SetRow
<1>12. ASSUME NEW j \in Jobs, SendMessage(j) PROVE loc' \in [Jobs -> Locals]
  <2> DEFINE ok == window[msgOf[j]] = "open"
  <2>1. ok \in BOOLEAN
    OBVIOUS
  <2>2. loc' = [loc EXCEPT ![j].delivered = ok]
    BY <1>12 DEF SendMessage
  <2> HIDE DEF ok
  <2> QED BY <2>1, <2>2, SetFlag
<1>13. ASSUME NEW j \in Jobs,
              Fail(j) \/ TranscriptionFails(j) \/ ResponseLost(j) \/ Stall(j)
       PROVE  loc' \in [Jobs -> Locals]
  <2>1. loc' = [loc EXCEPT ![j] = NoLocs]
    BY <1>13 DEF Fail, TranscriptionFails, ResponseLost, EndAttempt, Stall
  <2> QED BY <2>1, NoLocsType
<1>14. ASSUME NEW j \in Jobs,
              Arrive(j) \/ FillCache(j) \/ SkipStale(j) \/ CreateMedia(j)
                \/ ReuseMedia(j) \/ FetchAudio(j) \/ CleanOnboarding(j)
                \/ CleanupPartialState(j) \/ RecordSent(j) \/ MarkRolledBack(j)
                \/ UndoOnboarding(j)
       PROVE  UNCHANGED loc
  BY <1>14 DEF Arrive, FillCache, SkipStale, CreateMedia, ReuseMedia, FetchAudio,
     CleanOnboarding, CleanupPartialState, RecordSent, MarkRolledBack,
     UndoOnboarding, RollbackOnboarding
<1>15. ASSUME NEW m \in Msgs, Expire(m) PROVE UNCHANGED loc
  BY <1>15 DEF Expire
<1> QED
  BY <1>1, <1>2, <1>3, <1>4, <1>5, <1>6, <1>7, <1>8, <1>9, <1>10, <1>11, <1>12,
     <1>13, <1>14, <1>15 DEF Next, Step

\* Every step keeps what wabot knows well typed.
LEMMA WabotStep ==
  ASSUME TypeInv, Next
  PROVE  WabotOK'
<1> USE DEF TypeInv
<1>1. ASSUME NEW j \in Jobs, Arrive(j) PROVE WabotOK'
  BY <1>1 DEF Arrive, WabotOK
<1>2. ASSUME NEW m \in Msgs, Expire(m) PROVE WabotOK'
  BY <1>2 DEF Expire, WabotOK
<1>3. ASSUME NEW j \in Jobs, SendMessage(j) \/ ResponseLost(j) PROVE WabotOK'
  <2>1. msgOf[j] \in Msgs /\ loc[j].reply \in {"none", "onboarding", "lesson"}
    BY DEF ControlOK, Locals
  <2>2. window' = window \/ window' = [window EXCEPT ![msgOf[j]] = "answered"]
    BY <1>3 DEF SendMessage, ResponseLost
  <2>3. heard' \subseteq heard \cup {[by |-> msgOf[j], reply |-> loc[j].reply]}
    BY <1>3 DEF SendMessage, ResponseLost
  <2>4. lost' \subseteq lost \cup {msgOf[j]}
    BY <1>3 DEF SendMessage, ResponseLost
  <2> QED BY <2>1, <2>2, <2>3, <2>4 DEF WabotOK
<1>4. ASSUME NEW j \in Jobs, Stall(j) \/ Step(j), ~SendMessage(j), ~ResponseLost(j)
      PROVE  UNCHANGED wabot
  BY <1>4 DEF Step, Stall, Find, FindInDatabase, FillCache, SkipStale, CreateMedia,
     ReuseMedia, FetchAudio, CleanOnboarding, UndoOnboarding, RollbackOnboarding,
     StartOnboarding, ClassifyReply, AlreadyDone, CommitOnboarding, EvictUser,
     CleanupPartialState, ReadLesson, InsertLesson, Grade, RecordSent,
     MarkRolledBack, Fail, TranscriptionFails
<1>5. CASE UNCHANGED wabot
  BY <1>5 DEF wabot, WabotOK
<1> QED BY <1>1, <1>2, <1>3, <1>4, <1>5 DEF Next

\* Every step keeps the user's columns and the cached copy well typed.
LEMMA UserStep ==
  ASSUME TypeInv, Next
  PROVE  UserOK'
<1> USE DEF TypeInv
<1>1. ASSUME NEW j \in Jobs, FillCache(j) PROVE UserOK'
  BY <1>1 DEF FillCache, UserOK, Locals
<1>2. ASSUME NEW j \in Jobs, AlreadyDone(j) \/ EvictUser(j) PROVE UserOK'
  BY <1>2 DEF AlreadyDone, EvictUser, UserOK
<1>3. ASSUME NEW j \in Jobs, CommitOnboarding(j) PROVE UserOK'
  BY <1>3 DEF CommitOnboarding, UserOK
<1>4. ASSUME NEW j \in Jobs, Arrive(j) \/ Stall(j) \/ Step(j),
             ~FillCache(j), ~AlreadyDone(j), ~EvictUser(j), ~CommitOnboarding(j)
      PROVE  UNCHANGED userVars
  BY <1>4 DEF Step, Arrive, Stall, Find, FindInDatabase, SkipStale, CreateMedia,
     ReuseMedia, FetchAudio, CleanOnboarding, UndoOnboarding, RollbackOnboarding,
     StartOnboarding, ClassifyReply, CleanupPartialState, ReadLesson,
     InsertLesson, Grade, SendMessage, RecordSent, MarkRolledBack, Fail,
     TranscriptionFails, ResponseLost, EndAttempt
<1>5. ASSUME NEW m \in Msgs, Expire(m) PROVE UNCHANGED userVars
  BY <1>5 DEF Expire
<1>6. CASE UNCHANGED userVars
  BY <1>6 DEF userVars, UserOK
<1> QED BY <1>1, <1>2, <1>3, <1>4, <1>5, <1>6 DEF Next

\* Every step keeps the rows of the tables well typed.
LEMMA TablesStep ==
  ASSUME TypeInv, Next
  PROVE  TablesOK'
<1> USE DEF TypeInv
<1>1. ASSUME NEW j \in Jobs, CreateMedia(j) \/ FetchAudio(j) \/ TranscriptionFails(j)
      PROVE  TablesOK'
  <2>1. media' \in [Msgs -> MediaRow]
    BY <1>1 DEF CreateMedia, FetchAudio, TranscriptionFails, TablesOK, MediaRow
  <2>2. UNCHANGED <<onbRows, lessonRows, scores, audit, seq>>
    BY <1>1 DEF CreateMedia, FetchAudio, TranscriptionFails, EndAttempt, lesson
  <2> QED BY <2>1, <2>2 DEF TablesOK
<1>2. ASSUME NEW j \in Jobs, CleanOnboarding(j) \/ UndoOnboarding(j) \/ CleanupPartialState(j)
      PROVE  TablesOK'
  BY <1>2 DEF CleanOnboarding, UndoOnboarding, RollbackOnboarding, lesson,
     CleanupPartialState, Without, By, TablesOK
<1>3. ASSUME NEW j \in Jobs, CommitOnboarding(j) PROVE TablesOK'
  <2>1. msgOf[j] \in Msgs /\ seq + 1 \in Nat
    BY DEF ControlOK, TablesOK
  <2>2. loc[j].next \in OnboardingStateName
    BY <1>3 DEF CommitOnboarding, NextKnown
  <2>3. [at |-> seq + 1, by |-> msgOf[j], value |-> loc[j].next] \in OnbRow
    BY <2>1, <2>2 DEF OnbRow
  <2> QED BY <1>3, <2>1, <2>3 DEF CommitOnboarding, TablesOK, lesson
<1>4. ASSUME NEW j \in Jobs, InsertLesson(j) PROVE TablesOK'
  <2>1. msgOf[j] \in Msgs /\ seq + 1 \in Nat /\ loc[j] \in Locals
    BY DEF ControlOK, TablesOK
  <2>2. loc[j].row.kind \in {"fresh", "answer"}
    BY <1>4 DEF InsertLesson, RowKnown
  <2>3. [at |-> seq + 1, by |-> msgOf[j], kind |-> loc[j].row.kind,
         from |-> loc[j].row.from, done |-> loc[j].row.done] \in LessonRow
    BY <2>1, <2>2 DEF LessonRow, Locals
  <2> QED BY <1>4, <2>1, <2>3 DEF InsertLesson, TablesOK
<1>5. ASSUME NEW j \in Jobs, Grade(j) PROVE TablesOK'
  <2>1. scores' \subseteq scores \cup {[by |-> msgOf[j]]} /\ msgOf[j] \in Msgs
    BY <1>5 DEF Grade, ControlOK
  <2> QED BY <1>5, <2>1 DEF Grade, TablesOK
<1>6. ASSUME NEW j \in Jobs, RecordSent(j) PROVE TablesOK'
  BY <1>6 DEF RecordSent, Recorded, ControlOK, TablesOK, lesson
<1>7. ASSUME NEW j \in Jobs, MarkRolledBack(j) PROVE TablesOK'
  <2>1. media' \in [Msgs -> MediaRow]
    BY <1>7 DEF MarkRolledBack, TablesOK, MediaRow
  <2>2. audit' \subseteq [by : Msgs, status : {"sent", "rolled_back"}]
    BY <1>7 DEF MarkRolledBack, TablesOK
  <2> QED BY <1>7, <2>1, <2>2 DEF MarkRolledBack, Swept, Without, TablesOK
<1>8. ASSUME NEW j \in Jobs,
             Arrive(j) \/ Find(j) \/ FindInDatabase(j) \/ FillCache(j)
               \/ SkipStale(j) \/ ReuseMedia(j) \/ StartOnboarding(j)
               \/ ClassifyReply(j) \/ AlreadyDone(j) \/ EvictUser(j)
               \/ ReadLesson(j) \/ SendMessage(j) \/ Fail(j) \/ ResponseLost(j)
               \/ Stall(j)
      PROVE  UNCHANGED <<media, onbRows, lesson, audit, seq>>
  BY <1>8 DEF Arrive, Find, FindInDatabase, FillCache, SkipStale, ReuseMedia,
     StartOnboarding, ClassifyReply, AlreadyDone, EvictUser, ReadLesson,
     SendMessage, Fail, ResponseLost, Stall, EndAttempt
<1>9. ASSUME NEW m \in Msgs, Expire(m)
      PROVE  UNCHANGED <<media, onbRows, lesson, audit, seq>>
  BY <1>9 DEF Expire
<1>10. CASE UNCHANGED <<media, onbRows, lesson, audit, seq>>
  BY <1>10 DEF lesson, TablesOK
<1> QED
  BY <1>1, <1>2, <1>3, <1>4, <1>5, <1>6, <1>7, <1>8, <1>9, <1>10 DEF Next, Step

\* A step of one job leaves the others where they are.
LEMMA OtherJobs ==
  ASSUME TypeInv, NEW j \in Jobs, Arrive(j) \/ Stall(j) \/ Step(j)
  PROVE  \A k \in Jobs \ {j} : loc'[k] = loc[k] /\ pc'[k] = pc[k]
<1> USE DEF TypeInv, ControlOK
<1>1. CASE Arrive(j) \/ Stall(j)
  BY <1>1 DEF Arrive, Stall, Goto
<1>2. CASE Find(j) \/ FindInDatabase(j) \/ FillCache(j) \/ SkipStale(j)
             \/ CreateMedia(j) \/ ReuseMedia(j) \/ FetchAudio(j)
  BY <1>2 DEF Find, FindInDatabase, FillCache, SkipStale, CreateMedia, ReuseMedia,
     FetchAudio, Goto
<1>3. CASE CleanOnboarding(j) \/ UndoOnboarding(j) \/ StartOnboarding(j)
             \/ AlreadyDone(j) \/ CommitOnboarding(j) \/ EvictUser(j)
  BY <1>3 DEF CleanOnboarding, UndoOnboarding, RollbackOnboarding, StartOnboarding,
     AlreadyDone, CommitOnboarding, EvictUser, Goto
<1>4. CASE ClassifyReply(j)
  BY <1>4 DEF ClassifyReply, Goto
<1>5. CASE CleanupPartialState(j) \/ ReadLesson(j) \/ InsertLesson(j) \/ Grade(j)
  BY <1>5 DEF CleanupPartialState, ReadLesson, InsertLesson, Grade, Goto
<1>6. CASE SendMessage(j) \/ RecordSent(j) \/ MarkRolledBack(j)
  BY <1>6 DEF SendMessage, RecordSent, MarkRolledBack, Goto
<1>7. CASE Fail(j) \/ TranscriptionFails(j) \/ ResponseLost(j)
  BY <1>7 DEF Fail, TranscriptionFails, ResponseLost, EndAttempt, Goto
<1> QED BY <1>1, <1>2, <1>3, <1>4, <1>5, <1>6, <1>7 DEF Step

\* What a job is about to insert is settled when it has read the row before.
LEMMA KnownStep ==
  ASSUME TypeInv, Next
  PROVE  NextKnown' /\ RowKnown'
<1> USE DEF TypeInv
<1>1. ASSUME NEW j \in Jobs, StartOnboarding(j) PROVE NextKnown' /\ RowKnown'
  BY <1>1 DEF StartOnboarding, Goto, NextKnown, RowKnown, ControlOK,
     OnboardingStateName, Locals
<1>2. ASSUME NEW j \in Jobs, ClassifyReply(j) PROVE NextKnown' /\ RowKnown'
  <2>1. PICK r \in onbRows :
          \E v \in Readings(r.value) : loc' = [loc EXCEPT ![j].next = Target(r.value, v)]
    BY <1>2 DEF ClassifyReply
  <2>2. PICK v : loc' = [loc EXCEPT ![j].next = Target(r.value, v)]
    BY <2>1
  <2>3. Target(r.value, v) \in OnboardingStateName
    BY TargetType DEF TablesOK, OnbRow
  <2>4. pc' = [pc EXCEPT ![j] = "onbCommit"]
    BY <1>2 DEF ClassifyReply, Goto
  <2> QED BY <2>2, <2>3, <2>4 DEF NextKnown, RowKnown, ControlOK, Locals
<1>3. ASSUME NEW j \in Jobs, ReadLesson(j) PROVE NextKnown' /\ RowKnown'
  <2>1. pc' = [pc EXCEPT ![j] = "lessonInsert"]
    BY <1>3 DEF ReadLesson, Goto
  <2>2. loc'[j].row.kind \in {"fresh", "answer"}
    BY <1>3 DEF ReadLesson, NoRow, Locals
  <2>3. \A k \in Jobs \ {j} : loc'[k] = loc[k]
    BY <1>3 DEF ReadLesson
  <2> QED BY <2>1, <2>2, <2>3 DEF NextKnown, RowKnown, ControlOK
<1>4. ASSUME NEW j \in Jobs, Arrive(j) \/ Stall(j) \/ Step(j),
             ~StartOnboarding(j), ~ClassifyReply(j), ~ReadLesson(j)
      PROVE  /\ \A k \in Jobs \ {j} : loc'[k] = loc[k] /\ pc'[k] = pc[k]
             /\ pc'[j] \notin {"onbCommit", "lessonInsert"}
  <2>1. \A k \in Jobs \ {j} : loc'[k] = loc[k] /\ pc'[k] = pc[k]
    BY <1>4, OtherJobs
  <2>2. pc'[j] \notin {"onbCommit", "lessonInsert"}
    BY <1>4 DEF Step, Arrive, Stall, Find, FindInDatabase, FillCache, SkipStale,
      CreateMedia, ReuseMedia, FetchAudio, CleanOnboarding, UndoOnboarding,
      RollbackOnboarding, AlreadyDone, CommitOnboarding, EvictUser,
      CleanupPartialState, InsertLesson, Grade, SendMessage, RecordSent,
      MarkRolledBack, Fail, TranscriptionFails, ResponseLost, EndAttempt,
      StartOfTurn, AfterRecord, Goto, ControlOK
  <2> QED BY <2>1, <2>2
<1>5. ASSUME NEW m \in Msgs, Expire(m) PROVE UNCHANGED <<pc, loc>>
  BY <1>5 DEF Expire
<1>6. ASSUME NEW j \in Jobs,
             \A k \in Jobs \ {j} : loc'[k] = loc[k] /\ pc'[k] = pc[k],
             pc'[j] \notin {"onbCommit", "lessonInsert"}
      PROVE  NextKnown' /\ RowKnown'
  BY <1>6 DEF NextKnown, RowKnown
<1>7. CASE UNCHANGED <<pc, loc>>
  BY <1>7 DEF NextKnown, RowKnown
<1> QED BY <1>1, <1>2, <1>3, <1>4, <1>5, <1>6, <1>7 DEF Next

\* The type invariant is inductive.
LEMMA TypeStep == TypeInv /\ [Next]_vars => TypeInv'
<1>1. ASSUME TypeInv, Next PROVE TypeInv'
  BY <1>1, ControlStep, LocsStep, WabotStep, UserStep, TablesStep, KnownStep DEF TypeInv
<1>2. ASSUME TypeInv, UNCHANGED vars PROVE TypeInv'
  BY <1>2 DEF vars, TypeInv, ControlOK, AttemptsLeft, NextKnown, RowKnown, WabotOK,
     TablesOK, UserOK
<1> QED BY <1>1, <1>2

\* Every variable of the turn keeps its type, and no job is run more often than
\* the queue's `attempts` allow.
THEOREM TypeCorrect == Spec => []TypeOK
<1>1. Spec => []TypeInv
  BY TypeInit, TypeStep, PTL DEF Spec
<1> QED BY <1>1, TypeInvIsTypeOK, PTL
-----------------------------------------------------------------------------
(* The sweep.  The property is inductive as it stands: rolled_back is never *)
(* cleared, the sweep takes what is there, and both inserts look at the     *)
(* flag in the statement that inserts.                                      *)

\* Steps that leave the flag, the lesson rows and the scores alone.
LEMMA LessonTablesKept ==
  ASSUME NEW j \in Jobs, Arrive(j) \/ Stall(j) \/ Step(j), ~CleanupPartialState(j),
         ~InsertLesson(j), ~Grade(j), ~MarkRolledBack(j),
         ~CreateMedia(j), ~FetchAudio(j), ~TranscriptionFails(j)
  PROVE  UNCHANGED <<media, lessonRows, scores>>
BY DEF Step, Arrive, Stall, Find, FindInDatabase, FillCache, SkipStale, ReuseMedia,
   CleanOnboarding, UndoOnboarding, RollbackOnboarding, StartOnboarding,
   ClassifyReply, AlreadyDone, CommitOnboarding, EvictUser, ReadLesson,
   SendMessage, RecordSent, Fail, ResponseLost, EndAttempt, lesson

\* No step writes a lesson row or a score for a message that is rolled back.
LEMMA RolledBackStep ==
  ASSUME TypeInv, RolledBackLeavesNothing, [Next]_vars
  PROVE  RolledBackLeavesNothing'
<1> USE DEF TypeInv, TablesOK, ControlOK, RolledBackLeavesNothing, By
<1>1. ASSUME NEW j \in Jobs, CreateMedia(j) \/ FetchAudio(j) \/ TranscriptionFails(j)
      PROVE  RolledBackLeavesNothing'
  <2>1. UNCHANGED <<lessonRows, scores>>
    BY <1>1 DEF CreateMedia, FetchAudio, TranscriptionFails, EndAttempt, lesson
  <2>2. CASE CreateMedia(j) \/ TranscriptionFails(j)
    <3>1. PICK status : media' = [media EXCEPT ![msgOf[j]].status = status]
      BY <2>2 DEF CreateMedia, TranscriptionFails
    <3>2. \A m \in Msgs : media'[m].rolledBack = media[m].rolledBack
      BY <3>1 DEF MediaRow
    <3> QED BY <2>1, <3>2
  <2>3. CASE FetchAudio(j)
    <3> DEFINE ready == [media EXCEPT ![msgOf[j]].status = "ready"]
    <3>1. /\ ready \in [Msgs -> MediaRow]
          /\ \A m \in Msgs : ready[m].rolledBack = media[m].rolledBack
      BY DEF MediaRow
    <3>2. media' = [ready EXCEPT ![msgOf[j]].transcribed = TRUE]
      BY <2>3 DEF FetchAudio
    <3> HIDE DEF ready
    <3>3. \A m \in Msgs : media'[m].rolledBack = ready[m].rolledBack
      BY <3>1, <3>2 DEF MediaRow
    <3> QED BY <2>1, <3>1, <3>3
  <2> QED BY <1>1, <2>2, <2>3
<1>2. ASSUME NEW j \in Jobs, CleanupPartialState(j) PROVE RolledBackLeavesNothing'
  BY <1>2 DEF CleanupPartialState, Without
<1>3. ASSUME NEW j \in Jobs, InsertLesson(j) PROVE RolledBackLeavesNothing'
  BY <1>3 DEF InsertLesson, MayReferTo
<1>4. ASSUME NEW j \in Jobs, Grade(j) PROVE RolledBackLeavesNothing'
  BY <1>4 DEF Grade, MayReferTo
<1>5. ASSUME NEW j \in Jobs, MarkRolledBack(j) PROVE RolledBackLeavesNothing'
  <2>1. lessonRows' \subseteq lessonRows /\ scores' \subseteq scores
    BY <1>5 DEF MarkRolledBack, Swept, Without
  <2>2. /\ \A r \in lessonRows' : r.by # msgOf[j]
        /\ \A r \in scores' : r.by # msgOf[j]
    BY <1>5 DEF MarkRolledBack, Swept, Without
  <2>3. \A m \in Msgs \ {msgOf[j]} : media'[m] = media[m]
    BY <1>5 DEF MarkRolledBack
  <2> QED BY <2>1, <2>2, <2>3
<1>6. ASSUME NEW m \in Msgs, Expire(m) PROVE UNCHANGED <<media, lessonRows, scores>>
  BY <1>6 DEF Expire, lesson
<1>7. CASE UNCHANGED vars
  BY <1>7 DEF vars
<1>8. CASE UNCHANGED <<media, lessonRows, scores>>
  BY <1>8
<1> QED
  BY <1>1, <1>2, <1>3, <1>4, <1>5, <1>6, <1>7, <1>8, LessonTablesKept DEF Next

\* However many jobs a voice note was enqueued as, and wherever they are, its
\* rolled-back message is never referred to by a lesson row or a score again.
THEOREM RolledBackStaysClean == Spec => []RolledBackLeavesNothing
<1>1. Init => RolledBackLeavesNothing
  BY JobsAssumption DEF Init, RolledBackLeavesNothing, NewMedia
<1>2. TypeInv /\ RolledBackLeavesNothing /\ [Next]_vars => RolledBackLeavesNothing'
  BY RolledBackStep
<1> QED BY TypeInit, TypeStep, <1>1, <1>2, PTL DEF Spec

-----------------------------------------------------------------------------
(* The gate.  A lesson is only ever reached through a verdict that the user *)
(* is onboarded; the verdict, and the cache it was read from, may be old,   *)
(* but consent is never taken back, so an old yes is still a yes.           *)

Gated == {"onbEvict", "cleanup", "lessonRead", "lessonInsert", "grade"}

GateInv ==
  /\ \A j \in Jobs : loc[j].onb => onboarded
  /\ cached = TRUE => onboarded
  /\ \A j \in Jobs : pc[j] \in Gated => onboarded
  /\ LessonNeedsConsent

\* Onboarded users stay onboarded: no rollback resets the columns.
LEMMA OnboardedKept == ASSUME TypeInv, onboarded, [Next]_vars PROVE onboarded'
<1>1. ASSUME NEW j \in Jobs, CommitOnboarding(j) PROVE onboarded'
  BY <1>1 DEF CommitOnboarding
<1>2. ASSUME NEW j \in Jobs, Arrive(j) \/ Stall(j) \/ Step(j), ~CommitOnboarding(j)
      PROVE  UNCHANGED onboarded
  BY <1>2 DEF Step, Arrive, Stall, Find, FindInDatabase, FillCache, SkipStale,
     CreateMedia, ReuseMedia, FetchAudio, CleanOnboarding, UndoOnboarding,
     RollbackOnboarding, StartOnboarding, ClassifyReply, AlreadyDone, EvictUser,
     CleanupPartialState, ReadLesson, InsertLesson, Grade, SendMessage,
     RecordSent, MarkRolledBack, Fail, TranscriptionFails, ResponseLost,
     EndAttempt, userVars
<1>3. ASSUME NEW m \in Msgs, Expire(m) PROVE UNCHANGED onboarded
  BY <1>3 DEF Expire, userVars
<1>4. CASE UNCHANGED vars
  BY <1>4 DEF vars
<1> QED BY <1>1, <1>2, <1>3, <1>4 DEF Next

\* A job past the gate, a local and a cached copy agree with the columns.
LEMMA GateStep ==
  ASSUME TypeInv, GateInv, [Next]_vars, ~onboarded, ~onboarded'
  PROVE  GateInv'
<1> USE DEF TypeInv, GateInv, Gated, ControlOK, LessonNeedsConsent
<1>1. ASSUME NEW j \in Jobs, Arrive(j) \/ Stall(j) \/ Step(j)
      PROVE  /\ ~loc'[j].onb
             /\ pc'[j] \notin Gated
             /\ cached' # TRUE
             /\ lessonRows' \subseteq lessonRows
  <2>0. ~loc[j].onb /\ cached # TRUE /\ pc[j] \notin Gated /\ loc[j] \in Locals
    OBVIOUS
  <2>13. ~NoLocs.onb
    BY DEF NoLocs
  <2>1. CASE Arrive(j) \/ Stall(j)
    <3>1. UNCHANGED <<cached, lessonRows>>
      BY <2>1 DEF Arrive, Stall, userVars, lesson
    <3>2. loc'[j] = loc[j] \/ loc'[j] = NoLocs
      BY <2>1 DEF Arrive, Stall
    <3>3. pc'[j] \notin Gated
      BY <2>1 DEF Arrive, Stall, Goto
    <3> QED BY <2>0, <2>13, <3>1, <3>2, <3>3
  <2>2. CASE Find(j)
    <3>1. UNCHANGED <<cached, lessonRows>> /\ pc'[j] \notin Gated
      BY <2>2 DEF Find, userVars, lesson, Goto
    <3>2. loc' = [loc EXCEPT ![j].onb = FALSE]
      BY <2>0, <2>2 DEF Find, UserOK
    <3>3. loc'[j].onb = FALSE
      BY <3>2 DEF Locals
    <3> QED BY <2>0, <3>1, <3>3
  <2>14. CASE FindInDatabase(j)
    <3>1. UNCHANGED <<cached, lessonRows>> /\ pc'[j] \notin Gated
      BY <2>14 DEF FindInDatabase, userVars, lesson, Goto
    <3>2. loc'[j].onb = onboarded
      BY <2>14 DEF FindInDatabase, Locals
    <3> QED BY <2>0, <3>1, <3>2
  <2>15. CASE FillCache(j)
    BY <2>0, <2>15 DEF FillCache, Goto, lesson
  <2>3. CASE SkipStale(j) \/ CreateMedia(j) \/ ReuseMedia(j) \/ FetchAudio(j)
    <3>1. UNCHANGED <<loc, cached, lessonRows>>
      BY <2>3 DEF SkipStale, CreateMedia, ReuseMedia, FetchAudio, userVars, lesson
    <3>2. pc'[j] \in {"skipped", "fetch", StartOfTurn(j)}
      BY <2>3 DEF SkipStale, CreateMedia, ReuseMedia, FetchAudio, Goto
    <3>3. StartOfTurn(j) \in {"onbClean", "onbRead"}
      BY <2>0 DEF StartOfTurn
    <3> QED BY <2>0, <3>1, <3>2, <3>3
  <2>4. CASE CleanOnboarding(j) \/ UndoOnboarding(j)
    BY <2>4 DEF CleanOnboarding, UndoOnboarding, RollbackOnboarding, Goto, userVars,
       lesson
  <2>5. CASE StartOnboarding(j)
    BY <2>5 DEF StartOnboarding, Locals, Goto, userVars, lesson
  <2>6. CASE ClassifyReply(j)
    BY <2>6 DEF ClassifyReply, Locals, Goto, userVars, lesson
  <2>7. CASE AlreadyDone(j)
    BY <2>7, JobsAssumption DEF AlreadyDone, Locals, Goto, lesson
  <2>8. CASE CommitOnboarding(j)
    <3>1. loc[j].next # "done"
      BY <2>8 DEF CommitOnboarding
    <3>2. UNCHANGED <<cached, lessonRows>> /\ Goto(j, "send")
      BY <2>8, <3>1 DEF CommitOnboarding, lesson
    <3>3. loc'[j].onb = loc[j].onb
      BY <2>8 DEF CommitOnboarding, Locals
    <3> QED BY <3>2, <3>3 DEF Goto
  <2>9. CASE EvictUser(j) \/ CleanupPartialState(j) \/ ReadLesson(j)
               \/ InsertLesson(j) \/ Grade(j)
    BY <2>9 DEF EvictUser, CleanupPartialState, ReadLesson, InsertLesson, Grade
  <2>10. CASE SendMessage(j)
    BY <2>10 DEF SendMessage, Locals, Goto, userVars, lesson
  <2>11. CASE RecordSent(j) \/ MarkRolledBack(j)
    BY <2>11 DEF RecordSent, MarkRolledBack, AfterRecord, Swept, Without, Goto,
       userVars, lesson
  <2>12. CASE Fail(j) \/ TranscriptionFails(j) \/ ResponseLost(j)
    <3>1. EndAttempt(j)
      BY <2>12 DEF Fail, TranscriptionFails, ResponseLost
    <3>2. loc'[j] = NoLocs /\ UNCHANGED <<cached, lessonRows>> /\ pc'[j] \notin Gated
      BY <3>1 DEF EndAttempt, Goto, userVars, lesson
    <3> QED BY <2>0, <2>13, <3>2
  <2> QED BY <1>1, <2>14, <2>15, <2>1, <2>2, <2>3, <2>4, <2>5, <2>6, <2>7, <2>8, <2>9, <2>10,
             <2>11, <2>12 DEF Step
<1>2. ASSUME NEW j \in Jobs, Arrive(j) \/ Stall(j) \/ Step(j) PROVE GateInv'
  BY <1>1, <1>2, OtherJobs
<1>3. ASSUME NEW m \in Msgs, Expire(m) PROVE GateInv'
  BY <1>3 DEF Expire, userVars, lesson
<1>4. CASE UNCHANGED vars
  BY <1>4 DEF vars
<1> QED BY <1>2, <1>3, <1>4 DEF Next

\* Under any interleaving, and whatever the cache says, a lesson row of a voice
\* note is written only for a parent whose consent is in the database.
THEOREM ConsentBeforeLessons == Spec => []LessonNeedsConsent
<1>1. Init => GateInv
  <2> SUFFICES ASSUME Init PROVE GateInv
    OBVIOUS
  <2>1. \A j \in Jobs : ~loc[j].onb /\ pc[j] \notin Gated
    BY DEF Init, NoLocs, Gated
  <2>2. cached # TRUE
    BY JobsAssumption DEF Init
  <2>3. \A r \in lessonRows : r.by = Earlier
    BY DEF Init
  <2> QED BY <2>1, <2>2, <2>3 DEF GateInv, LessonNeedsConsent
<1>2. TypeInv /\ GateInv /\ [Next]_vars => GateInv'
  <2>1. ASSUME TypeInv, GateInv, [Next]_vars, onboarded' PROVE GateInv'
    BY <2>1 DEF GateInv, LessonNeedsConsent
  <2> QED BY <2>1, GateStep, OnboardedKept
<1>3. GateInv => LessonNeedsConsent
  BY DEF GateInv
<1> QED BY TypeInit, TypeStep, <1>1, <1>2, <1>3, PTL DEF Spec
-----------------------------------------------------------------------------
(* A job touches only the rows of its own message.                         *)

\* Whatever a job does, the rows of every other message stay as they are.
LEMMA OwnRows ==
  ASSUME TypeInv, NEW j \in Jobs, Arrive(j) \/ Stall(j) \/ Step(j)
  PROVE  /\ msgOf' = msgOf
         /\ \A r : r.by # msgOf[j] =>
              /\ r \in lessonRows' <=> r \in lessonRows
              /\ r \in onbRows' <=> r \in onbRows
              /\ r \in scores' <=> r \in scores
         /\ \A a \in audit' : a.by # msgOf[j] => a \in audit
         /\ \A m \in Msgs : m # msgOf[j] => media'[m] = media[m]
<1> USE DEF TypeInv, ControlOK, TablesOK, jobVars, lesson
<1>1. CASE Arrive(j) \/ Stall(j) \/ Find(j) \/ FindInDatabase(j) \/ FillCache(j)
             \/ SkipStale(j) \/ ReuseMedia(j) \/ StartOnboarding(j)
             \/ ClassifyReply(j) \/ AlreadyDone(j) \/ EvictUser(j)
             \/ ReadLesson(j) \/ SendMessage(j) \/ Fail(j) \/ ResponseLost(j)
  <2>1. UNCHANGED <<msgOf, media, onbRows, lessonRows, scores, audit>>
    BY <1>1 DEF Arrive, Stall, Find, FindInDatabase, FillCache, SkipStale, ReuseMedia,
       StartOnboarding, ClassifyReply, AlreadyDone, EvictUser, ReadLesson,
       SendMessage, Fail, ResponseLost, EndAttempt
  <2> QED BY <2>1
<1>2. CASE CreateMedia(j) \/ FetchAudio(j) \/ TranscriptionFails(j)
  <2>1. UNCHANGED <<msgOf, onbRows, lessonRows, scores, audit>>
    BY <1>2 DEF CreateMedia, FetchAudio, TranscriptionFails, EndAttempt
  <2>2. \A m \in Msgs : m # msgOf[j] => media'[m] = media[m]
    BY <1>2 DEF CreateMedia, FetchAudio, TranscriptionFails
  <2> QED BY <2>1, <2>2
<1>3. CASE CleanOnboarding(j) \/ UndoOnboarding(j) \/ CleanupPartialState(j)
  BY <1>3 DEF CleanOnboarding, UndoOnboarding, RollbackOnboarding,
     CleanupPartialState, Without, By
<1>4. CASE CommitOnboarding(j)
  BY <1>4 DEF CommitOnboarding
<1>5. CASE InsertLesson(j)
  BY <1>5 DEF InsertLesson
<1>6. CASE Grade(j)
  BY <1>6 DEF Grade
<1>7. CASE RecordSent(j)
  BY <1>7 DEF RecordSent, Recorded
<1>8. CASE MarkRolledBack(j)
  <2>1. UNCHANGED msgOf
    BY <1>8 DEF MarkRolledBack
  <2>2. /\ onbRows' = onbRows \ By(msgOf[j], onbRows)
        /\ lessonRows' = lessonRows \ By(msgOf[j], lessonRows)
        /\ scores' = scores \ By(msgOf[j], scores)
    BY <1>8 DEF MarkRolledBack, Swept, Without
  <2>3. \A a \in audit' : a.by # msgOf[j] => a \in audit
    BY <1>8 DEF MarkRolledBack
  <2>4. \A m \in Msgs : m # msgOf[j] => media'[m] = media[m]
    BY <1>8 DEF MarkRolledBack
  <2> QED BY <2>1, <2>2, <2>3, <2>4 DEF By
<1> QED BY <1>1, <1>2, <1>3, <1>4, <1>5, <1>6, <1>7, <1>8 DEF Step

-----------------------------------------------------------------------------
(* One answer per voice note.  An attempt reaches the lesson with its       *)
(* transcripts either as the first one, when nothing has been written, or   *)
(* by way of the cleanup; and one attempt answers once, because after the   *)
(* insert it goes on without its transcripts.  Only a stall breaks this: it *)
(* restarts a turn without counting an attempt.                             *)

BeforeTheTurn == {"waiting", "find", "findDb", "cacheSet", "persist", "fetch"}

AnswersOf(m) == {r \in lessonRows : r.by = m /\ r.kind = "answer"}

\* No answer yet at the points from which job j may still write one.
NothingWritten(j) ==
  \/ attempts[j] = 0 /\ pc[j] \in BeforeTheTurn
  \/ pc[j] = "lessonRead" /\ loc[j].answer
  \/ pc[j] = "lessonInsert" /\ loc[j].row.kind = "answer"
  => AnswersOf(msgOf[j]) = {}

OnceInv ==
  \A j \in Jobs : Single(msgOf[j]) =>
    /\ NothingWritten(j)
    /\ \A r, s \in AnswersOf(msgOf[j]) : r = s

\* Only a worker that dies counts a stall.
LEMMA StallsKept ==
  ASSUME NEW j \in Jobs, Arrive(j) \/ Step(j)
  PROVE  UNCHANGED stalls
BY DEF Step, Arrive, Find, FindInDatabase, FillCache, SkipStale, CreateMedia,
   ReuseMedia, FetchAudio, CleanOnboarding, UndoOnboarding, RollbackOnboarding,
   StartOnboarding, ClassifyReply, AlreadyDone, CommitOnboarding, EvictUser,
   CleanupPartialState, ReadLesson, InsertLesson, Grade, SendMessage, RecordSent,
   MarkRolledBack, Fail, TranscriptionFails, ResponseLost, EndAttempt, jobVars

\* A job counts its own attempts only.
LEMMA AttemptsKept ==
  ASSUME TypeInv, NEW j \in Jobs, Arrive(j) \/ Stall(j) \/ Step(j), NEW k \in Jobs \ {j}
  PROVE  attempts'[k] = attempts[k]
BY DEF TypeInv, ControlOK, Step, Arrive, Stall, Find, FindInDatabase, FillCache,
   SkipStale, CreateMedia, ReuseMedia, FetchAudio, CleanOnboarding, UndoOnboarding,
   RollbackOnboarding, StartOnboarding, ClassifyReply, AlreadyDone,
   CommitOnboarding, EvictUser, CleanupPartialState, ReadLesson, InsertLesson,
   Grade, SendMessage, RecordSent, MarkRolledBack, Fail, TranscriptionFails,
   ResponseLost, EndAttempt, AttemptsAfterFailure, jobVars

\* A message that is single after a step was so before.
LEMMA SingleBefore ==
  ASSUME TypeInv, [Next]_vars, NEW m \in Msgs, Single(m)'
  PROVE  Single(m)
<1>1. CASE UNCHANGED vars
  BY <1>1 DEF vars, Single, Sole
<1>2. ASSUME NEW j \in Jobs, Arrive(j) \/ Stall(j) \/ Step(j) PROVE Single(m)
  <2>1. msgOf' = msgOf
    BY <1>2, OwnRows
  <2>2. \A k \in Jobs : stalls'[k] = 0 => stalls[k] = 0
    <3>1. CASE Stall(j)
      BY <3>1 DEF Stall, TypeInv, ControlOK
    <3>2. CASE Arrive(j) \/ Step(j)
      BY <3>2, StallsKept
    <3> QED BY <1>2, <3>1, <3>2
  <2> QED BY <2>1, <2>2 DEF Single, Sole
<1>3. ASSUME NEW n \in Msgs, Expire(n) PROVE Single(m)
  BY <1>3 DEF Expire, jobVars, Single, Sole
<1> QED BY <1>1, <1>2, <1>3 DEF Next

\* The steps of other jobs leave OnceInv as it is for a single message.
LEMMA OnceOthers ==
  ASSUME TypeInv, OnceInv, NEW j \in Jobs, Arrive(j) \/ Stall(j) \/ Step(j),
         NEW k \in Jobs \ {j}, Single(msgOf[k])
  PROVE  NothingWritten(k)' /\ \A r, s \in AnswersOf(msgOf[k])' : r = s
<1>1. msgOf[j] # msgOf[k]
  BY DEF Single, Sole
<1>2. AnswersOf(msgOf[k])' = AnswersOf(msgOf[k])
  BY <1>1, OwnRows DEF AnswersOf
<1>3. loc'[k] = loc[k] /\ pc'[k] = pc[k] /\ msgOf' = msgOf
  BY OtherJobs, OwnRows
<1>4. attempts'[k] = attempts[k]
  BY AttemptsKept
<1> QED BY <1>2, <1>3, <1>4 DEF OnceInv, NothingWritten

\* And the steps of the message's own job keep it.
LEMMA OnceSelf ==
  ASSUME TypeInv, OnceInv, NEW j \in Jobs, Arrive(j) \/ Step(j), Single(msgOf[j])
  PROVE  NothingWritten(j)' /\ \A r, s \in AnswersOf(msgOf[j])' : r = s
<1> USE DEF TypeInv, ControlOK
<1>0. /\ NothingWritten(j) /\ msgOf' = msgOf /\ loc[j] \in Locals
      /\ \A r, s \in AnswersOf(msgOf[j]) : r = s
  BY OwnRows DEF OnceInv
<1>1. CASE Arrive(j) \/ Find(j) \/ FindInDatabase(j) \/ FillCache(j)
             \/ SkipStale(j) \/ CreateMedia(j)
  <2>1. UNCHANGED <<attempts, lessonRows>> /\ pc[j] \in BeforeTheTurn
    BY <1>1 DEF Arrive, Find, FindInDatabase, FillCache, SkipStale, CreateMedia,
       jobVars, lesson, BeforeTheTurn
  <2>2. pc'[j] \notin {"lessonRead", "lessonInsert"}
    BY <1>1 DEF Arrive, Find, FindInDatabase, FillCache, SkipStale, CreateMedia, Goto
  <2> QED BY <1>0, <2>1, <2>2 DEF NothingWritten, AnswersOf
<1>2. CASE ReuseMedia(j) \/ FetchAudio(j)
  <2>1. /\ UNCHANGED <<attempts, lessonRows>> /\ pc[j] \in BeforeTheTurn
        /\ pc'[j] = StartOfTurn(j)
    BY <1>2 DEF ReuseMedia, FetchAudio, jobVars, lesson, BeforeTheTurn, Goto
  <2>2. /\ pc'[j] \notin BeforeTheTurn \cup {"lessonInsert"}
        /\ pc'[j] = "lessonRead" => attempts[j] = 0
    BY <2>1 DEF StartOfTurn, BeforeTheTurn
  <2> QED BY <1>0, <2>1, <2>2 DEF NothingWritten, AnswersOf
<1>3. CASE CleanOnboarding(j) \/ UndoOnboarding(j) \/ StartOnboarding(j)
             \/ ClassifyReply(j) \/ AlreadyDone(j) \/ CommitOnboarding(j)
             \/ SendMessage(j) \/ RecordSent(j)
  <2>1. lessonRows' = lessonRows
    BY <1>3 DEF CleanOnboarding, UndoOnboarding, RollbackOnboarding, StartOnboarding,
       ClassifyReply, AlreadyDone, CommitOnboarding, SendMessage, RecordSent, lesson
  <2>2. pc'[j] \notin BeforeTheTurn \cup {"lessonRead", "lessonInsert"}
    BY <1>3 DEF CleanOnboarding, UndoOnboarding, RollbackOnboarding, StartOnboarding,
       ClassifyReply, AlreadyDone, CommitOnboarding, SendMessage, RecordSent,
       AfterRecord, Goto, BeforeTheTurn
  <2> QED BY <1>0, <2>1, <2>2 DEF NothingWritten, AnswersOf
<1>4. CASE EvictUser(j)
  <2>1. lessonRows' = lessonRows /\ pc'[j] = "lessonRead"
    BY <1>4 DEF EvictUser, lesson, Goto
  <2>2. loc'[j].answer = FALSE
    BY <1>4 DEF EvictUser, Locals
  <2> QED BY <1>0, <2>1, <2>2 DEF NothingWritten, AnswersOf, BeforeTheTurn
<1>5. CASE CleanupPartialState(j)
  BY <1>0, <1>5 DEF CleanupPartialState, Without, By, NothingWritten, AnswersOf
<1>6. CASE ReadLesson(j)
  <2>1. lessonRows' = lessonRows /\ pc'[j] = "lessonInsert" /\ pc[j] = "lessonRead"
    BY <1>6 DEF ReadLesson, lesson, Goto
  <2>2. loc'[j].row.kind = "answer" => loc[j].answer
    BY <1>6 DEF ReadLesson, NoRow, Locals
  <2> QED BY <1>0, <2>1, <2>2 DEF NothingWritten, AnswersOf, BeforeTheTurn
<1>7. CASE InsertLesson(j)
  <2> DEFINE new == [at |-> seq + 1, by |-> msgOf[j], kind |-> loc[j].row.kind,
                     from |-> loc[j].row.from, done |-> loc[j].row.done]
  <2>1. lessonRows' = lessonRows \cup {new} /\ pc[j] = "lessonInsert"
    BY <1>7 DEF InsertLesson
  <2>2. pc'[j] \in {"grade", "send"}
    BY <1>7 DEF InsertLesson, Goto
  <2>3. CASE loc[j].row.kind = "answer"
    <3>1. AnswersOf(msgOf[j]) = {}
      BY <1>0, <2>1, <2>3 DEF NothingWritten
    <3>2. AnswersOf(msgOf[j])' = {new}
      BY <1>0, <2>1, <2>3, <3>1 DEF AnswersOf
    <3> QED BY <2>2, <3>2 DEF NothingWritten, BeforeTheTurn
  <2>4. CASE loc[j].row.kind # "answer"
    <3>1. AnswersOf(msgOf[j])' = AnswersOf(msgOf[j])
      BY <1>0, <2>1, <2>4 DEF AnswersOf
    <3> QED BY <1>0, <2>2, <3>1 DEF NothingWritten, BeforeTheTurn
  <2> QED BY <2>3, <2>4
<1>8. CASE Grade(j)
  <2>1. lessonRows' = lessonRows /\ pc'[j] \in {"lessonRead", "send"}
    BY <1>8 DEF Grade, Goto
  <2>2. loc'[j].answer = FALSE
    BY <1>8 DEF Grade, Locals
  <2> QED BY <1>0, <2>1, <2>2 DEF NothingWritten, AnswersOf, BeforeTheTurn
<1>9. CASE MarkRolledBack(j)
  <2>1. lessonRows' \subseteq lessonRows /\ pc'[j] \in {"done", "onbRollback"}
    BY <1>9 DEF MarkRolledBack, Swept, Without, Goto
  <2> QED BY <1>0, <2>1 DEF NothingWritten, AnswersOf, BeforeTheTurn
<1>10. CASE Fail(j) \/ TranscriptionFails(j) \/ ResponseLost(j)
  <2>1. EndAttempt(j)
    BY <1>10 DEF Fail, TranscriptionFails, ResponseLost
  <2>2. /\ lessonRows' = lessonRows /\ pc'[j] \in {"find", "failed"}
        /\ attempts'[j] = attempts[j] + 1
    BY <2>1 DEF EndAttempt, AttemptsAfterFailure, Goto, lesson
  <2>3. attempts'[j] # 0
    BY <2>2, JobsAssumption
  <2> QED BY <1>0, <2>2, <2>3 DEF NothingWritten, AnswersOf
<1> QED
  BY <1>1, <1>2, <1>3, <1>4, <1>5, <1>6, <1>7, <1>8, <1>9, <1>10 DEF Step

\* Every step keeps OnceInv.
LEMMA OnceStep ==
  ASSUME TypeInv, OnceInv, [Next]_vars
  PROVE  OnceInv'
<1> SUFFICES ASSUME NEW k \in Jobs, Single(msgOf[k])'
             PROVE  NothingWritten(k)' /\ \A r, s \in AnswersOf(msgOf[k])' : r = s
  BY DEF OnceInv
<1>1. ASSUME NEW j \in Jobs, Arrive(j) \/ Stall(j) \/ Step(j)
      PROVE  NothingWritten(k)' /\ \A r, s \in AnswersOf(msgOf[k])' : r = s
  <2>1. msgOf' = msgOf /\ Single(msgOf[k])
    BY <1>1, OwnRows, SingleBefore DEF TypeInv, ControlOK
  <2>2. CASE j # k
    BY <1>1, <2>1, <2>2, OnceOthers
  <2>3. CASE j = k /\ ~Stall(j)
    BY <1>1, <2>1, <2>3, OnceSelf
  <2>4. ~(j = k /\ Stall(j))
    <3> SUFFICES ASSUME Stall(k) PROVE FALSE
      OBVIOUS
    <3>1. stalls'[k] = stalls[k] + 1 /\ stalls[k] \in Nat
      BY JobsAssumption DEF Stall, TypeInv, ControlOK
    <3> QED BY <2>1, <3>1 DEF Single, Sole
  <2> QED BY <2>2, <2>3, <2>4
<1>2. CASE UNCHANGED <<lessonRows, pc, loc, attempts, msgOf, stalls>>
  BY <1>2 DEF OnceInv, NothingWritten, AnswersOf, Single, Sole
<1>3. ASSUME NEW m \in Msgs, Expire(m)
      PROVE  UNCHANGED <<lessonRows, pc, loc, attempts, msgOf, stalls>>
  BY <1>3 DEF Expire, jobVars, lesson
<1> QED BY <1>1, <1>2, <1>3 DEF Next, vars

\* However often and wherever the attempts of a voice note fail, and whatever
\* the user's other voice notes do meanwhile, it answers the lesson once.
THEOREM OneAnswerPerNote == Spec => []AnsweredOnce
<1>1. Init => OnceInv
  <2> SUFFICES ASSUME Init, NEW j \in Jobs PROVE AnswersOf(msgOf[j]) = {}
    BY DEF OnceInv, NothingWritten
  <2>1. \A r \in lessonRows : r.by = Earlier
    BY DEF Init
  <2> QED BY <2>1, JobsAssumption DEF Init, AnswersOf
<1>2. TypeInv /\ OnceInv /\ [Next]_vars => OnceInv'
  BY OnceStep
<1>3. OnceInv => AnsweredOnce
  <2> SUFFICES ASSUME OnceInv, NEW m \in Msgs, Single(m),
                      NEW r \in By(m, lessonRows), NEW s \in By(m, lessonRows),
                      r.kind = "answer", s.kind = "answer"
               PROVE  r = s
    BY DEF AnsweredOnce
  <2>1. PICK j \in Jobs : msgOf[j] = m
    BY DEF Single, Sole
  <2> QED BY <2>1 DEF OnceInv, AnswersOf, By
<1> QED BY TypeInit, TypeStep, <1>1, <1>2, <1>3, PTL DEF Spec
-----------------------------------------------------------------------------
(* The undelivered turn.  A job ends well without a delivery only by way of *)
(* the rolled-back transaction; a step later the onboarding rollback finds  *)
(* nothing left, and no other job writes for this message.                  *)

NothingLeft(m) ==
  /\ media[m].rolledBack
  /\ By(m, onbRows) = {} /\ By(m, lessonRows) = {} /\ By(m, scores) = {}
  /\ \A a \in audit : a.by = m => a.status = "rolled_back"

UndoInv ==
  \A j \in Jobs :
    pc[j] \in {"onbRollback", "done"} /\ ~loc[j].delivered /\ Sole(msgOf[j])
    => NothingLeft(msgOf[j])

\* The steps of other jobs leave UndoInv as it is,
LEMMA UndoOthers ==
  ASSUME TypeInv, UndoInv, NEW j \in Jobs, Arrive(j) \/ Stall(j) \/ Step(j),
         NEW k \in Jobs \ {j}, Sole(msgOf[k]),
         pc'[k] \in {"onbRollback", "done"}, ~loc'[k].delivered
  PROVE  NothingLeft(msgOf[k])'
<1>1. msgOf[j] # msgOf[k]
  BY DEF Sole
<1>2. loc'[k] = loc[k] /\ pc'[k] = pc[k] /\ msgOf' = msgOf
  BY OtherJobs, OwnRows
<1>3. NothingLeft(msgOf[k])
  BY <1>2 DEF UndoInv
<1>4. /\ By(msgOf[k], onbRows)' = {} /\ By(msgOf[k], lessonRows)' = {}
      /\ By(msgOf[k], scores)' = {}
  BY <1>1, <1>2, <1>3, OwnRows DEF NothingLeft, By
<1>5. \A a \in audit' : a.by = msgOf[k] => a.status = "rolled_back"
  BY <1>1, <1>3, OwnRows DEF NothingLeft
<1>6. media'[msgOf[k]] = media[msgOf[k]]
  BY <1>1, OwnRows DEF TypeInv, ControlOK
<1> QED BY <1>2, <1>3, <1>4, <1>5, <1>6 DEF NothingLeft

\* its own keep it,
LEMMA UndoSelf ==
  ASSUME TypeInv, UndoInv, NEW j \in Jobs, Arrive(j) \/ Stall(j) \/ Step(j),
         Sole(msgOf[j]), pc'[j] \in {"onbRollback", "done"}, ~loc'[j].delivered
  PROVE  NothingLeft(msgOf[j])'
<1> USE DEF TypeInv, ControlOK
<1>1. CASE MarkRolledBack(j)
  <2>1. msgOf' = msgOf /\ msgOf[j] \in Msgs
    BY <1>1 DEF MarkRolledBack, jobVars
  <2>2. media'[msgOf[j]].rolledBack
    BY <1>1, <2>1 DEF MarkRolledBack, TablesOK, MediaRow
  <2>3. \A a \in audit' : a.by = msgOf[j] => a.status = "rolled_back"
    BY <1>1 DEF MarkRolledBack, TablesOK
  <2>4. /\ By(msgOf[j], onbRows)' = {} /\ By(msgOf[j], lessonRows)' = {}
        /\ By(msgOf[j], scores)' = {}
    BY <1>1, <2>1 DEF MarkRolledBack, Swept, Without, By
  <2> QED BY <2>1, <2>2, <2>3, <2>4 DEF NothingLeft
<1>2. CASE UndoOnboarding(j)
  <2>1. /\ pc[j] = "onbRollback" /\ loc' = loc /\ msgOf' = msgOf
        /\ UNCHANGED <<media, lessonRows, scores, audit>>
        /\ onbRows' = onbRows \ By(msgOf[j], onbRows)
    BY <1>2 DEF UndoOnboarding, RollbackOnboarding, Without, jobVars, lesson
  <2>2. NothingLeft(msgOf[j])
    BY <2>1 DEF UndoInv
  <2> QED BY <2>1, <2>2 DEF NothingLeft, By
<1>3. ~RecordSent(j)
  BY DEF RecordSent, AfterRecord, Goto
<1>4. CASE (Arrive(j) \/ Stall(j) \/ Step(j))
             /\ ~MarkRolledBack(j) /\ ~UndoOnboarding(j) /\ ~RecordSent(j)
  <2>1. pc'[j] \notin {"onbRollback", "done"}
    BY <1>4 DEF Step, Arrive, Stall, Find, FindInDatabase, FillCache, SkipStale,
       CreateMedia, ReuseMedia, FetchAudio, CleanOnboarding, RollbackOnboarding,
       StartOnboarding, ClassifyReply, AlreadyDone, CommitOnboarding, EvictUser,
       CleanupPartialState, ReadLesson, InsertLesson, Grade, SendMessage, Fail,
       TranscriptionFails, ResponseLost, EndAttempt, StartOfTurn, Goto
  <2> QED BY <2>1
<1> QED BY <1>1, <1>2, <1>3, <1>4

\* and so every step does.
LEMMA UndoStep ==
  ASSUME TypeInv, UndoInv, [Next]_vars
  PROVE  UndoInv'
<1>1. ASSUME NEW j \in Jobs, Arrive(j) \/ Stall(j) \/ Step(j) PROVE UndoInv'
  <2>1. msgOf' = msgOf
    BY <1>1, OwnRows
  <2> SUFFICES ASSUME NEW k \in Jobs, pc'[k] \in {"onbRollback", "done"},
                      ~loc'[k].delivered, Sole(msgOf[k])
               PROVE  NothingLeft(msgOf[k])'
    BY <2>1 DEF UndoInv, Sole
  <2>2. CASE j = k
    BY <1>1, <2>2, UndoSelf
  <2>3. CASE j # k
    BY <1>1, <2>3, UndoOthers
  <2> QED BY <2>2, <2>3
<1>2. CASE UNCHANGED <<msgOf, pc, loc, media, onbRows, lessonRows, scores, audit>>
  BY <1>2 DEF UndoInv, NothingLeft, By, Sole
<1>3. ASSUME NEW m \in Msgs, Expire(m)
      PROVE  UNCHANGED <<msgOf, pc, loc, media, onbRows, lessonRows, scores, audit>>
  BY <1>3 DEF Expire, jobVars, lesson
<1> QED BY <1>1, <1>2, <1>3 DEF Next, vars

\* When a job ends on a reply the parent never got, the turn is gone from every
\* table, for any number of concurrent jobs, failures and stalls.
THEOREM UndeliveredIsUndone == Spec => []UndeliveredLeavesNothing
<1>1. Init => UndoInv
  BY DEF Init, UndoInv
<1>2. TypeInv /\ UndoInv /\ [Next]_vars => UndoInv'
  BY UndoStep
<1>3. UndoInv => UndeliveredLeavesNothing
  BY DEF UndoInv, NothingLeft, UndeliveredLeavesNothing
<1> QED BY TypeInit, TypeStep, <1>1, <1>2, <1>3, PTL DEF Spec
-----------------------------------------------------------------------------
(* The delivered turn.  wabot delivers once, while the window is open; a    *)
(* message is rolled back only after wabot has answered that it is not.     *)

AfterSend == {"record", "markRolledBack", "onbRollback", "done"}
AfterInsert == {"grade", "lessonRead", "lessonInsert", "send"} \cup AfterSend

DeliveredOf(j) ==
  LET m == msgOf[j] IN
    /\ pc[j] \in AfterSend /\ ~loc[j].delivered => window[m] \notin {"open", "none"}
    /\ media[m].rolledBack => window[m] \notin {"open", "none"}
    /\ pc[j] = "waiting" \/ window[m] # "none"
    /\ loc[j].delivered => pc[j] \in {"record", "done"} /\ ~media[m].rolledBack
    /\ ~media[m].rolledBack => \A a \in audit : a.by = m => a.status = "sent"
    /\ loc[j].reply = "lesson" => pc[j] \in AfterInsert
    /\ loc[j].reply = "lesson" /\ (loc[j].delivered \/ pc[j] \notin {"onbRollback", "done"})
         => By(m, lessonRows) # {}

DeliveredInv == \A j \in Jobs : Sole(msgOf[j]) => DeliveredOf(j)

\* A job touches the in-flight window of its own message only.
LEMMA OwnWindow ==
  ASSUME TypeInv, NEW j \in Jobs, Arrive(j) \/ Stall(j) \/ Step(j)
  PROVE  \A m \in Msgs : m # msgOf[j] => window'[m] = window[m]
BY DEF TypeInv, ControlOK, WabotOK, Arrive, Stall, Step, Find, FindInDatabase,
   FillCache, SkipStale, CreateMedia, ReuseMedia, FetchAudio, CleanOnboarding,
   UndoOnboarding, RollbackOnboarding, StartOnboarding, ClassifyReply, AlreadyDone,
   CommitOnboarding, EvictUser, CleanupPartialState, ReadLesson, InsertLesson,
   Grade, SendMessage, RecordSent, MarkRolledBack, Fail, TranscriptionFails,
   ResponseLost, wabot

\* Only the end of an attempt and the answer to sendMessage touch `delivered`.
LEMMA ReplyKept ==
  ASSUME TypeInv, NEW j \in Jobs,
         \/ Find(j) \/ FindInDatabase(j) \/ FillCache(j) \/ SkipStale(j)
         \/ CreateMedia(j) \/ ReuseMedia(j) \/ FetchAudio(j)
         \/ CleanOnboarding(j) \/ StartOnboarding(j) \/ ClassifyReply(j)
         \/ AlreadyDone(j) \/ CommitOnboarding(j) \/ EvictUser(j)
         \/ CleanupPartialState(j)
  PROVE  /\ loc'[j].delivered = loc[j].delivered
         /\ loc'[j].reply \in {loc[j].reply, "onboarding"}
<1> USE DEF TypeInv, ControlOK
<1>1. CASE UNCHANGED loc
  BY <1>1
<1>2. CASE Find(j)
  <2> DEFINE b == IF cached = Null THEN FALSE ELSE cached
  <2>1. loc' = [loc EXCEPT ![j].onb = b]
    BY <1>2 DEF Find
  <2> HIDE DEF b
  <2> QED BY <2>1 DEF Locals
<1>3. CASE FindInDatabase(j)
  BY <1>3 DEF FindInDatabase, Locals
<1>4. CASE StartOnboarding(j)
  BY <1>4 DEF StartOnboarding, Locals
<1>5. CASE ClassifyReply(j)
  <2>1. PICK target : loc' = [loc EXCEPT ![j].next = target]
    BY <1>5 DEF ClassifyReply
  <2> QED BY <2>1 DEF Locals
<1>6. CASE AlreadyDone(j)
  BY <1>6 DEF AlreadyDone, Locals
<1>7. CASE CommitOnboarding(j)
  <2> DEFINE l == [loc EXCEPT ![j].reply = "onboarding"]
  <2>1. /\ l \in [Jobs -> Locals] /\ l[j].reply = "onboarding"
        /\ l[j].delivered = loc[j].delivered
    BY DEF Locals
  <2>2. loc' = [l EXCEPT ![j].next = Null]
    BY <1>7 DEF CommitOnboarding
  <2> HIDE DEF l
  <2> QED BY <2>1, <2>2 DEF Locals
<1>8. CASE EvictUser(j)
  BY <1>8 DEF EvictUser, Locals
<1>9. CASE FillCache(j) \/ SkipStale(j) \/ CreateMedia(j) \/ ReuseMedia(j)
             \/ FetchAudio(j) \/ CleanOnboarding(j) \/ CleanupPartialState(j)
  <2>1. UNCHANGED loc
    BY <1>9 DEF FillCache, SkipStale, CreateMedia, ReuseMedia, FetchAudio,
       CleanOnboarding, RollbackOnboarding, CleanupPartialState
  <2> QED BY <2>1
<1> QED BY <1>2, <1>3, <1>4, <1>5, <1>6, <1>7, <1>8, <1>9

\* And only the rollback touches the flag.
LEMMA FlagKept ==
  ASSUME TypeInv, NEW j \in Jobs, Arrive(j) \/ Stall(j) \/ Step(j),
         ~MarkRolledBack(j)
  PROVE  \A m \in Msgs : media'[m].rolledBack = media[m].rolledBack
<1> USE DEF TypeInv, TablesOK, ControlOK
<1>1. CASE CreateMedia(j) \/ TranscriptionFails(j)
  <2>1. PICK status : media' = [media EXCEPT ![msgOf[j]].status = status]
    BY <1>1 DEF CreateMedia, TranscriptionFails
  <2> QED BY <2>1 DEF MediaRow
<1>2. CASE FetchAudio(j)
  <2> DEFINE ready == [media EXCEPT ![msgOf[j]].status = "ready"]
  <2>1. /\ ready \in [Msgs -> MediaRow]
        /\ \A m \in Msgs : ready[m].rolledBack = media[m].rolledBack
    BY DEF MediaRow
  <2>2. media' = [ready EXCEPT ![msgOf[j]].transcribed = TRUE]
    BY <1>2 DEF FetchAudio
  <2> HIDE DEF ready
  <2>3. \A m \in Msgs : media'[m].rolledBack = ready[m].rolledBack
    BY <2>1, <2>2 DEF MediaRow
  <2> QED BY <2>1, <2>3
<1>3. CASE ~(CreateMedia(j) \/ TranscriptionFails(j) \/ FetchAudio(j))
  <2>1. UNCHANGED media
    BY <1>3 DEF Step, Arrive, Stall, Find, FindInDatabase, FillCache, SkipStale,
       ReuseMedia, CleanOnboarding, UndoOnboarding, RollbackOnboarding,
       StartOnboarding, ClassifyReply, AlreadyDone, CommitOnboarding, EvictUser,
       CleanupPartialState, ReadLesson, InsertLesson, Grade, SendMessage,
       RecordSent, Fail, ResponseLost, EndAttempt
  <2> QED BY <2>1
<1> QED BY <1>1, <1>2, <1>3

\* The steps of other jobs leave DeliveredOf as it is,
LEMMA DeliveredOthers ==
  ASSUME TypeInv, DeliveredInv, NEW j \in Jobs, Arrive(j) \/ Stall(j) \/ Step(j),
         NEW k \in Jobs \ {j}, Sole(msgOf[k])
  PROVE  DeliveredOf(k)'
<1>1. msgOf[j] # msgOf[k] /\ msgOf[k] \in Msgs
  BY DEF Sole, TypeInv, ControlOK
<1>2. loc'[k] = loc[k] /\ pc'[k] = pc[k] /\ msgOf' = msgOf
  BY OtherJobs, OwnRows
<1>3. window'[msgOf[k]] = window[msgOf[k]] /\ media'[msgOf[k]] = media[msgOf[k]]
  BY <1>1, OwnWindow, OwnRows
<1>4. By(msgOf[k], lessonRows)' = By(msgOf[k], lessonRows)
  BY <1>1, <1>2, OwnRows DEF By
<1>5. \A a \in audit' : a.by = msgOf[k] => a \in audit
  BY <1>1, OwnRows
<1>6. DeliveredOf(k)
  BY DEF DeliveredInv
<1> QED BY <1>2, <1>3, <1>4, <1>5, <1>6 DEF DeliveredOf

\* its own keep it,
LEMMA DeliveredSelf ==
  ASSUME TypeInv, DeliveredInv, NEW j \in Jobs, Arrive(j) \/ Stall(j) \/ Step(j),
         Sole(msgOf[j])
  PROVE  DeliveredOf(j)'
<1> USE DEF TypeInv, ControlOK, AfterSend, AfterInsert
<1> DEFINE m == msgOf[j]
<1>0. /\ DeliveredOf(j) /\ msgOf' = msgOf /\ loc[j] \in Locals /\ m \in Msgs
      /\ media[m] \in MediaRow
  BY OwnRows DEF DeliveredInv, TablesOK
<1>1. CASE Arrive(j)
  <2>1. /\ UNCHANGED <<loc, media, audit, lessonRows>>
        /\ pc[j] = "waiting" /\ pc'[j] \in {"find", "skipped"}
    BY <1>1 DEF Arrive, lesson
  <2>2. window[m] # "none" => window'[m] = window[m]
    BY <1>1 DEF Arrive, WabotOK
  <2>3. window'[m] # "none"
    BY <1>0, <1>1 DEF Arrive, WabotOK
  <2> QED BY <1>0, <2>1, <2>2, <2>3 DEF DeliveredOf
<1>2. CASE Stall(j) \/ Fail(j) \/ TranscriptionFails(j) \/ ResponseLost(j)
  <2>1. /\ loc'[j] = NoLocs /\ UNCHANGED <<audit, lessonRows>>
        /\ pc'[j] \in {"find", "failed"} /\ pc[j] # "waiting"
    BY <1>2 DEF Stall, Fail, TranscriptionFails, ResponseLost, EndAttempt, lesson, Goto,
       Active
  <2>2. window'[m] \in {window[m], "answered"}
    BY <1>2 DEF Stall, Fail, TranscriptionFails, ResponseLost, wabot, WabotOK
  <2>3. media'[m].rolledBack = media[m].rolledBack
    BY <1>0, <1>2, <2>1, FlagKept DEF MarkRolledBack, Goto
  <2>4. ~NoLocs.delivered /\ NoLocs.reply = "none"
    BY DEF NoLocs
  <2> QED BY <1>0, <2>1, <2>2, <2>3, <2>4 DEF DeliveredOf
<1>3. CASE Find(j) \/ FindInDatabase(j) \/ FillCache(j) \/ SkipStale(j)
             \/ CreateMedia(j) \/ ReuseMedia(j) \/ FetchAudio(j)
             \/ CleanOnboarding(j) \/ StartOnboarding(j) \/ ClassifyReply(j)
             \/ AlreadyDone(j) \/ CommitOnboarding(j) \/ EvictUser(j)
             \/ CleanupPartialState(j)
  <2>1. pc[j] \notin AfterInsert \cup {"waiting"}
    BY <1>3 DEF Find, FindInDatabase, FillCache, SkipStale, CreateMedia, ReuseMedia,
       FetchAudio, CleanOnboarding, StartOnboarding, ClassifyReply, AlreadyDone,
       CommitOnboarding, EvictUser, CleanupPartialState
  <2>2. ~loc[j].delivered /\ loc[j].reply # "lesson"
    BY <1>0, <2>1 DEF DeliveredOf
  <2>3. loc'[j].delivered = loc[j].delivered /\ loc'[j].reply \in {loc[j].reply, "onboarding"}
    BY <1>3, ReplyKept
  <2>4. pc'[j] \notin AfterSend
    BY <1>3 DEF Find, FindInDatabase, FillCache, SkipStale, CreateMedia, ReuseMedia,
       FetchAudio, CleanOnboarding, RollbackOnboarding, StartOnboarding,
       ClassifyReply, AlreadyDone, CommitOnboarding, EvictUser,
       CleanupPartialState, StartOfTurn, Goto
  <2>5. UNCHANGED <<window, audit>>
    BY <1>3 DEF Find, FindInDatabase, FillCache, SkipStale, CreateMedia, ReuseMedia,
       FetchAudio, CleanOnboarding, RollbackOnboarding, StartOnboarding,
       ClassifyReply, AlreadyDone, CommitOnboarding, EvictUser,
       CleanupPartialState, wabot
  <2>6. media'[m].rolledBack = media[m].rolledBack
    BY <1>0, <2>1, FlagKept DEF MarkRolledBack
  <2> QED BY <1>0, <2>1, <2>2, <2>3, <2>4, <2>5, <2>6 DEF DeliveredOf
<1>4. CASE ReadLesson(j) \/ Grade(j)
  <2>1. /\ UNCHANGED <<window, media, audit, lessonRows>>
        /\ pc[j] \in {"lessonRead", "grade"}
        /\ pc'[j] \in {"lessonRead", "lessonInsert", "send"}
    BY <1>4 DEF ReadLesson, Grade, Goto, wabot, lesson
  <2>2. loc'[j].delivered = loc[j].delivered /\ loc'[j].reply = loc[j].reply
    BY <1>4 DEF ReadLesson, Grade, Locals
  <2> QED BY <1>0, <2>1, <2>2 DEF DeliveredOf
<1>5. CASE InsertLesson(j)
  <2>1. /\ UNCHANGED <<window, media, audit>> /\ pc[j] = "lessonInsert"
        /\ pc'[j] \in {"grade", "send"}
    BY <1>5 DEF InsertLesson, Goto, wabot
  <2>2. loc'[j].delivered = loc[j].delivered
    BY <1>5 DEF InsertLesson, Locals
  <2> DEFINE new == [at |-> seq + 1, by |-> m, kind |-> loc[j].row.kind,
                     from |-> loc[j].row.from, done |-> loc[j].row.done]
  <2>4. new \in lessonRows' /\ new.by = m
    BY <1>5 DEF InsertLesson
  <2> HIDE DEF new
  <2>3. By(m, lessonRows)' # {}
    BY <1>0, <2>4 DEF By
  <2> QED BY <1>0, <2>1, <2>2, <2>3 DEF DeliveredOf
<1>6. CASE SendMessage(j)
  <2>1. /\ UNCHANGED <<media, audit, lessonRows>> /\ pc[j] = "send" /\ pc'[j] = "record"
    BY <1>6 DEF SendMessage, Goto, lesson
  <2>2. /\ loc'[j].delivered = (window[m] = "open") /\ loc'[j].reply = loc[j].reply
        /\ window'[m] = IF window[m] = "open" THEN "answered" ELSE window[m]
    BY <1>0, <1>6 DEF SendMessage, Locals, WabotOK
  <2>3. window[m] # "none"
    BY <1>0, <2>1 DEF DeliveredOf
  <2> QED BY <1>0, <2>1, <2>2, <2>3 DEF DeliveredOf
<1>7. CASE RecordSent(j)
  <2>1. /\ UNCHANGED <<window, media, loc, lessonRows>> /\ pc[j] = "record"
        /\ pc'[j] = AfterRecord(j)
        /\ audit' \subseteq audit \cup {[by |-> m, status |-> "sent"]}
    BY <1>7 DEF RecordSent, Recorded, Goto, wabot, lesson
  <2> QED BY <1>0, <2>1 DEF DeliveredOf, AfterRecord
<1>8. CASE MarkRolledBack(j)
  <2>1. /\ UNCHANGED <<window, loc>> /\ pc[j] = "markRolledBack"
        /\ pc'[j] \in {"onbRollback", "done"}
    BY <1>8 DEF MarkRolledBack, Goto, wabot
  <2>2. media'[m].rolledBack
    BY <1>0, <1>8 DEF MarkRolledBack, TablesOK, MediaRow
  <2> QED BY <1>0, <2>1, <2>2 DEF DeliveredOf
<1>9. CASE UndoOnboarding(j)
  <2>1. /\ UNCHANGED <<window, media, audit, loc, lessonRows>>
        /\ pc[j] = "onbRollback" /\ pc'[j] = "done"
    BY <1>9 DEF UndoOnboarding, RollbackOnboarding, Goto, wabot, lesson
  <2> QED BY <1>0, <2>1 DEF DeliveredOf
<1> QED BY <1>1, <1>2, <1>3, <1>4, <1>5, <1>6, <1>7, <1>8, <1>9 DEF Step

\* and so every step does.
LEMMA DeliveredStep ==
  ASSUME TypeInv, DeliveredInv, [Next]_vars
  PROVE  DeliveredInv'
<1>1. ASSUME NEW j \in Jobs, Arrive(j) \/ Stall(j) \/ Step(j) PROVE DeliveredInv'
  <2>1. msgOf' = msgOf
    BY <1>1, OwnRows
  <2> SUFFICES ASSUME NEW k \in Jobs, Sole(msgOf[k]) PROVE DeliveredOf(k)'
    BY <2>1 DEF DeliveredInv, Sole
  <2>2. CASE j = k
    BY <1>1, <2>2, DeliveredSelf
  <2>3. CASE j # k
    BY <1>1, <2>3, DeliveredOthers
  <2> QED BY <2>2, <2>3
<1>2. ASSUME NEW n \in Msgs, Expire(n) PROVE DeliveredInv'
  <2>1. UNCHANGED <<msgOf, pc, loc, media, audit, lessonRows>>
    BY <1>2 DEF Expire, jobVars, lesson
  <2>2. \A m \in Msgs : window[m] \notin {"open", "none"} => window'[m] \notin {"open", "none"}
    BY <1>2 DEF Expire, TypeInv, WabotOK
  <2>3. \A m \in Msgs : window[m] # "none" => window'[m] # "none"
    BY <1>2 DEF Expire, TypeInv, WabotOK
  <2> QED BY <2>1, <2>2, <2>3 DEF DeliveredInv, DeliveredOf, By, Sole, TypeInv, ControlOK
<1>3. CASE UNCHANGED vars
  BY <1>3 DEF vars, DeliveredInv, DeliveredOf, By, Sole
<1> QED BY <1>1, <1>2, <1>3 DEF Next

\* Nothing is delivered at the beginning.
LEMMA DeliveredInit == Init => DeliveredInv
BY JobsAssumption DEF Init, DeliveredInv, DeliveredOf, NoLocs, NewMedia, AfterSend,
   AfterInsert, Sole

\* When wabot took the reply, the turn the parent heard stays on record, for
\* any number of concurrent jobs, failures and stalls.
THEOREM DeliveredIsKept == Spec => []DeliveredKept
<1>1. Init => DeliveredInv
  BY DeliveredInit
<1>2. TypeInv /\ DeliveredInv /\ [Next]_vars => DeliveredInv'
  BY DeliveredStep
<1>3. DeliveredInv => DeliveredKept
  BY DEF DeliveredInv, DeliveredOf, DeliveredKept, AfterSend, AfterInsert
<1> QED BY TypeInit, TypeStep, <1>1, <1>2, <1>3, PTL DEF Spec
-----------------------------------------------------------------------------
(* The promise.  As long as no worker dies, a turn that was told has ended  *)
(* for the tables, and one that was undone has nothing left to undo: each   *)
(* step of a job is a step of TurnPromise for its message, or a stutter.    *)

Phases == [m \in Msgs |-> PhaseOf(m)]
Writes == {m \in Msgs : Sole(m) /\ By(m, lessonRows) # {}}

\* One step as the promise sees it.
PromiseMoves ==
  \/ \E m \in Msgs :
       /\ Phases[m] = "open"
       /\ \/ UNCHANGED Phases /\ Writes' \in {Writes \cup {m}, Writes \ {m}}
          \/ Phases' = [Phases EXCEPT ![m] = "told"] /\ UNCHANGED Writes
          \/ Phases' = [Phases EXCEPT ![m] = "undone"] /\ Writes' = Writes \ {m}
  \/ UNCHANGED <<Phases, Writes>>

\* The parent has heard the reply: then the job knows, and is past its writes.
ToldOf(j) == Told(msgOf[j]) => loc[j].delivered

ToldInv == \A j \in Jobs : Single(msgOf[j]) => ToldOf(j)

\* A job tells its own message only, and with MaxStalls = 0 only by sending it.
LEMMA OwnTelling ==
  ASSUME TypeInv, NEW j \in Jobs, Arrive(j) \/ Step(j)
  PROVE  /\ \A m \in Msgs : m # msgOf[j] => (Told(m)' <=> Told(m))
         /\ ~SendMessage(j) /\ ~ResponseLost(j) => UNCHANGED <<heard, lost>>
<1> USE DEF TypeInv, ControlOK
<1>1. CASE SendMessage(j)
  <2>1. /\ lost' = lost
        /\ heard' \in {heard, heard \cup {[by |-> msgOf[j], reply |-> loc[j].reply]}}
    BY <1>1 DEF SendMessage
  <2> QED BY <1>1, <2>1 DEF Told
<1>2. CASE ResponseLost(j)
  <2>1. /\ lost' = lost \cup {msgOf[j]}
        /\ heard' = heard \cup {[by |-> msgOf[j], reply |-> loc[j].reply]}
    BY <1>2 DEF ResponseLost
  <2> QED BY <1>2, <2>1 DEF Told
<1>3. CASE ~SendMessage(j) /\ ~ResponseLost(j)
  <2>1. UNCHANGED <<heard, lost>>
    BY <1>3 DEF Step, Arrive, Find, FindInDatabase, FillCache, SkipStale, CreateMedia,
       ReuseMedia, FetchAudio, CleanOnboarding, UndoOnboarding, RollbackOnboarding,
       StartOnboarding, ClassifyReply, AlreadyDone, CommitOnboarding, EvictUser,
       CleanupPartialState, ReadLesson, InsertLesson, Grade, RecordSent,
       MarkRolledBack, Fail, TranscriptionFails, wabot
  <2> QED BY <2>1 DEF Told
<1> QED BY <1>1, <1>2, <1>3

\* A turn that was told has only its record left to write.
LEMMA ToldIsOver ==
  ASSUME TypeInv, DeliveredInv, ToldInv, NEW j \in Jobs, Arrive(j) \/ Step(j),
         Single(msgOf[j]), Told(msgOf[j])
  PROVE  RecordSent(j) /\ UNCHANGED <<loc, media, lessonRows, window, heard, lost>>
<1>1. loc[j].delivered /\ pc[j] \in {"record", "done"}
  BY DEF ToldInv, ToldOf, DeliveredInv, DeliveredOf, Single
<1>2. RecordSent(j)
  BY <1>1 DEF Step, Arrive, Find, FindInDatabase, FillCache, SkipStale, CreateMedia,
     ReuseMedia, FetchAudio, CleanOnboarding, UndoOnboarding, StartOnboarding,
     ClassifyReply, AlreadyDone, CommitOnboarding, EvictUser, CleanupPartialState,
     ReadLesson, InsertLesson, Grade, SendMessage, RecordSent, MarkRolledBack, Fail,
     TranscriptionFails, ResponseLost, Active
<1> QED BY <1>2 DEF RecordSent, wabot, lesson

\* Only wabot's answer to sendMessage makes a turn a told one.
LEMMA BecomesTold ==
  ASSUME TypeInv, NEW j \in Jobs, Arrive(j) \/ Step(j),
         ~Told(msgOf[j]), Told(msgOf[j])'
  PROVE  /\ SendMessage(j) /\ window[msgOf[j]] = "open" /\ loc'[j].delivered
         /\ UNCHANGED <<media, lessonRows>>
<1>0. msgOf' = msgOf
  BY OwnRows
<1>1. CASE SendMessage(j)
  <2>1. window[msgOf[j]] = "open"
    BY <1>0, <1>1 DEF SendMessage, Told
  <2>2. loc'[j].delivered
    BY <1>1, <2>1 DEF SendMessage, TypeInv, Locals
  <2> QED BY <1>1, <2>1, <2>2 DEF SendMessage, lesson
<1>2. CASE ResponseLost(j)
  BY <1>0, <1>2 DEF ResponseLost, Told
<1>3. CASE ~SendMessage(j) /\ ~ResponseLost(j)
  BY <1>0, <1>3, OwnTelling DEF Told
<1> QED BY <1>1, <1>2, <1>3

\* Without stalls a job takes its own steps only, and a message enqueued once is
\* single.
LEMMA NoStall ==
  ASSUME MaxStalls = 0, TypeInv
  PROVE  /\ \A j \in Jobs : ~Stall(j)
         /\ \A m \in Msgs : Sole(m) => Single(m)
BY DEF Stall, Single, TypeInv, ControlOK

\* What the parent was told stays known to the job.
LEMMA ToldStep ==
  ASSUME TypeInv, DeliveredInv, ToldInv, [Next]_vars
  PROVE  ToldInv'
<1>1. ASSUME NEW j \in Jobs, Arrive(j) \/ Step(j) \/ Stall(j) PROVE ToldInv'
  <2> SUFFICES ASSUME NEW k \in Jobs, Single(msgOf[k])', Told(msgOf[k])'
               PROVE  loc'[k].delivered
    BY DEF ToldInv, ToldOf
  <2>1. msgOf' = msgOf
    BY <1>1, OwnRows
  <2>2. PICK m \in Msgs : m = msgOf[k]
    BY DEF TypeInv, ControlOK
  <2>3. Single(m)' /\ Told(m)'
    BY <2>1, <2>2
  <2>4. Single(m)
    BY <2>3, SingleBefore
  <2>5. CASE Stall(j)
    <3>1. m # msgOf[j]
      BY <2>3, <2>5 DEF Stall, Single, TypeInv, ControlOK
    <3>2. Told(m) /\ loc'[k] = loc[k]
      BY <2>2, <2>3, <2>5, <3>1, OtherJobs DEF Stall, Told, wabot
    <3> QED BY <2>2, <2>4, <3>2 DEF ToldInv, ToldOf
  <2>6. CASE (Arrive(j) \/ Step(j)) /\ m = msgOf[j]
    <3>0. j = k
      <4>1. PICK i \in Jobs : {o \in Jobs : msgOf[o] = m} = {i}
        BY <2>4 DEF Single, Sole
      <4>2. j \in {o \in Jobs : msgOf[o] = m} /\ k \in {o \in Jobs : msgOf[o] = m}
        BY <1>1, <2>2, <2>6
      <4> QED BY <4>1, <4>2
    <3>1. CASE Told(m)
      BY <2>2, <2>4, <2>6, <3>0, <3>1, ToldIsOver DEF ToldInv, ToldOf
    <3>2. CASE ~Told(m)
      BY <2>1, <2>2, <2>3, <2>6, <3>0, <3>2, BecomesTold
    <3> QED BY <3>1, <3>2
  <2>7. CASE (Arrive(j) \/ Step(j)) /\ m # msgOf[j]
    <3>1. loc'[k] = loc[k]
      BY <2>2, <2>7, OtherJobs
    <3>2. Told(m)
      BY <2>3, <2>7, OwnTelling
    <3> QED BY <2>2, <2>4, <3>1, <3>2 DEF ToldInv, ToldOf
  <2> QED BY <1>1, <2>5, <2>6, <2>7
<1>2. ASSUME NEW n \in Msgs, Expire(n) PROVE ToldInv'
  BY <1>2 DEF Expire, jobVars, ToldInv, ToldOf, Told, Single, Sole
<1>3. CASE UNCHANGED vars
  BY <1>3 DEF vars, ToldInv, ToldOf, Told, Single, Sole
<1> QED BY <1>1, <1>2, <1>3 DEF Next

\* Nothing is told at the beginning.
LEMMA ToldInit == Init => ToldInv
BY DEF Init, ToldInv, ToldOf, Told

\* What one step of a job does to the phase of its message and to the lesson's rows.
LEMMA PromiseSelf ==
  ASSUME MaxStalls = 0, TypeInv, DeliveredInv, ToldInv, RolledBackLeavesNothing,
         RolledBackLeavesNothing', NEW j \in Jobs, Arrive(j) \/ Step(j),
         NEW m \in Msgs, m = msgOf[j], Sole(m)
  PROVE  \/ PhaseOf(m)' = PhaseOf(m) /\ By(m, lessonRows)' = By(m, lessonRows)
         \/ PhaseOf(m) = "open" /\ PhaseOf(m)' = "open"
         \/ /\ PhaseOf(m) = "open" /\ PhaseOf(m)' = "told"
            /\ By(m, lessonRows)' = By(m, lessonRows)
         \/ PhaseOf(m) = "open" /\ PhaseOf(m)' = "undone" /\ By(m, lessonRows)' = {}
<1>0. msgOf' = msgOf /\ Sole(m)'
  BY OwnRows DEF Sole
<1>1. CASE media[m].rolledBack
  <2>1. media'[m].rolledBack
    <3>1. CASE MarkRolledBack(j)
      BY <3>1 DEF MarkRolledBack, TypeInv, TablesOK, MediaRow
    <3>2. CASE ~MarkRolledBack(j)
      BY <1>1, <3>2, FlagKept
    <3> QED BY <3>1, <3>2
  <2>2. PhaseOf(m) = "undone" /\ PhaseOf(m)' = "undone"
    BY <1>0, <1>1, <2>1 DEF PhaseOf
  <2>3. By(m, lessonRows) = {} /\ By(m, lessonRows)' = {}
    BY <1>1, <2>1 DEF RolledBackLeavesNothing
  <2> QED BY <2>2, <2>3
<1>2. CASE ~media[m].rolledBack /\ Told(m)
  <2>1. UNCHANGED <<media, lessonRows, heard, lost>>
    BY <1>2, NoStall, ToldIsOver
  <2> QED BY <1>0, <2>1 DEF PhaseOf, Told, By
<1>3. CASE ~media[m].rolledBack /\ ~Told(m)
  <2>1. PhaseOf(m) = "open"
    BY <1>3 DEF PhaseOf
  <2>2. CASE media'[m].rolledBack
    <3>1. PhaseOf(m)' = "undone"
      BY <1>0, <2>2 DEF PhaseOf
    <3>2. By(m, lessonRows)' = {}
      BY <2>2 DEF RolledBackLeavesNothing
    <3> QED BY <2>1, <3>1, <3>2
  <2>3. CASE ~media'[m].rolledBack /\ Told(m)'
    <3>1. UNCHANGED lessonRows
      BY <1>0, <1>3, <2>3, BecomesTold
    <3>2. PhaseOf(m)' = "told"
      BY <1>0, <2>3 DEF PhaseOf
    <3> QED BY <2>1, <3>1, <3>2 DEF By
  <2>4. CASE ~media'[m].rolledBack /\ ~Told(m)'
    <3>1. PhaseOf(m)' = "open"
      BY <1>0, <2>4 DEF PhaseOf
    <3> QED BY <2>1, <3>1
  <2> QED BY <2>2, <2>3, <2>4
<1> QED BY <1>1, <1>2, <1>3

\* Nor does a job's step touch the phase or the lesson rows of another message.
LEMMA PromiseOthers ==
  ASSUME TypeInv, NEW j \in Jobs, Arrive(j) \/ Step(j),
         NEW m \in Msgs, m # msgOf[j] \/ ~Sole(m)
  PROVE  PhaseOf(m)' = PhaseOf(m) /\ ((m \in Writes)' <=> m \in Writes)
<1>0. msgOf' = msgOf /\ (Sole(m)' <=> Sole(m))
  BY OwnRows DEF Sole
<1>1. CASE ~Sole(m)
  BY <1>0, <1>1 DEF PhaseOf, Writes
<1>2. CASE m # msgOf[j]
  <2>1. media'[m] = media[m] /\ (Told(m)' <=> Told(m))
    BY <1>2, OwnRows, OwnTelling
  <2>2. By(m, lessonRows)' = By(m, lessonRows)
    BY <1>2, OwnRows DEF By
  <2>3. PhaseOf(m)' = PhaseOf(m)
    BY <1>0, <2>1 DEF PhaseOf
  <2> QED BY <1>0, <2>2, <2>3 DEF Writes
<1> QED BY <1>1, <1>2

\* Every step of the worker is a step of the promise, or none.
LEMMA PromiseStep ==
  ASSUME MaxStalls = 0, TypeInv, DeliveredInv, ToldInv, RolledBackLeavesNothing,
         RolledBackLeavesNothing', [Next]_vars
  PROVE  PromiseMoves
<1>1. ASSUME NEW j \in Jobs, Arrive(j) \/ Step(j) PROVE PromiseMoves
  <2>1. PICK n \in Msgs : n = msgOf[j]
    BY DEF TypeInv, ControlOK
  <2>2. \A m \in Msgs \ {n} :
          PhaseOf(m)' = PhaseOf(m) /\ ((m \in Writes)' <=> m \in Writes)
    BY <1>1, <2>1, PromiseOthers
  <2>3. Writes \subseteq Msgs /\ Writes' \subseteq Msgs
    BY DEF Writes
  <2>4. CASE ~Sole(n)
    <3>1. PhaseOf(n)' = PhaseOf(n) /\ ((n \in Writes)' <=> n \in Writes)
      BY <1>1, <2>4, PromiseOthers
    <3>2. Writes' = Writes
      BY <2>2, <2>3, <3>1
    <3>3. Phases' = Phases
      BY <2>2, <3>1 DEF Phases
    <3> QED BY <3>2, <3>3 DEF PromiseMoves
  <2>5. CASE Sole(n)
    <3>0. Sole(n)'
      BY <1>1, <2>5, OwnRows DEF Sole
    <3>1. n \in Writes <=> By(n, lessonRows) # {}
      BY <2>5 DEF Writes
    <3>2. n \in Writes' <=> By(n, lessonRows)' # {}
      BY <3>0 DEF Writes
    <3>3. CASE PhaseOf(n)' = PhaseOf(n) /\ By(n, lessonRows)' = By(n, lessonRows)
      <4>1. Writes' = Writes
        BY <2>2, <2>3, <3>1, <3>2, <3>3
      <4>2. Phases' = Phases
        BY <2>2, <3>3 DEF Phases
      <4> QED BY <4>1, <4>2 DEF PromiseMoves
    <3>4. CASE PhaseOf(n) = "open" /\ PhaseOf(n)' = "open"
      <4>1. Writes' = Writes \cup {n} \/ Writes' = Writes \ {n}
        BY <2>2, <2>3
      <4>2. Phases' = Phases /\ Phases[n] = "open"
        BY <2>2, <3>4 DEF Phases
      <4> QED BY <4>1, <4>2 DEF PromiseMoves
    <3>5. CASE /\ PhaseOf(n) = "open" /\ PhaseOf(n)' = "told"
               /\ By(n, lessonRows)' = By(n, lessonRows)
      <4>1. Writes' = Writes
        BY <2>2, <2>3, <3>1, <3>2, <3>5
      <4>2. Phases' = [Phases EXCEPT ![n] = "told"] /\ Phases[n] = "open"
        BY <2>2, <3>5 DEF Phases
      <4> QED BY <4>1, <4>2 DEF PromiseMoves
    <3>6. CASE PhaseOf(n) = "open" /\ PhaseOf(n)' = "undone" /\ By(n, lessonRows)' = {}
      <4>1. Writes' = Writes \ {n}
        BY <2>2, <2>3, <3>2, <3>6
      <4>2. Phases' = [Phases EXCEPT ![n] = "undone"] /\ Phases[n] = "open"
        BY <2>2, <3>6 DEF Phases
      <4> QED BY <4>1, <4>2 DEF PromiseMoves
    <3> QED BY <1>1, <2>1, <2>5, <3>3, <3>4, <3>5, <3>6, PromiseSelf
  <2> QED BY <2>4, <2>5
<1>2. ASSUME NEW n \in Msgs, Expire(n) PROVE PromiseMoves
  <2>1. UNCHANGED <<msgOf, heard, lost, media, lessonRows>>
    BY <1>2 DEF Expire, jobVars, lesson
  <2> QED BY <2>1 DEF PromiseMoves, Phases, PhaseOf, Told, Writes, Sole, By
<1>3. CASE UNCHANGED vars
  BY <1>3 DEF vars, PromiseMoves, Phases, PhaseOf, Told, Writes, Sole, By
<1>4. ASSUME Next PROVE PromiseMoves
  <2>1. \A j \in Jobs : ~Stall(j)
    BY NoStall
  <2> QED BY <1>1, <1>2, <1>4, <2>1 DEF Next
<1> QED BY <1>3, <1>4

\* As long as no worker dies, the worker keeps the promise of TurnPromise: any number
\* of jobs interleaved at every await, failed attempts, closed windows and lost
\* responses included, a voice note is told or undone, for good.
THEOREM PromiseIsKept == ASSUME MaxStalls = 0 PROVE Spec => KeepsThePromise
<1>1. Init => Promise!Init
  BY JobsAssumption DEF Init, Promise!Init, PhaseOf, Told, By, Sole, NewMedia
<1>2. Init => ToldInv
  BY ToldInit
<1>3. /\ TypeInv /\ DeliveredInv /\ ToldInv /\ [Next]_vars
      /\ RolledBackLeavesNothing /\ RolledBackLeavesNothing'
      => [Promise!Next]_Promise!promise
  BY PromiseStep DEF PromiseMoves, Phases, Writes, Promise!Next, Promise!promise, Promise!Write,
     Promise!Retract, Promise!Tell, Promise!Undo, Promise!Becomes
<1>4. TypeInv /\ DeliveredInv /\ ToldInv /\ [Next]_vars => ToldInv'
  BY ToldStep
<1>5. Init => DeliveredInv
  BY DeliveredInit
<1>6. TypeInv /\ DeliveredInv /\ [Next]_vars => DeliveredInv'
  BY DeliveredStep
<1> QED BY TypeInit, TypeStep, RolledBackStaysClean, <1>1, <1>2, <1>3, <1>4, <1>5, <1>6,
           PTL DEF Spec, KeepsThePromise, Promise!Spec
-----------------------------------------------------------------------------
(* The fork.  A second window opens only when the first is closed, and a   *)
(* parent who was told the first turn's reply has its rows in the table by *)
(* then: what is read in the second turn is those rows or later ones.      *)

\* A row is younger than the row it answers, and so is one about to be inserted.
RowsInOrder ==
  /\ \A r \in lessonRows : r.at <= seq /\ r.from < r.at
  /\ \A j \in Jobs : pc[j] = "lessonInsert" => loc[j].row.from <= seq

\* wabot never keeps two of the user's windows open.
OneOpen == \A m, n \in Msgs : window[m] = "open" /\ window[n] = "open" => m = n

\* A message without a window has done nothing yet.
Untouched ==
  \A m \in Msgs : window[m] = "none" =>
    /\ By(m, lessonRows) = {}
    /\ \A j \in Jobs : msgOf[j] = m => pc[j] = "waiting"

\* What n answers, or is about to, is not older than any row of m.
AnswersAfter(n, m) ==
  \A r \in By(m, lessonRows) :
    /\ \A s \in By(n, lessonRows) : s.kind = "answer" => r.at <= s.from
    /\ \A k \in Jobs :
         msgOf[k] = n /\ pc[k] = "lessonInsert" /\ loc[k].row.kind = "answer"
           => r.at <= loc[k].row.from

HeardFirst ==
  \A m, n \in Msgs :
    m # n /\ Single(m) /\ Told(m) /\ window[n] = "open" => AnswersAfter(n, m)

ForkInv == RowsInOrder /\ OneOpen /\ Untouched /\ HeardFirst

\* A lesson row is inserted as the job read it, and a job about to insert one has
\* just read the newest.
LEMMA LessonMoves ==
  ASSUME TypeInv, NEW j \in Jobs, Arrive(j) \/ Stall(j) \/ Step(j)
  PROVE  /\ \A s \in lessonRows' :
              \/ s \in lessonRows
              \/ /\ pc[j] = "lessonInsert" /\ seq' = seq + 1
                 /\ s.by = msgOf[j] /\ s.at = seq + 1
                 /\ s.kind = loc[j].row.kind /\ s.from = loc[j].row.from
         /\ pc'[j] = "lessonInsert" =>
              /\ lessonRows' = lessonRows /\ seq' = seq
              /\ \/ loc'[j].row.kind = "fresh" /\ loc'[j].row.from = 0
                 \/ \E r \in lessonRows :
                      Newest(r, lessonRows) /\ loc'[j].row.from = r.at
         /\ seq' \in {seq, seq + 1}
<1> USE DEF TypeInv, ControlOK
<1>1. CASE InsertLesson(j)
  <2>1. /\ lessonRows' = lessonRows \cup
             {[at |-> seq + 1, by |-> msgOf[j], kind |-> loc[j].row.kind,
               from |-> loc[j].row.from, done |-> loc[j].row.done]}
        /\ pc[j] = "lessonInsert" /\ seq' = seq + 1
        /\ pc'[j] \in {"grade", "send"}
    BY <1>1 DEF InsertLesson, Goto
  <2> QED BY <2>1
<1>2. CASE ReadLesson(j)
  <2>1. lessonRows' = lessonRows /\ seq' = seq
    BY <1>2 DEF ReadLesson, lesson
  <2>2. CASE loc' = [loc EXCEPT ![j].row = [NoRow EXCEPT !.kind = "fresh"]]
    <3>1. loc'[j].row.kind = "fresh" /\ loc'[j].row.from = 0
      BY <2>2 DEF Locals, NoRow
    <3> QED BY <2>1, <3>1
  <2>3. ASSUME NEW r \in lessonRows, NEW done \in BOOLEAN, Newest(r, lessonRows),
               loc' = [loc EXCEPT ![j].row =
                         [kind |-> "answer", from |-> r.at, done |-> done]]
        PROVE  \E o \in lessonRows :
                 Newest(o, lessonRows) /\ loc'[j].row.from = o.at
    BY <2>3 DEF Locals
  <2> QED BY <1>2, <2>1, <2>2, <2>3 DEF ReadLesson
<1>3. CASE ~InsertLesson(j) /\ ~ReadLesson(j)
  <2>1. lessonRows' \subseteq lessonRows
    BY <1>3 DEF Arrive, Stall, Step, Find, FindInDatabase,
       FillCache, SkipStale, CreateMedia, ReuseMedia, FetchAudio, CleanOnboarding,
       UndoOnboarding, RollbackOnboarding, StartOnboarding, ClassifyReply, AlreadyDone,
       CommitOnboarding, EvictUser, CleanupPartialState, Grade, SendMessage,
       RecordSent, MarkRolledBack, Fail, TranscriptionFails, ResponseLost, EndAttempt,
       lesson, Swept, Without
  <2>2. seq' \in {seq, seq + 1}
    BY <1>3 DEF Arrive, Stall, Step, Find, FindInDatabase,
       FillCache, SkipStale, CreateMedia, ReuseMedia, FetchAudio, CleanOnboarding,
       UndoOnboarding, RollbackOnboarding, StartOnboarding, ClassifyReply, AlreadyDone,
       CommitOnboarding, EvictUser, CleanupPartialState, Grade, SendMessage,
       RecordSent, MarkRolledBack, Fail, TranscriptionFails, ResponseLost, EndAttempt
  <2>3. pc'[j] # "lessonInsert"
    BY <1>3 DEF Arrive, Stall, Step, Find, FindInDatabase,
       FillCache, SkipStale, CreateMedia, ReuseMedia, FetchAudio, CleanOnboarding,
       UndoOnboarding, RollbackOnboarding, StartOnboarding, ClassifyReply, AlreadyDone,
       CommitOnboarding, EvictUser, CleanupPartialState, Grade, SendMessage,
       RecordSent, MarkRolledBack, Fail, TranscriptionFails, ResponseLost, EndAttempt,
       StartOfTurn, AfterRecord, Goto
  <2> QED BY <2>1, <2>2, <2>3
<1> QED BY <1>1, <1>2, <1>3

\* A window opens when a message arrives while no other is open, and one that was
\* opened, or skipped, stays so.
LEMMA WindowMoves ==
  ASSUME TypeInv, NEW j \in Jobs, Arrive(j) \/ Stall(j) \/ Step(j), NEW m \in Msgs
  PROVE  /\ window'[m] = "open" =>
              \/ window[m] = "open"
              \/ /\ window[m] = "none" /\ m = msgOf[j] /\ Arrive(j)
                 /\ \A o \in Msgs : window[o] # "open"
         /\ window'[m] = "none" => window[m] = "none" /\ ~(Arrive(j) /\ m = msgOf[j])
<1> USE DEF TypeInv, ControlOK, WabotOK
<1>1. CASE Arrive(j)
  BY <1>1 DEF Arrive
<1>2. CASE ~Arrive(j)
  <2>1. window' = window \/ window' = [window EXCEPT ![msgOf[j]] = "answered"]
    BY <1>2 DEF Stall, Step, Find, FindInDatabase,
       FillCache, SkipStale, CreateMedia, ReuseMedia, FetchAudio, CleanOnboarding,
       UndoOnboarding, RollbackOnboarding, StartOnboarding, ClassifyReply, AlreadyDone,
       CommitOnboarding, EvictUser, CleanupPartialState, ReadLesson, InsertLesson,
       Grade, SendMessage, RecordSent, MarkRolledBack, Fail, TranscriptionFails,
       ResponseLost, wabot
  <2> QED BY <1>2, <2>1
<1> QED BY <1>1, <1>2

\* A waiting job can only arrive.
LEMMA WaitsToArrive ==
  ASSUME NEW j \in Jobs, Stall(j) \/ Step(j)
  PROVE  pc[j] # "waiting"
BY DEF Stall, Step, Active, Find, FindInDatabase,
   FillCache, SkipStale, CreateMedia, ReuseMedia, FetchAudio, CleanOnboarding,
   UndoOnboarding, StartOnboarding, ClassifyReply, AlreadyDone,
   CommitOnboarding, EvictUser, CleanupPartialState, ReadLesson, InsertLesson,
   Grade, SendMessage, RecordSent, MarkRolledBack, Fail, TranscriptionFails,
   ResponseLost

\* Rows stay in order.
LEMMA OrderStep ==
  ASSUME TypeInv, RowsInOrder, NEW j \in Jobs, Arrive(j) \/ Stall(j) \/ Step(j)
  PROVE  RowsInOrder'
<1>1. seq \in Nat /\ lessonRows \subseteq LessonRow /\ loc \in [Jobs -> Locals]
  BY DEF TypeInv, TablesOK
<1>2. seq' \in {seq, seq + 1}
  BY LessonMoves
<1>3. ASSUME NEW r \in lessonRows' PROVE r.at <= seq' /\ r.from < r.at
  <2>1. CASE r \in lessonRows
    <3>1. r.at \in Nat /\ r.at <= seq /\ r.from < r.at
      BY <1>1, <2>1 DEF RowsInOrder, LessonRow
    <3> QED BY <1>1, <1>2, <3>1
  <2>2. CASE r \notin lessonRows
    <3>1. pc[j] = "lessonInsert" /\ seq' = seq + 1 /\ r.at = seq + 1
            /\ r.from = loc[j].row.from
      BY <2>2, LessonMoves
    <3>2. loc[j].row.from \in Nat /\ loc[j].row.from <= seq
      BY <1>1, <3>1 DEF RowsInOrder, Locals
    <3> QED BY <1>1, <3>1, <3>2
  <2> QED BY <2>1, <2>2
<1>4. ASSUME NEW k \in Jobs, pc'[k] = "lessonInsert" PROVE loc'[k].row.from <= seq'
  <2>1. CASE k # j
    <3>1. loc'[k] = loc[k] /\ pc[k] = "lessonInsert"
      BY <1>4, <2>1, OtherJobs
    <3>2. loc[k].row.from \in Nat /\ loc[k].row.from <= seq
      BY <1>1, <3>1 DEF RowsInOrder, Locals
    <3> QED BY <1>1, <1>2, <3>1, <3>2
  <2>2. CASE k = j
    <3>1. seq' = seq
      BY <1>4, <2>2, LessonMoves
    <3>2. loc'[j].row.from = 0 \/ \E r \in lessonRows : loc'[j].row.from = r.at
      BY <1>4, <2>2, LessonMoves
    <3> QED BY <1>1, <2>2, <3>1, <3>2 DEF RowsInOrder
  <2> QED BY <2>1, <2>2
<1> QED BY <1>3, <1>4 DEF RowsInOrder

\* Windows stay one at a time.
LEMMA OneOpenStep ==
  ASSUME TypeInv, OneOpen, NEW j \in Jobs, Arrive(j) \/ Stall(j) \/ Step(j)
  PROVE  OneOpen'
<1> SUFFICES ASSUME NEW m \in Msgs, NEW n \in Msgs,
                    window'[m] = "open", window'[n] = "open"
             PROVE  m = n
  BY DEF OneOpen
<1> QED BY WindowMoves DEF OneOpen

\* A message without a window still has done nothing.
LEMMA UntouchedStep ==
  ASSUME TypeInv, Untouched, NEW j \in Jobs, Arrive(j) \/ Stall(j) \/ Step(j)
  PROVE  Untouched'
<1> SUFFICES ASSUME NEW m \in Msgs, window'[m] = "none"
             PROVE  /\ By(m, lessonRows)' = {}
                    /\ \A k \in Jobs : msgOf'[k] = m => pc'[k] = "waiting"
  BY DEF Untouched
<1>1. window[m] = "none" /\ ~(Arrive(j) /\ m = msgOf[j])
  BY WindowMoves
<1>2. m # msgOf[j]
  BY <1>1, WaitsToArrive DEF Untouched
<1>3. msgOf' = msgOf /\ \A r : r.by = m => (r \in lessonRows' <=> r \in lessonRows)
  BY <1>2, OwnRows
<1>4. By(m, lessonRows)' = {}
  BY <1>1, <1>3 DEF Untouched, By
<1>5. \A k \in Jobs : msgOf'[k] = m => pc'[k] = "waiting"
  BY <1>1, <1>2, <1>3, OtherJobs DEF Untouched
<1> QED BY <1>4, <1>5

\* What n answers while it goes on is never older than the rows m already has.
LEMMA AfterKept ==
  ASSUME TypeInv, NEW j \in Jobs, Arrive(j) \/ Stall(j) \/ Step(j),
         NEW m \in Msgs, NEW n \in Msgs, m # msgOf[j], AnswersAfter(n, m)
  PROVE  AnswersAfter(n, m)'
<1> SUFFICES ASSUME NEW r \in By(m, lessonRows)'
             PROVE  /\ \A s \in By(n, lessonRows)' : s.kind = "answer" => r.at <= s.from
                    /\ \A k \in Jobs :
                         /\ msgOf'[k] = n /\ pc'[k] = "lessonInsert"
                         /\ loc'[k].row.kind = "answer"
                         => r.at <= loc'[k].row.from
  BY DEF AnswersAfter
<1>1. msgOf' = msgOf
  BY OwnRows
<1>2. r \in lessonRows /\ r \in By(m, lessonRows)
  BY OwnRows DEF By
<1>3. ASSUME NEW s \in By(n, lessonRows)', s.kind = "answer" PROVE r.at <= s.from
  <2>1. s \in lessonRows' /\ s.by = n
    BY DEF By
  <2>2. CASE s \in lessonRows
    BY <1>2, <1>3, <2>1, <2>2 DEF AnswersAfter, By
  <2>3. CASE s \notin lessonRows
    <3>1. /\ pc[j] = "lessonInsert" /\ s.by = msgOf[j]
          /\ s.kind = loc[j].row.kind /\ s.from = loc[j].row.from
      BY <2>1, <2>3, LessonMoves
    <3> QED BY <1>2, <1>3, <2>1, <3>1 DEF AnswersAfter
  <2> QED BY <2>2, <2>3
<1>4. ASSUME NEW k \in Jobs, msgOf'[k] = n, pc'[k] = "lessonInsert",
             loc'[k].row.kind = "answer"
      PROVE  r.at <= loc'[k].row.from
  <2>1. CASE k # j
    BY <1>1, <1>2, <1>4, <2>1, OtherJobs DEF AnswersAfter
  <2>2. CASE k = j
    <3>1. PICK o \in lessonRows : Newest(o, lessonRows) /\ loc'[k].row.from = o.at
      BY <1>4, <2>2, LessonMoves
    <3> QED BY <1>2, <3>1 DEF Newest
  <2> QED BY <2>1, <2>2
<1> QED BY <1>3, <1>4

\* A single message is told by a step of its own job, which is not a stall.
LEMMA ToldByItsOwn ==
  ASSUME TypeInv, NEW j \in Jobs, Arrive(j) \/ Stall(j) \/ Step(j),
         NEW m \in Msgs, Single(m)', Told(m)', ~Told(m)
  PROVE  m = msgOf[j] /\ (Arrive(j) \/ Step(j))
<1>1. CASE Stall(j)
  BY <1>1 DEF Stall, Told, wabot
<1>2. CASE Arrive(j) \/ Step(j)
  BY <1>2, OwnTelling
<1> QED BY <1>1, <1>2

\* A stalled message is not single any more.
LEMMA StallEnds ==
  ASSUME TypeInv, NEW j \in Jobs, Stall(j)
  PROVE  ~Single(msgOf[j])'
BY DEF Stall, Single, TypeInv, ControlOK

\* Whatever is told before a window opens comes before what is answered in it.
LEMMA HeardFirstStep ==
  ASSUME TypeInv, DeliveredInv, ToldInv, ForkInv,
         NEW j \in Jobs, Arrive(j) \/ Stall(j) \/ Step(j), [Next]_vars
  PROVE  HeardFirst'
<1> SUFFICES ASSUME NEW m \in Msgs, NEW n \in Msgs, m # n,
                    Single(m)', Told(m)', window'[n] = "open"
             PROVE  AnswersAfter(n, m)'
  BY DEF HeardFirst
<1>0. msgOf' = msgOf /\ Single(m)
  BY OwnRows, SingleBefore
<1>1. CASE m = msgOf[j]
  <2>1. Arrive(j) \/ Step(j)
    BY <1>0, <1>1, StallEnds
  <2>2. window[n] = "open"
    BY <1>1, OwnWindow
  <2>3. Told(m)
    <3> SUFFICES ASSUME ~Told(m) PROVE FALSE
      OBVIOUS
    <3>1. window[m] = "open"
      BY <1>0, <1>1, <2>1, BecomesTold
    <3> QED BY <2>2, <3>1 DEF ForkInv, OneOpen
  <2>4. loc' = loc /\ lessonRows' = lessonRows
    BY <1>0, <1>1, <2>1, <2>3, ToldIsOver
  <2>5. AnswersAfter(n, m)
    BY <1>0, <2>2, <2>3 DEF ForkInv, HeardFirst
  <2>6. \A k \in Jobs : msgOf[k] = n => pc'[k] = pc[k]
    BY <1>1, OtherJobs
  <2> QED BY <1>0, <2>4, <2>5, <2>6 DEF AnswersAfter, By
<1>2. CASE m # msgOf[j]
  <2>1. Told(m)
    BY <1>2, ToldByItsOwn
  <2>2. CASE window[n] = "open"
    BY <1>0, <1>2, <2>1, <2>2, AfterKept DEF ForkInv, HeardFirst
  <2>3. CASE window[n] # "open"
    <3>1. window[n] = "none" /\ n = msgOf[j] /\ Arrive(j)
      BY <2>3, WindowMoves
    <3>2. By(n, lessonRows) = {} /\ \A k \in Jobs : msgOf[k] = n => pc[k] = "waiting"
      BY <3>1 DEF ForkInv, Untouched
    <3>3. lessonRows' = lessonRows
      BY <3>1 DEF Arrive, lesson
    <3>4. \A k \in Jobs : msgOf[k] = n => pc'[k] # "lessonInsert"
      BY <3>1, <3>2 DEF Arrive, TypeInv, ControlOK
    <3> QED BY <1>0, <3>2, <3>3, <3>4 DEF AnswersAfter, By
  <2> QED BY <2>2, <2>3
<1> QED BY <1>1, <1>2

\* The strengthening is preserved, by jobs and by windows that expire.
LEMMA ForkStep ==
  TypeInv /\ DeliveredInv /\ ToldInv /\ ForkInv /\ [Next]_vars => ForkInv'
<1> SUFFICES ASSUME TypeInv, DeliveredInv, ToldInv, ForkInv, [Next]_vars
             PROVE  ForkInv'
  OBVIOUS
<1>1. ASSUME NEW j \in Jobs, Arrive(j) \/ Step(j) \/ Stall(j) PROVE ForkInv'
  BY <1>1, OrderStep, OneOpenStep, UntouchedStep, HeardFirstStep DEF ForkInv
<1>2. ASSUME NEW o \in Msgs, Expire(o) PROVE ForkInv'
  <2>1. UNCHANGED <<msgOf, stalls, pc, loc, heard, lost, lessonRows, seq>>
    BY <1>2 DEF Expire, jobVars, lesson
  <2>2. \A m \in Msgs : /\ window'[m] = "open" => window[m] = "open"
                        /\ window'[m] = "none" => window[m] = "none"
    BY <1>2 DEF Expire, TypeInv, WabotOK
  <2>3. RowsInOrder'
    BY <2>1 DEF ForkInv, RowsInOrder
  <2>4. OneOpen' /\ Untouched'
    BY <2>1, <2>2 DEF ForkInv, OneOpen, Untouched, By
  <2>5. HeardFirst'
    BY <2>1, <2>2 DEF ForkInv, HeardFirst, AnswersAfter, By, Single, Sole, Told
  <2> QED BY <2>3, <2>4, <2>5 DEF ForkInv
<1>3. CASE UNCHANGED vars
  BY <1>3 DEF vars, ForkInv, RowsInOrder, OneOpen, Untouched, HeardFirst,
     AnswersAfter, By, Single, Sole, Told
<1> QED BY <1>1, <1>2, <1>3 DEF Next

\* It holds at the beginning, when every window is still closed.
LEMMA ForkInit == Init => ForkInv
<1> SUFFICES ASSUME Init PROVE ForkInv
  OBVIOUS
<1>1. RowsInOrder
  BY DEF Init, RowsInOrder
<1>2. OneOpen /\ HeardFirst
  BY DEF Init, OneOpen, HeardFirst
<1>3. Untouched
  BY JobsAssumption DEF Init, Untouched, By
<1> QED BY <1>1, <1>2, <1>3 DEF ForkInv

\* A turn told second answers a later row than any row of the turn told first does.
LEMMA ToldSecond ==
  ASSUME TypeInv, ForkInv, NEW j \in Jobs, Arrive(j) \/ Step(j),
         NEW m \in Msgs, NEW n \in Msgs, m # n, n = msgOf[j],
         Single(m), Told(m), ~Told(n), Told(n)',
         NEW r \in lessonRows', NEW s \in lessonRows', r.by = m, s.by = n,
         s.kind = "answer"
  PROVE  r.from # s.from
<1>0. msgOf' = msgOf
  BY OwnRows
<1>1. window[n] = "open" /\ lessonRows' = lessonRows
  BY <1>0, BecomesTold
<1>2. AnswersAfter(n, m)
  BY <1>1 DEF ForkInv, HeardFirst
<1>3. r.at <= s.from
  BY <1>1, <1>2 DEF AnswersAfter, By
<1>4. r.from < r.at
  BY <1>1 DEF ForkInv, RowsInOrder
<1>5. r.at \in Nat /\ r.from \in Nat /\ s.from \in Nat
  BY <1>1 DEF TypeInv, TablesOK, LessonRow
<1> QED BY <1>3, <1>4, <1>5

\* No step makes the parent hear both branches of a fork.
LEMMA NoForkStep ==
  TypeInv /\ DeliveredInv /\ ToldInv /\ ForkInv /\ TypeInv' /\ NoForkIsHeard
    /\ [Next]_vars => NoForkIsHeard'
<1> SUFFICES ASSUME TypeInv, DeliveredInv, ToldInv, ForkInv, TypeInv', NoForkIsHeard,
                    [Next]_vars,
                    NEW r \in lessonRows', NEW s \in lessonRows',
                    r.kind = "answer", s.kind = "answer",
                    r.from = s.from, r.by # s.by,
                    Single(r.by)', Single(s.by)', Told(r.by)', Told(s.by)'
             PROVE  FALSE
  BY DEF NoForkIsHeard, Told
<1>1. PICK m \in Msgs : m = r.by
  BY DEF Single, Sole, TypeInv, ControlOK
<1>2. PICK n \in Msgs : n = s.by
  BY DEF Single, Sole, TypeInv, ControlOK
<1>3. /\ Single(m)' /\ Single(n)' /\ Told(m)' /\ Told(n)'
      /\ Single(m) /\ Single(n)
  BY <1>1, <1>2, SingleBefore
<1>4. Told(m) /\ Told(n) /\ r \in lessonRows /\ s \in lessonRows => FALSE
  BY <1>1, <1>2, <1>3 DEF NoForkIsHeard, Told
<1>5. ASSUME NEW j \in Jobs, Arrive(j) \/ Step(j) \/ Stall(j) PROVE FALSE
  <2>0. msgOf' = msgOf
    BY <1>5, OwnRows
  <2>1. Told(m) \/ (m = msgOf[j] /\ (Arrive(j) \/ Step(j)))
    BY <1>3, <1>5, ToldByItsOwn
  <2>2. Told(n) \/ (n = msgOf[j] /\ (Arrive(j) \/ Step(j)))
    BY <1>3, <1>5, ToldByItsOwn
  <2>3. CASE ~Told(m)
    BY <1>1, <1>2, <1>3, <2>1, <2>2, <2>3, ToldSecond
  <2>4. CASE ~Told(n)
    BY <1>1, <1>2, <1>3, <2>1, <2>2, <2>4, ToldSecond
  <2>5. CASE Told(m) /\ Told(n)
    <3>1. r \in lessonRows
      <4>1. CASE m = msgOf[j]
        BY <1>3, <1>5, <2>0, <2>5, <4>1, StallEnds, ToldIsOver
      <4>2. CASE m # msgOf[j]
        BY <1>1, <1>5, <4>2, OwnRows
      <4> QED BY <4>1, <4>2
    <3>2. s \in lessonRows
      <4>1. CASE n = msgOf[j]
        BY <1>3, <1>5, <2>0, <2>5, <4>1, StallEnds, ToldIsOver
      <4>2. CASE n # msgOf[j]
        BY <1>2, <1>5, <4>2, OwnRows
      <4> QED BY <4>1, <4>2
    <3> QED BY <1>4, <2>5, <3>1, <3>2
  <2> QED BY <2>3, <2>4, <2>5
<1>6. ASSUME NEW o \in Msgs, Expire(o) PROVE FALSE
  BY <1>3, <1>4, <1>6 DEF Expire, Told, lesson
<1>7. CASE UNCHANGED vars
  BY <1>3, <1>4, <1>7 DEF vars, Told
<1> QED BY <1>5, <1>6, <1>7 DEF Next

\* Of two voice notes that answered the same prompt, the parent heard the reply of
\* at most one.
THEOREM NoForkHeard == Spec => []NoForkIsHeard
<1>1. Init => NoForkIsHeard
  BY DEF Init, NoForkIsHeard
<1> QED BY TypeInit, TypeStep, DeliveredInit, DeliveredStep, ToldInit, ToldStep,
       ForkInit, ForkStep, NoForkStep, <1>1, PTL DEF Spec

-----------------------------------------------------------------------------
(* The taps.                                                               *)

TapPlaces  == TapActive \cup {"wait", "skipped", "done", "failed"}
QuestionOrNone == Questions \cup {NoQuestion}

TapJobs ==
  [at : TapPlaces, try : Int, q : QuestionOrNone, anchor : Nat, read : QuestionOrNone,
   window : {"none", "open", "expired", "answered"}]
StepRows ==
  [kind : {"asks", "answers", "reads"}, q : QuestionOrNone, opt : QuestionOrNone,
   by : Nat, at : Nat]

TapTypes ==
  /\ tap \in [Taps -> TapJobs] /\ steps \in SUBSET StepRows
  /\ anchors \in Nat /\ shown \subseteq Nat

\* wabot waits for one reply at a time.
OneWindow == \A t, u \in Taps : tap[t].window = "open" /\ tap[u].window = "open" => t = u

\* An attempt's anchor is its own, and is new until a row refers to it.
Anchored == {"read", "insert", "chain", "send", "drop", "undo"}
AnchorsDiffer ==
  /\ \A t \in Taps : tap[t].at \in Anchored => tap[t].anchor \in 1 .. anchors
  /\ \A t, u \in Taps :
       tap[t].at \in Anchored /\ tap[u].at \in Anchored /\ t # u
         => tap[t].anchor # tap[u].anchor
  /\ \A r \in steps : r.by <= anchors
  /\ \A a \in shown : a <= anchors

\* What an attempt has in the lesson before its reply: nothing, then its answer to
\* the question that was chosen.
Attempts ==
  \A t \in Taps :
    /\ tap[t].at \in {"read", "insert", "chain", "send"} => tap[t].anchor \notin shown
    /\ tap[t].at \in {"read", "insert"} => \A r \in AnswerRows : r.by # tap[t].anchor
    /\ tap[t].at = "insert" => tap[t].read = tap[t].q
    /\ tap[t].at \in {"chain", "send"} =>
         \A r \in AnswerRows : r.by = tap[t].anchor => r.q = tap[t].read /\ r.opt = r.q

\* An attempt inserts one answer, and no question is asked again once it is answered.
OneByAnchor == \A r, s \in AnswerRows : r.by = s.by => r = s
AskedBefore ==
  \A r \in steps, s \in AnswerRows : r.kind = "asks" /\ r.q = s.q => r.at < s.at

\* The tap that wabot waits for is of a question no shown answer is to.
OpenIsNew ==
  \A t \in Taps : tap[t].window = "open" /\ tap[t].at \in {"insert", "chain", "send"} =>
    \A r \in AnswerRows : r.by \in shown => r.q # tap[t].read

TapInv ==
  /\ TapTypes /\ OneWindow /\ AnchorsDiffer /\ Attempts /\ OneByAnchor /\ AskedBefore
  /\ OpenIsNew /\ ShownAnswersFit

\* One job moves to n; the others stay.
LEMMA TapMoves ==
  ASSUME tap \in [Taps -> TapJobs], NEW t \in Taps, NEW n \in TapJobs,
         tap' = [tap EXCEPT ![t] = n]
  PROVE  /\ tap' \in [Taps -> TapJobs] /\ tap'[t] = n
         /\ \A u \in Taps : u # t => tap'[u] = tap[u]
OBVIOUS

\* What a job may become that inserts nothing and is not replied to: the rows may
\* lose some, and the job keeps its anchor and what it read, or has no use for them.
LEMMA QuietTap ==
  ASSUME TapInv, NEW t \in Taps, NEW n \in TapJobs, tap' = [tap EXCEPT ![t] = n],
         steps' \subseteq steps, anchors' = anchors, shown' = shown,
         n.window = "open" =>
           tap[t].window = "open" \/ \A u \in Taps : tap[u].window # "open",
         n.at \in Anchored => tap[t].at \in Anchored /\ n.anchor = tap[t].anchor,
         n.at \in {"read", "insert", "chain", "send"} =>
           \/ n.at = tap[t].at /\ n.read = tap[t].read /\ n.q = tap[t].q
              /\ (n.window = "open" => tap[t].window = "open")
           \/ /\ n.at = "insert" /\ tap[t].at = "read" /\ n.read = n.q
              /\ \A r \in AnswerRows : r.q # n.read
  PROVE  TapInv'
<1>1. /\ tap' \in [Taps -> TapJobs] /\ tap'[t] = n
      /\ \A u \in Taps : u # t => tap'[u] = tap[u]
  BY TapMoves DEF TapInv, TapTypes
<1>2. TapTypes'
  BY <1>1 DEF TapInv, TapTypes
<1>3. OneWindow'
  BY <1>1 DEF TapInv, OneWindow
<1>4. AnchorsDiffer'
  <2>1. \A u \in Taps : tap'[u].at \in Anchored =>
          tap[u].at \in Anchored /\ tap'[u].anchor = tap[u].anchor
    BY <1>1
  <2> QED BY <2>1 DEF TapInv, AnchorsDiffer
<1>5. AnswerRows' \subseteq AnswerRows
  BY DEF AnswerRows
<1>6. Attempts'
  <2>1. \A u \in Taps : u # t => Attempts!(u)'
    BY <1>1, <1>5 DEF TapInv, Attempts
  <2>2. Attempts!(t)'
    BY <1>1, <1>5 DEF TapInv, Attempts, Anchored
  <2> QED BY <2>1, <2>2 DEF Attempts
<1>7. OneByAnchor' /\ AskedBefore'
  BY <1>5 DEF TapInv, OneByAnchor, AskedBefore
<1>8. OpenIsNew'
  BY <1>1, <1>5 DEF TapInv, OpenIsNew
<1>9. ShownAnswersFit'
  BY <1>5 DEF TapInv, ShownAnswersFit
<1> QED BY <1>2, <1>3, <1>4, <1>6, <1>7, <1>8, <1>9 DEF TapInv

\* A row that is inserted is newer than every other.
LEMMA InsertedLast ==
  ASSUME TapTypes, NEW row \in StepRows, Insert(row)
  PROVE  \E x \in StepRows :
           /\ steps' = steps \cup {x} /\ \A o \in steps : o.at < x.at
           /\ x.kind = row.kind /\ x.q = row.q /\ x.opt = row.opt /\ x.by = row.by
<1>1. PICK r \in Current : steps' = steps \cup {[row EXCEPT !.at = r.at + 1]}
  BY DEF Insert
<1> DEFINE x == [row EXCEPT !.at = r.at + 1]
<1>2. r.at \in Nat /\ \A o \in steps : o.at \in Nat /\ o.at <= r.at
  BY <1>1 DEF Current, TapTypes, StepRows
<1>3. /\ x \in StepRows /\ x.at = r.at + 1
      /\ x.kind = row.kind /\ x.q = row.q /\ x.opt = row.opt /\ x.by = row.by
  BY <1>2 DEF StepRows
<1> HIDE DEF x
<1>4. \A o \in steps : o.at < x.at
  BY <1>2, <1>3
<1> QED BY <1>1, <1>3, <1>4 DEF x

\* An answer goes after the question that was read.
LEMMA InsertAnswerInv == ASSUME TapInv, NEW t \in Taps, InsertAnswer(t) PROVE TapInv'
<1> DEFINE n == [tap[t] EXCEPT !.at = "chain"]
<1>1. /\ tap[t].at = "insert" /\ tap' = [tap EXCEPT ![t] = n]
      /\ Insert(Answers(tap[t].read, tap[t].q, tap[t].anchor))
      /\ anchors' = anchors /\ shown' = shown
  BY DEF InsertAnswer, At
<1>2. tap \in [Taps -> TapJobs] /\ tap[t] \in TapJobs /\ anchors \in Nat
  BY DEF TapInv, TapTypes
<1>3. /\ n \in TapJobs /\ n.at = "chain" /\ n.q = tap[t].q /\ n.read = tap[t].read
      /\ n.anchor = tap[t].anchor /\ n.window = tap[t].window
  BY <1>2 DEF TapJobs, TapPlaces, TapActive
<1> HIDE DEF n
<1>4. /\ tap' \in [Taps -> TapJobs] /\ tap'[t] = n
      /\ \A u \in Taps : u # t => tap'[u] = tap[u]
  BY <1>1, <1>2, <1>3, TapMoves
<1>5. Answers(tap[t].read, tap[t].q, tap[t].anchor) \in StepRows
  BY <1>2 DEF Answers, StepRows, TapJobs
<1>6. PICK x \in StepRows :
        /\ steps' = steps \cup {x} /\ \A o \in steps : o.at < x.at
        /\ x.kind = "answers" /\ x.q = tap[t].read /\ x.opt = tap[t].q
        /\ x.by = tap[t].anchor
  BY <1>1, <1>5, InsertedLast DEF TapInv, Answers
<1>7. AnswerRows' = AnswerRows \cup {x}
  BY <1>6 DEF AnswerRows
<1>8. /\ tap[t].anchor \in 1 .. anchors /\ tap[t].anchor \notin shown
      /\ tap[t].read = tap[t].q /\ \A r \in AnswerRows : r.by # tap[t].anchor
  BY <1>1 DEF TapInv, AnchorsDiffer, Attempts, Anchored
<1>9. TapTypes' /\ OneWindow'
  BY <1>1, <1>3, <1>4, <1>6 DEF TapInv, TapTypes, OneWindow
<1>10. AnchorsDiffer'
  <2>1. \A u \in Taps : tap'[u].at \in Anchored =>
          tap[u].at \in Anchored /\ tap'[u].anchor = tap[u].anchor
    BY <1>1, <1>3, <1>4 DEF Anchored
  <2> QED BY <1>1, <1>2, <1>6, <1>8, <2>1 DEF TapInv, AnchorsDiffer
<1>11. Attempts'
  <2>1. \A u \in Taps : u # t => Attempts!(u)'
    <3> SUFFICES ASSUME NEW u \in Taps, u # t PROVE Attempts!(u)'
      OBVIOUS
    <3>1. tap'[u] = tap[u]
      BY <1>4
    <3>2. tap[u].at \in Anchored => tap[u].anchor # x.by
      BY <1>1, <1>6 DEF TapInv, AnchorsDiffer, Anchored
    <3> QED BY <1>1, <1>7, <3>1, <3>2 DEF TapInv, Attempts, Anchored
  <2>2. Attempts!(t)'
    BY <1>1, <1>3, <1>4, <1>6, <1>7, <1>8
  <2> QED BY <2>1, <2>2 DEF Attempts
<1>12. OneByAnchor'
  BY <1>6, <1>7, <1>8 DEF TapInv, OneByAnchor
<1>13. AskedBefore'
  <2>1. \A r \in steps', s \in AnswerRows' : r.kind = "asks" /\ r.q = s.q => r.at < s.at
    <3> TAKE r \in steps', s \in AnswerRows'
    <3>1. CASE r \in steps /\ s \in AnswerRows
      BY <3>1 DEF TapInv, AskedBefore
    <3>2. CASE r \in steps /\ s = x
      BY <1>6, <3>2
    <3>3. CASE r = x
      BY <1>6, <3>3
    <3> QED BY <1>6, <1>7, <3>1, <3>2, <3>3
  <2> QED BY <2>1 DEF AskedBefore
<1>14. OpenIsNew'
  <2>1. \A r \in AnswerRows' : r.by \in shown => r \in AnswerRows
    BY <1>6, <1>7, <1>8
  <2>2. \A u \in Taps : u # t => OpenIsNew!(u)'
    BY <1>1, <1>4, <2>1 DEF TapInv, OpenIsNew
  <2>3. OpenIsNew!(t)'
    BY <1>1, <1>3, <1>4, <2>1 DEF TapInv, OpenIsNew
  <2> QED BY <2>2, <2>3 DEF OpenIsNew
<1>15. ShownAnswersFit'
  <2>1. \A r \in AnswerRows' : r.by \in shown => r \in AnswerRows
    BY <1>6, <1>7, <1>8
  <2> QED BY <1>1, <2>1 DEF TapInv, ShownAnswersFit
<1> QED
  BY <1>9, <1>10, <1>11, <1>12, <1>13, <1>14, <1>15 DEF TapInv

\* The next lesson asks what no row is of.
LEMMA StartNextInv == ASSUME TapInv, NEW t \in Taps, StartNext(t) PROVE TapInv'
<1> DEFINE n == [tap[t] EXCEPT !.at = "send"]
<1>1. /\ tap[t].at = "chain" /\ tap' = [tap EXCEPT ![t] = n]
      /\ \/ \E q \in Unseen : Insert(Asks(q, tap[t].anchor))
         \/ Insert(Reads(tap[t].anchor))
      /\ anchors' = anchors /\ shown' = shown
  BY DEF StartNext, At
<1>2. tap \in [Taps -> TapJobs] /\ tap[t] \in TapJobs /\ anchors \in Nat
  BY DEF TapInv, TapTypes
<1>3. /\ n \in TapJobs /\ n.at = "send" /\ n.q = tap[t].q /\ n.read = tap[t].read
      /\ n.anchor = tap[t].anchor /\ n.window = tap[t].window
  BY <1>2 DEF TapJobs, TapPlaces, TapActive
<1> HIDE DEF n
<1>4. /\ tap' \in [Taps -> TapJobs] /\ tap'[t] = n
      /\ \A u \in Taps : u # t => tap'[u] = tap[u]
  BY <1>1, <1>2, <1>3, TapMoves
<1>5. \E x \in StepRows :
        /\ steps' = steps \cup {x} /\ x.by = tap[t].anchor
        /\ x.kind \in {"asks", "reads"} /\ (x.kind = "asks" => x.q \in Unseen)
  <2>1. ASSUME NEW q \in Unseen, Insert(Asks(q, tap[t].anchor))
        PROVE  <1>5
    <3>1. Asks(q, tap[t].anchor) \in StepRows
      BY <1>2 DEF Asks, StepRows, TapJobs, Unseen, QuestionOrNone
    <3>2. /\ Asks(q, tap[t].anchor).kind = "asks" /\ Asks(q, tap[t].anchor).q = q
          /\ Asks(q, tap[t].anchor).by = tap[t].anchor
      BY DEF Asks
    <3> QED BY <2>1, <3>1, <3>2, InsertedLast DEF TapInv
  <2>2. ASSUME Insert(Reads(tap[t].anchor))
        PROVE  <1>5
    <3>1. Reads(tap[t].anchor) \in StepRows
      BY <1>2 DEF Reads, StepRows, TapJobs, QuestionOrNone
    <3>2. Reads(tap[t].anchor).kind = "reads" /\ Reads(tap[t].anchor).by = tap[t].anchor
      BY DEF Reads
    <3> QED BY <2>2, <3>1, <3>2, InsertedLast DEF TapInv
  <2> QED BY <1>1, <2>1, <2>2
<1>6. PICK x \in StepRows :
        /\ steps' = steps \cup {x} /\ x.by = tap[t].anchor
        /\ x.kind \in {"asks", "reads"} /\ (x.kind = "asks" => x.q \in Unseen)
  BY <1>5
<1>7. AnswerRows' = AnswerRows
  BY <1>6 DEF AnswerRows
<1>8. tap[t].anchor \in 1 .. anchors
  BY <1>1 DEF TapInv, AnchorsDiffer, Anchored
<1>9. TapTypes' /\ OneWindow'
  BY <1>1, <1>3, <1>4, <1>6 DEF TapInv, TapTypes, OneWindow
<1>10. AnchorsDiffer'
  <2>1. \A u \in Taps : tap'[u].at \in Anchored =>
          tap[u].at \in Anchored /\ tap'[u].anchor = tap[u].anchor
    BY <1>1, <1>3, <1>4 DEF Anchored
  <2> QED BY <1>1, <1>2, <1>6, <1>8, <2>1 DEF TapInv, AnchorsDiffer
<1>11. Attempts'
  <2>1. \A u \in Taps : u # t => Attempts!(u)'
    BY <1>1, <1>4, <1>7 DEF TapInv, Attempts
  <2>2. Attempts!(t)'
    BY <1>1, <1>3, <1>4, <1>7 DEF TapInv, Attempts
  <2> QED BY <2>1, <2>2 DEF Attempts
<1>12. OneByAnchor'
  BY <1>7 DEF TapInv, OneByAnchor
<1>13. AskedBefore'
  <2>1. x.kind = "asks" => \A s \in AnswerRows : s.q # x.q
    BY <1>6 DEF Unseen, AnswerRows
  <2> QED BY <1>6, <1>7, <2>1 DEF TapInv, AskedBefore
<1>14. OpenIsNew'
  <2>2. \A u \in Taps : u # t => OpenIsNew!(u)'
    BY <1>1, <1>4, <1>7 DEF TapInv, OpenIsNew
  <2>3. OpenIsNew!(t)'
    BY <1>1, <1>3, <1>4, <1>7 DEF TapInv, OpenIsNew
  <2> QED BY <2>2, <2>3 DEF OpenIsNew
<1>15. ShownAnswersFit'
  BY <1>1, <1>7 DEF TapInv, ShownAnswersFit
<1> QED
  BY <1>9, <1>10, <1>11, <1>12, <1>13, <1>14, <1>15 DEF TapInv

\* A new anchor has nothing in the lesson and was not shown.
LEMMA InsertAnchorInv == ASSUME TapInv, NEW t \in Taps, InsertAnchor(t) PROVE TapInv'
<1> DEFINE n == [tap[t] EXCEPT !.at = "read", !.anchor = anchors + 1]
<1>1. /\ tap[t].at = "anchor" /\ tap' = [tap EXCEPT ![t] = n]
      /\ steps' = steps /\ anchors' = anchors + 1 /\ shown' = shown
  BY DEF InsertAnchor
<1>2. tap \in [Taps -> TapJobs] /\ tap[t] \in TapJobs /\ anchors \in Nat
      /\ steps \subseteq StepRows /\ shown \subseteq Nat
  BY DEF TapInv, TapTypes
<1>3. /\ n \in TapJobs /\ n.at = "read" /\ n.anchor = anchors + 1
      /\ n.window = tap[t].window
  <2>1. "read" \in TapPlaces /\ anchors + 1 \in Nat
    BY <1>2 DEF TapPlaces, TapActive
  <2> QED BY <1>2, <2>1 DEF TapJobs
<1> HIDE DEF n
<1>4. /\ tap' \in [Taps -> TapJobs] /\ tap'[t] = n
      /\ \A u \in Taps : u # t => tap'[u] = tap[u]
  BY <1>1, <1>2, <1>3, TapMoves
<1>5. AnswerRows' = AnswerRows /\ AnswerRows \subseteq StepRows
  BY <1>1, <1>2 DEF AnswerRows
<1>6. TapTypes' /\ OneWindow'
  BY <1>1, <1>2, <1>3, <1>4 DEF TapInv, TapTypes, OneWindow
<1>7. /\ \A r \in steps : r.by \in Nat /\ r.by < anchors + 1
      /\ \A a \in shown : a \in Nat /\ a < anchors + 1
      /\ \A u \in Taps : tap[u].at \in Anchored =>
           tap[u].anchor \in 1 .. anchors /\ tap[u].anchor < anchors + 1
  BY <1>2 DEF TapInv, AnchorsDiffer, StepRows
<1>8. AnchorsDiffer'
  <2>1. \A u \in Taps : tap'[u].at \in Anchored => tap'[u].anchor \in 1 .. anchors'
    BY <1>1, <1>2, <1>3, <1>4, <1>7
  <2>2. \A u, v \in Taps : tap'[u].at \in Anchored /\ tap'[v].at \in Anchored /\ u # v
          => tap'[u].anchor # tap'[v].anchor
    <3> TAKE u, v \in Taps
    <3>1. CASE u # t /\ v # t
      BY <1>4, <3>1 DEF TapInv, AnchorsDiffer
    <3>2. CASE u = t /\ v # t
      BY <1>2, <1>3, <1>4, <1>7, <3>2
    <3>3. CASE u # t /\ v = t
      BY <1>2, <1>3, <1>4, <1>7, <3>3
    <3> QED BY <3>1, <3>2, <3>3
  <2>3. (\A r \in steps' : r.by <= anchors') /\ (\A a \in shown' : a <= anchors')
    BY <1>1, <1>2, <1>7
  <2> QED BY <2>1, <2>2, <2>3 DEF AnchorsDiffer
<1>9. Attempts'
  <2>1. \A u \in Taps : u # t => Attempts!(u)'
    BY <1>1, <1>4, <1>5 DEF TapInv, Attempts
  <2>2. n.anchor \notin shown /\ \A r \in AnswerRows : r.by # n.anchor
    BY <1>2, <1>3, <1>7 DEF AnswerRows
  <2>3. Attempts!(t)'
    BY <1>1, <1>3, <1>4, <1>5, <2>2
  <2> QED BY <2>1, <2>3 DEF Attempts
<1>10. OneByAnchor' /\ AskedBefore' /\ ShownAnswersFit'
  BY <1>1, <1>5 DEF TapInv, OneByAnchor, AskedBefore, ShownAnswersFit
<1>11. OpenIsNew'
  BY <1>1, <1>3, <1>4, <1>5 DEF TapInv, OpenIsNew
<1> QED BY <1>6, <1>8, <1>9, <1>10, <1>11 DEF TapInv

\* The student gets the reply: the job is done, or tried again without its anchor.
LEMMA ShownInv ==
  ASSUME TapInv, NEW t \in Taps, NEW n \in TapJobs, tap' = [tap EXCEPT ![t] = n],
         tap[t].at = "send", tap[t].window = "open",
         n.window = "answered", n.at \in {"done", "failed", "anchor"},
         shown' = shown \cup {tap[t].anchor}, steps' = steps, anchors' = anchors
  PROVE  TapInv'
<1>1. /\ tap' \in [Taps -> TapJobs] /\ tap'[t] = n
      /\ \A u \in Taps : u # t => tap'[u] = tap[u]
  BY TapMoves DEF TapInv, TapTypes
<1>2. tap[t] \in TapJobs /\ anchors \in Nat /\ AnswerRows' = AnswerRows
  BY DEF TapInv, TapTypes, AnswerRows
<1>3. tap[t].anchor \in 1 .. anchors /\ n.at \notin Anchored
  BY DEF TapInv, AnchorsDiffer, Anchored
<1>4. TapTypes' /\ OneWindow'
  <2>1. shown' \subseteq Nat
    <3>1. tap[t].anchor \in Nat /\ shown \subseteq Nat
      BY <1>2 DEF TapInv, TapTypes, TapJobs
    <3> QED BY <3>1
  <2>2. TapTypes'
    BY <1>1, <2>1 DEF TapInv, TapTypes
  <2> QED BY <1>1, <2>2 DEF TapInv, OneWindow
<1>5. AnchorsDiffer'
  BY <1>1, <1>2, <1>3 DEF TapInv, AnchorsDiffer
<1>6. Attempts'
  <2>1. \A u \in Taps : u # t /\ tap[u].at \in {"read", "insert", "chain", "send"}
          => tap[u].anchor # tap[t].anchor
    BY DEF TapInv, AnchorsDiffer, Anchored
  <2>2. \A u \in Taps : u # t => Attempts!(u)'
    BY <1>1, <1>2, <2>1 DEF TapInv, Attempts
  <2>3. Attempts!(t)'
    BY <1>1, <1>3 DEF Anchored
  <2> QED BY <2>2, <2>3 DEF Attempts
<1>7. OneByAnchor' /\ AskedBefore'
  BY <1>2 DEF TapInv, OneByAnchor, AskedBefore
<1>8. OpenIsNew'
  <2>1. \A u \in Taps : tap'[u].window # "open"
    BY <1>1 DEF TapInv, OneWindow
  <2> QED BY <2>1 DEF OpenIsNew
<1>9. ShownAnswersFit'
  <2>1. \A r \in AnswerRows : r.by = tap[t].anchor =>
          /\ r.q = tap[t].read /\ r.opt = r.q
          /\ \A s \in AnswerRows : s.by = r.by => s = r
    BY DEF TapInv, Attempts, OneByAnchor
  <2>2. \A r \in AnswerRows : r.by \in shown => r.q # tap[t].read
    BY DEF TapInv, OpenIsNew
  <2> QED BY <1>2, <2>1, <2>2 DEF TapInv, ShownAnswersFit
<1> QED BY <1>4, <1>5, <1>6, <1>7, <1>8, <1>9 DEF TapInv

\* The next attempt.
LEMMA NextTryJob ==
  ASSUME NEW j \in TapJobs
  PROVE  /\ NextTry(j) \in TapJobs /\ NextTry(j).at \in {"anchor", "failed"}
         /\ NextTry(j).window = j.window
<1>1. "anchor" \in TapPlaces /\ "failed" \in TapPlaces
  BY DEF TapPlaces, TapActive
<1>2. j.try \in Int /\ j.try + 1 \in Int
  BY DEF TapJobs
<1>3. CASE j.try < TapTries
  <2>1. NextTry(j) = [j EXCEPT !.at = "anchor", !.try = @ + 1]
    BY <1>3 DEF NextTry
  <2> QED BY <1>1, <1>2, <2>1 DEF TapJobs
<1>4. CASE ~(j.try < TapTries)
  <2>1. NextTry(j) = [j EXCEPT !.at = "failed"]
    BY <1>4 DEF NextTry
  <2> QED BY <1>1, <2>1 DEF TapJobs
<1> QED BY <1>3, <1>4

\* A lesson that asks its question has no answers.
LEMMA TapInvInit == TapInit => TapInv
<1> SUFFICES ASSUME TapInit PROVE TapInv
  OBVIOUS
<1>1. PICK q \in Questions : steps = {Asks(q, 0)}
  BY DEF TapInit
<1>2. AnswerRows = {}
  BY <1>1 DEF AnswerRows, Asks
<1>3. TapTypes
  <2>1. Asks(q, 0) \in StepRows
    BY DEF Asks, StepRows, QuestionOrNone
  <2>2. [at |-> "wait", try |-> 1, q |-> NoQuestion, anchor |-> 0,
         read |-> NoQuestion, window |-> "none"] \in TapJobs
    BY DEF TapJobs, TapPlaces, QuestionOrNone
  <2> QED BY <1>1, <2>1, <2>2 DEF TapInit, TapTypes
<1>4. OneWindow /\ Attempts /\ OpenIsNew
  BY DEF TapInit, OneWindow, Attempts, OpenIsNew
<1>5. AnchorsDiffer
  <2>1. \A t \in Taps : tap[t].at \notin Anchored
    BY DEF TapInit, Anchored
  <2>2. anchors = 0 /\ shown = {} /\ \A r \in steps : r.by = 0
    BY <1>1 DEF TapInit, Asks
  <2> QED BY <2>1, <2>2 DEF AnchorsDiffer
<1>6. OneByAnchor /\ AskedBefore /\ ShownAnswersFit
  BY <1>2 DEF OneByAnchor, AskedBefore, ShownAnswersFit
<1> QED BY <1>3, <1>4, <1>5, <1>6 DEF TapInv

\* Every step keeps the invariant.
LEMMA TapInvStep == TapInv /\ [TapNext]_tapVars => TapInv'
<1> SUFFICES ASSUME TapInv, [TapNext]_tapVars PROVE TapInv'
  OBVIOUS
<1>1. CASE UNCHANGED tapVars
  BY <1>1 DEF tapVars, TapInv, TapTypes, OneWindow, AnchorsDiffer, Attempts, OneByAnchor,
              AskedBefore, OpenIsNew, ShownAnswersFit, AnswerRows
<1>2. ASSUME NEW t \in Taps, TapArrives(t) \/ TapExpires(t) \/ TapStep(t)
      PROVE  TapInv'
  <2>0. tap \in [Taps -> TapJobs] /\ tap[t] \in TapJobs
    BY DEF TapInv, TapTypes
  <2>1. CASE TapArrives(t)
    <3>1. PICK q \in Asked :
            tap' = IF \E o \in Taps : tap[o].window = "open"
                   THEN [tap EXCEPT ![t].at = "skipped"]
                   ELSE [tap EXCEPT ![t].at = "anchor", ![t].q = q, ![t].window = "open"]
      BY <2>1 DEF TapArrives
    <3>2. q \in QuestionOrNone /\ steps' = steps /\ anchors' = anchors /\ shown' = shown
      BY <2>1 DEF TapArrives, Asked, TapInv, TapTypes, StepRows
    <3>3. CASE \E o \in Taps : tap[o].window = "open"
      <4> DEFINE n == [tap[t] EXCEPT !.at = "skipped"]
      <4>1. n \in TapJobs /\ n.at = "skipped" /\ n.window = tap[t].window
        BY <2>0 DEF TapJobs, TapPlaces
      <4>2. tap' = [tap EXCEPT ![t] = n]
        BY <3>1, <3>3
      <4> HIDE DEF n
      <4> QED BY <3>2, <4>1, <4>2, QuietTap DEF Anchored
    <3>4. CASE \A o \in Taps : tap[o].window # "open"
      <4> DEFINE n == [tap[t] EXCEPT !.at = "anchor", !.q = q, !.window = "open"]
      <4>1. n \in TapJobs /\ n.at = "anchor"
        BY <2>0, <3>2 DEF TapJobs, TapPlaces, TapActive
      <4>2. tap' = [tap EXCEPT ![t] = n]
        BY <3>1, <3>4
      <4> HIDE DEF n
      <4> QED BY <3>2, <3>4, <4>1, <4>2, QuietTap DEF Anchored
    <3> QED BY <3>3, <3>4
  <2>2. CASE TapExpires(t)
    <3> DEFINE n == [tap[t] EXCEPT !.window = "expired"]
    <3>1. /\ n \in TapJobs /\ n.at = tap[t].at /\ n.window = "expired"
          /\ n.anchor = tap[t].anchor /\ n.read = tap[t].read /\ n.q = tap[t].q
      BY <2>0 DEF TapJobs
    <3>2. /\ tap' = [tap EXCEPT ![t] = n]
          /\ steps' = steps /\ anchors' = anchors /\ shown' = shown
      BY <2>2 DEF TapExpires
    <3> HIDE DEF n
    <3> QED BY <3>1, <3>2, QuietTap
  <2>3. CASE ReadQuestion(t)
    <3>1. PICK row \in Current :
            tap' = [tap EXCEPT ![t].at = IF Awaits(row, tap[t].q) THEN "insert" ELSE "drop",
                               ![t].read = row.q]
      BY <2>3 DEF ReadQuestion
    <3> DEFINE n == [tap[t] EXCEPT !.at = IF Awaits(row, tap[t].q) THEN "insert" ELSE "drop",
                                   !.read = row.q]
    <3>2. row \in steps /\ row \in StepRows /\ \A o \in steps : o.at <= row.at /\ o.at \in Nat
      BY <3>1 DEF Current, TapInv, TapTypes, StepRows
    <3>3. /\ n \in TapJobs /\ n.window = tap[t].window /\ n.anchor = tap[t].anchor
          /\ n.at = (IF Awaits(row, tap[t].q) THEN "insert" ELSE "drop")
          /\ n.read = row.q /\ n.q = tap[t].q
      BY <2>0, <3>2 DEF TapJobs, TapPlaces, TapActive, StepRows
    <3>4. /\ tap' = [tap EXCEPT ![t] = n] /\ tap[t].at = "read"
          /\ steps' = steps /\ anchors' = anchors /\ shown' = shown
      BY <2>3, <3>1 DEF ReadQuestion
    <3> HIDE DEF n
    <3>5. Awaits(row, tap[t].q) => \A r \in AnswerRows : r.q # row.q
      <4> SUFFICES ASSUME row.kind = "asks", NEW r \in AnswerRows, r.q = row.q PROVE FALSE
        BY DEF Awaits
      <4>1. row.at < r.at /\ r \in steps
        BY <3>2 DEF TapInv, AskedBefore, AnswerRows
      <4> QED BY <3>2, <4>1 DEF StepRows
    <3>6. Awaits(row, tap[t].q) => row.q = tap[t].q
      BY DEF Awaits
    <3>7. CASE Awaits(row, tap[t].q)
      BY <3>3, <3>4, <3>5, <3>6, <3>7, QuietTap DEF Anchored
    <3>8. CASE ~Awaits(row, tap[t].q)
      BY <3>3, <3>4, <3>8, QuietTap DEF Anchored
    <3> QED BY <3>7, <3>8
  <2>4. CASE DropAnchor(t)
    <3> DEFINE n == [tap[t] EXCEPT !.at = "skipped"]
    <3>1. n \in TapJobs /\ n.at = "skipped" /\ n.window = tap[t].window
      BY <2>0 DEF TapJobs, TapPlaces
    <3>2. /\ tap' = [tap EXCEPT ![t] = n]
          /\ steps' = steps /\ anchors' = anchors /\ shown' = shown
      BY <2>4 DEF DropAnchor, At
    <3> HIDE DEF n
    <3> QED BY <3>1, <3>2, QuietTap DEF Anchored
  <2>5. CASE SendReply(t)
    <3>1. CASE tap[t].window = "open"
      <4> DEFINE n == [tap[t] EXCEPT !.at = "done", !.window = "answered"]
      <4>1. n \in TapJobs /\ n.at = "done" /\ n.window = "answered"
        BY <2>0 DEF TapJobs, TapPlaces
      <4>2. /\ tap' = [tap EXCEPT ![t] = n] /\ tap[t].at = "send"
            /\ shown' = shown \cup {tap[t].anchor} /\ steps' = steps /\ anchors' = anchors
        BY <2>5, <3>1 DEF SendReply
      <4> HIDE DEF n
      <4> QED BY <3>1, <4>1, <4>2, ShownInv
    <3>2. CASE tap[t].window # "open"
      <4> DEFINE n == [tap[t] EXCEPT !.at = "undo"]
      <4>1. n \in TapJobs /\ n.at = "undo" /\ n.window = tap[t].window
            /\ n.anchor = tap[t].anchor
        BY <2>0 DEF TapJobs, TapPlaces, TapActive
      <4>2. /\ tap' = [tap EXCEPT ![t] = n] /\ tap[t].at = "send"
            /\ steps' = steps /\ anchors' = anchors /\ shown' = shown
        BY <2>5, <3>2 DEF SendReply, At
      <4> HIDE DEF n
      <4> QED BY <3>2, <4>1, <4>2, QuietTap DEF Anchored
    <3> QED BY <3>1, <3>2
  <2>6. CASE TapResponseLost(t)
    <3> DEFINE n == NextTry([tap[t] EXCEPT !.window = "answered"])
    <3>1. [tap[t] EXCEPT !.window = "answered"] \in TapJobs
          /\ [tap[t] EXCEPT !.window = "answered"].window = "answered"
      BY <2>0 DEF TapJobs
    <3>2. n \in TapJobs /\ n.at \in {"anchor", "failed"} /\ n.window = "answered"
      BY <3>1, NextTryJob
    <3>3. /\ tap' = [tap EXCEPT ![t] = n] /\ tap[t].at = "send" /\ tap[t].window = "open"
          /\ shown' = shown \cup {tap[t].anchor} /\ steps' = steps /\ anchors' = anchors
      BY <2>6 DEF TapResponseLost
    <3> HIDE DEF n
    <3> QED BY <3>2, <3>3, ShownInv
  <2>7. CASE UndoTap(t)
    <3> DEFINE n == [tap[t] EXCEPT !.at = "done"]
    <3>1. n \in TapJobs /\ n.at = "done" /\ n.window = tap[t].window
      BY <2>0 DEF TapJobs, TapPlaces
    <3>2. /\ tap' = [tap EXCEPT ![t] = n]
          /\ steps' \subseteq steps /\ anchors' = anchors /\ shown' = shown
      BY <2>7 DEF UndoTap, At
    <3> HIDE DEF n
    <3> QED BY <3>1, <3>2, QuietTap DEF Anchored
  <2>8. CASE TapFails(t)
    <3> DEFINE n == NextTry(tap[t])
    <3>1. n \in TapJobs /\ n.at \in {"anchor", "failed"} /\ n.window = tap[t].window
      BY <2>0, NextTryJob
    <3>2. /\ tap' = [tap EXCEPT ![t] = n]
          /\ steps' = steps /\ anchors' = anchors /\ shown' = shown
      BY <2>8 DEF TapFails
    <3> HIDE DEF n
    <3> QED BY <3>1, <3>2, QuietTap DEF Anchored
  <2> QED
    BY <1>2, <2>1, <2>2, <2>3, <2>4, <2>5, <2>6, <2>7, <2>8, InsertAnchorInv,
       InsertAnswerInv, StartNextInv DEF TapStep
<1> QED BY <1>1, <1>2 DEF TapNext

\* However many taps there are, however late, repeated or failing: the answers the
\* student was shown the outcome of are to the questions they chose them for, at
\* most one for each (handleComprehensionAnswer, processWabotInboundJob 4b).
THEOREM TapsFit == TapSpec => []ShownAnswersFit
<1>1. TapInv => ShownAnswersFit
  BY DEF TapInv
<1> QED BY <1>1, TapInvInit, TapInvStep, PTL DEF TapSpec
===============================================================================
