--------------------------- MODULE Onboarding_proofs ---------------------------
(***************************************************************************)
(* What holds of Onboarding for any number of voice notes, turns in        *)
(* flight, rollbacks and snapshots that stop restoring, and any names,     *)
(* ages and months.                                                        *)
(***************************************************************************)
EXTENDS Onboarding, TLAPS

-----------------------------------------------------------------------------
(* The machine.                                                            *)

\* Where a question leads is a state of the machine.
LEMMA TargetType ==
  ASSUME NEW q \in OnboardingStateName, NEW v
  PROVE  Target(q, v) \in OnboardingStateName
BY DEF Target, ConsentTarget, AgeTarget, OnboardingStateName

\* What a turn sends back is one of the media.
LEMMA EmitsType ==
  ASSUME NEW q \in OnboardingStateName, NEW v \in Readings(q)
  PROVE  Emits(q, v) \in Stids
BY DEF Emits, GuardianEmits, Stids, OnboardingStateName, Readings

\* A turn makes a snapshot out of a snapshot.
LEMMA ReplyType ==
  ASSUME NEW s \in Snapshots, NEW v \in Readings(s.value)
  PROVE  Reply(s, v, Year) \in Snapshots
<1>1. s.value \in OnboardingStateName
  BY DEF Snapshots
<1>2. Target(s.value, v) \in OnboardingStateName /\ Emits(s.value, v) \in Stids
  BY <1>1, TargetType, EmitsType
<1>3. Reply(s, v, Year).studentName \in Names \cup {Null}
  BY <1>1 DEF Reply, HeardOrNull, Readings, OnboardingStateName, Snapshots
<1>4. Reply(s, v, Year).birthYear \in Int \cup {Null}
  <2>1. s.birthYear \in Int \cup {Null}
    BY DEF Snapshots
  <2>2. v \in Ages => Year - v \in Int
    BY AnswersAssumption, YearAssumption
  <2> QED BY <2>1, <2>2 DEF Reply
<1>5. Reply(s, v, Year).birthMonth \in Months \cup {Null}
  BY <1>1 DEF Reply, HeardOrNull, Readings, OnboardingStateName, Snapshots
<1> QED BY <1>2, <1>3, <1>4, <1>5 DEF Reply, Snapshots

\* What was said grows into what was said.
LEMMA HearType ==
  ASSUME NEW said \in Said, NEW q, NEW v
  PROVE  Hear(said, q, v) \in Said
BY DEF Hear, Said

\* A fresh snapshot.
LEMMA StartType == StartSnapshot \in Snapshots /\ NothingSaid \in Said
BY DEF StartSnapshot, Snapshots, OnboardingStateName, Stids, NothingSaid, Said

-----------------------------------------------------------------------------
(* Types.  A row is a record, and what a step leaves of the rows are rows   *)
(* that were there, up to `restores`, and at most one that was committed.   *)

IsRecord(r) ==
  r = [at |-> r.at, msg |-> r.msg, created |-> r.created, snap |-> r.snap,
       restores |-> r.restores, answered |-> r.answered, heard |-> r.heard,
       said |-> r.said]

TypeInv ==
  /\ OnboardingTypeOK /\ DOMAIN pending = Messages
  /\ \A r \in rows : IsRecord(r)

\* r is the row o, which may have stopped restoring.
SameRow(o, r) ==
  /\ IsRecord(r) /\ r.restores \in BOOLEAN
  /\ r.at = o.at /\ r.msg = o.msg /\ r.created = o.created /\ r.snap = o.snap
  /\ r.answered = o.answered /\ r.heard = o.heard /\ r.said = o.said

CommittedRow(m, created) ==
  [at |-> inserted + 1, msg |-> m, created |-> created, snap |-> pending[m].snap,
   restores |-> TRUE, answered |-> pending[m].answered,
   heard |-> pending[m].heard, said |-> pending[m].said]

StartedTurn ==
  [q |-> "start", snap |-> StartSnapshot, answered |-> 0, heard |-> Null,
   said |-> NothingSaid]

RepliedTurn(r, v) ==
  [q |-> r.snap.value, snap |-> Reply(r.snap, v, Year), answered |-> r.at,
   heard |-> v, said |-> Hear(r.said, r.snap.value, v)]

\* A row of the next state was there before or was committed by this step.
LEMMA RowMoves ==
  ASSUME TypeInv, [OnboardingNext]_onboardingVars, NEW r \in rows'
  PROVE  \/ \E o \in rows : SameRow(o, r)
         \/ \E m \in Messages, created \in {Year, Year + 1} :
              Commit(m, created) /\ r = CommittedRow(m, created)
<1>1. CASE r \in rows
  <2>1. SameRow(r, r)
    BY <1>1 DEF SameRow, TypeInv, OnboardingTypeOK, IsRow
  <2> QED BY <1>1, <2>1
<1>2. CASE r \notin rows
  <2>1. ASSUME NEW m \in Messages, NEW created \in {Year, Year + 1}, Commit(m, created)
        PROVE  r = CommittedRow(m, created)
    BY <1>2, <2>1 DEF Commit, CommittedRow
  <2>2. ASSUME ShapeChange PROVE \E o \in rows : SameRow(o, r)
    <3>1. PICK o \in rows : rows' = (rows \ {o}) \cup {[o EXCEPT !.restores = FALSE]}
      BY <2>2 DEF ShapeChange
    <3>2. r = [o EXCEPT !.restores = FALSE]
      BY <1>2, <3>1
    <3>3. IsRecord(o)
      BY DEF TypeInv
    <3>4. SameRow(o, r)
      BY <3>2, <3>3 DEF SameRow, IsRecord
    <3> QED BY <3>4
  <2>3. ASSUME NEW m \in Messages, BeginStart(m) \/ BeginReply(m) \/ TurnFails(m) \/ Rollback(m)
        PROVE  FALSE
    BY <1>2, <2>3 DEF BeginStart, BeginReply, TurnFails, Rollback
  <2>4. CASE UNCHANGED onboardingVars
    BY <1>2, <2>4 DEF onboardingVars
  <2> QED BY <2>1, <2>2, <2>3, <2>4 DEF OnboardingNext
<1> QED BY <1>1, <1>2

\* A turn in flight was so before, has just started, or has just read a row.
LEMMA PendingMoves ==
  ASSUME TypeInv, [OnboardingNext]_onboardingVars, NEW m \in Messages, pending'[m] # Idle
  PROVE  \/ pending'[m] = pending[m]
         \/ pending'[m] = StartedTurn /\ UNCHANGED <<rows, inserted>>
         \/ /\ UNCHANGED <<rows, inserted>>
            /\ \E r \in rows : \E v \in Readings(r.snap.value) :
                 r.snap.value # "done" /\ pending'[m] = RepliedTurn(r, v)
<1> USE DEF TypeInv
<1>1. ASSUME NEW k \in Messages, BeginStart(k)
      PROVE  UNCHANGED <<rows, inserted>> /\ pending' = [pending EXCEPT ![k] = StartedTurn]
  BY <1>1 DEF BeginStart, StartedTurn
<1>2. ASSUME NEW k \in Messages, BeginReply(k)
      PROVE  /\ UNCHANGED <<rows, inserted>>
             /\ \E r \in rows : \E v \in Readings(r.snap.value) :
                  /\ r.snap.value # "done"
                  /\ pending' = [pending EXCEPT ![k] = RepliedTurn(r, v)]
  BY <1>2 DEF BeginReply, RepliedTurn
<1>3. ASSUME NEW k \in Messages, NEW created \in {Year, Year + 1},
             Commit(k, created) \/ TurnFails(k)
      PROVE  pending' = [pending EXCEPT ![k] = Idle]
  BY <1>3 DEF Commit, TurnFails
<1>4. ASSUME NEW k \in Messages, Rollback(k) \/ ShapeChange \/ UNCHANGED onboardingVars
      PROVE  pending' = pending
  BY <1>4 DEF Rollback, ShapeChange, onboardingVars
<1>5. ASSUME NEW k \in Messages, BeginReply(k)
      PROVE  \/ pending'[m] = pending[m]
             \/ /\ UNCHANGED <<rows, inserted>>
                /\ \E r \in rows : \E v \in Readings(r.snap.value) :
                     r.snap.value # "done" /\ pending'[m] = RepliedTurn(r, v)
  BY <1>2, <1>5
<1> QED BY <1>1, <1>3, <1>4, <1>5 DEF OnboardingNext

\* Rows are counted up, one at a time.
LEMMA CountMoves ==
  ASSUME TypeInv, [OnboardingNext]_onboardingVars
  PROVE  /\ DOMAIN pending' = Messages
         /\ inserted' \in {inserted, inserted + 1} /\ inserted' \in 0 .. MaxRows
         /\ begun' \in 0 .. MaxMsgs
<1>1. inserted \in 0 .. MaxRows /\ begun \in 0 .. MaxMsgs /\ DOMAIN pending = Messages
  BY DEF TypeInv, OnboardingTypeOK
<1>2. ASSUME NEW m \in Messages, BeginStart(m) \/ BeginReply(m)
      PROVE  DOMAIN pending' = Messages /\ inserted' = inserted /\ begun' \in 0 .. MaxMsgs
  BY <1>1, <1>2, BoundsAssumption DEF BeginStart, BeginReply, Messages
<1>3. ASSUME NEW m \in Messages, TurnFails(m) \/ Rollback(m) \/ ShapeChange \/ UNCHANGED onboardingVars
      PROVE  DOMAIN pending' = Messages /\ inserted' = inserted /\ begun' = begun
  BY <1>1, <1>3 DEF TurnFails, Rollback, ShapeChange, onboardingVars
<1>4. ASSUME NEW m \in Messages, NEW created \in {Year, Year + 1}, Commit(m, created)
      PROVE  /\ DOMAIN pending' = Messages /\ inserted' = inserted + 1 /\ inserted' \in 0 .. MaxRows
             /\ begun' = begun
  BY <1>1, <1>4, BoundsAssumption DEF Commit
<1>5. ASSUME ShapeChange \/ UNCHANGED onboardingVars
      PROVE  DOMAIN pending' = Messages /\ inserted' = inserted /\ begun' = begun
  BY <1>1, <1>5 DEF ShapeChange, onboardingVars
<1> QED BY <1>1, <1>2, <1>3, <1>4, <1>5 DEF OnboardingNext

Columns ==
  [birthYear : Int \cup {Null}, birthMonth : Months \cup {Null},
   name : Names \cup {Null}, permission : BOOLEAN, said : Said]

\* The columns are left alone, or completed from a turn that is done.
LEMMA ColumnMoves ==
  ASSUME TypeInv, [OnboardingNext]_onboardingVars, columns' # columns
  PROVE  \E m \in Messages : pending[m] # Idle /\ pending[m].snap.value = "done"
                         /\ columns' = Complete(pending[m])
<1>1. ASSUME NEW m \in Messages, NEW created \in {Year, Year + 1}, Commit(m, created)
      PROVE  pending[m] # Idle /\ pending[m].snap.value = "done"
             /\ columns' = Complete(pending[m])
  BY <1>1 DEF Commit
<1>2. ASSUME NEW m \in Messages, BeginStart(m) \/ BeginReply(m) \/ TurnFails(m) \/ Rollback(m)
      PROVE  columns' = columns
  BY <1>2 DEF BeginStart, BeginReply, TurnFails, Rollback
<1>3. ASSUME ShapeChange \/ UNCHANGED onboardingVars PROVE columns' = columns
  BY <1>3 DEF ShapeChange, onboardingVars
<1> QED BY <1>1, <1>2, <1>3 DEF OnboardingNext

\* Every step keeps the types.
LEMMA TypeStep == TypeInv /\ [OnboardingNext]_onboardingVars => TypeInv'
<1> SUFFICES ASSUME TypeInv, [OnboardingNext]_onboardingVars PROVE TypeInv'
  OBVIOUS
<1>0. /\ inserted \in Nat /\ inserted' \in {inserted, inserted + 1} /\ inserted' \in Nat
      /\ \A r \in rows : IsRow(r)
  BY CountMoves, BoundsAssumption DEF TypeInv, OnboardingTypeOK
<1>1. ASSUME NEW r \in rows' PROVE IsRow(r)' /\ IsRecord(r)
  <2>1. ASSUME NEW o \in rows, SameRow(o, r) PROVE IsRow(r)' /\ IsRecord(r)
    <3>1. r.at \in 1 .. inserted' /\ r.answered \in 0 .. inserted'
      BY <1>0, <2>1 DEF IsRow, SameRow
    <3>2. r.msg \in Messages /\ r.created \in Int /\ r.snap \in Snapshots /\ r.said \in Said
      BY <1>0, <2>1 DEF IsRow, SameRow
    <3> QED BY <2>1, <3>1, <3>2 DEF IsRow, SameRow
  <2>2. ASSUME NEW m \in Messages, NEW created \in {Year, Year + 1},
               Commit(m, created), r = CommittedRow(m, created)
        PROVE  IsRow(r)' /\ IsRecord(r)
    <3>1. pending[m] # Idle /\ inserted' = inserted + 1
      BY <2>2 DEF Commit
    <3>2. pending[m].snap \in Snapshots /\ pending[m].said \in Said
          /\ pending[m].answered \in 0 .. inserted
      BY <3>1 DEF TypeInv, OnboardingTypeOK
    <3>3. r.at \in 1 .. inserted' /\ r.answered \in 0 .. inserted'
      BY <1>0, <2>2, <3>1, <3>2 DEF CommittedRow
    <3>4. r.msg \in Messages /\ r.created \in Int /\ r.snap \in Snapshots /\ r.said \in Said
          /\ r.restores \in BOOLEAN
      BY <2>2, <3>2, YearAssumption DEF CommittedRow
    <3>5. IsRecord(r)
      BY <2>2 DEF IsRecord, CommittedRow
    <3> QED BY <3>3, <3>4, <3>5 DEF IsRow
  <2> QED BY <2>1, <2>2, RowMoves
<1>2. ASSUME NEW m \in Messages, pending'[m] # Idle
      PROVE  /\ pending'[m].snap \in Snapshots /\ pending'[m].said \in Said
             /\ pending'[m].answered \in 0 .. inserted'
  <2>1. CASE pending'[m] = pending[m]
    BY <1>0, <1>2, <2>1 DEF TypeInv, OnboardingTypeOK
  <2>2. CASE pending'[m] = StartedTurn
    BY <1>0, <2>2, StartType DEF StartedTurn
  <2>3. ASSUME NEW r \in rows, NEW v \in Readings(r.snap.value),
               pending'[m] = RepliedTurn(r, v)
        PROVE  /\ pending'[m].snap \in Snapshots /\ pending'[m].said \in Said
               /\ pending'[m].answered \in 0 .. inserted'
    <3>1. r.snap \in Snapshots /\ r.said \in Said /\ r.at \in 0 .. inserted'
      BY <1>0 DEF IsRow
    <3>2. Reply(r.snap, v, Year) \in Snapshots
      BY <3>1, ReplyType
    <3>3. Hear(r.said, r.snap.value, v) \in Said
      BY <3>1, HearType
    <3> QED BY <2>3, <3>1, <3>2, <3>3 DEF RepliedTurn
  <2> QED BY <1>2, <2>1, <2>2, <2>3, PendingMoves
<1>3. columns' \in Columns
  <2>1. CASE columns' = columns
    BY <2>1 DEF TypeInv, OnboardingTypeOK, Columns
  <2>2. ASSUME NEW m \in Messages, pending[m] # Idle, columns' = Complete(pending[m])
        PROVE  columns' \in Columns
    <3>1. pending[m].snap \in Snapshots /\ pending[m].said \in Said
          /\ columns.name \in Names \cup {Null}
      BY <2>2 DEF TypeInv, OnboardingTypeOK
    <3>2. /\ pending[m].snap.birthYear \in Int \cup {Null}
          /\ pending[m].snap.birthMonth \in Months \cup {Null}
          /\ pending[m].snap.studentName \in Names \cup {Null}
      BY <3>1 DEF Snapshots
    <3> QED BY <2>2, <3>1, <3>2 DEF Complete, Columns
  <2> QED BY <2>1, <2>2, ColumnMoves
<1> QED BY <1>1, <1>2, <1>3, CountMoves DEF TypeInv, OnboardingTypeOK, Columns

\* The types hold at the beginning.
LEMMA TypeInit == OnboardingInit => TypeInv
BY BoundsAssumption DEF OnboardingInit, TypeInv, OnboardingTypeOK, NoColumns, NothingSaid, Said

\* The table, the columns and the turns in flight always have their types, for any
\* replies, rollbacks and snapshots that stop restoring.
THEOREM TypeCorrect == OnboardingSpec => []OnboardingTypeOK
<1>1. TypeInv => OnboardingTypeOK
  BY DEF TypeInv
<1> QED BY TypeInit, TypeStep, <1>1, PTL DEF OnboardingSpec

-----------------------------------------------------------------------------
(* Consent.  A question after the first was reached by a guardian, and one  *)
(* after consent by a yes that no later turn of the chain took back.        *)

Chain(snap, said) ==
  /\ snap.value \in OnboardingStateName
  /\ snap.value # "askGuardian" => said.guardian
  /\ snap.value \in AfterConsent => said.consent = "YES"

ChainInv ==
  /\ \A r \in rows : Chain(r.snap, r.said)
  /\ \A m \in Messages : pending[m] # Idle => Chain(pending[m].snap, pending[m].said)
  /\ columns.permission => Consented(columns.said)

\* One turn more keeps the chain, whatever is said.
LEMMA ChainReply ==
  ASSUME NEW s, NEW said, Chain(s, said), s.value # "done", NEW v
  PROVE  Chain(Reply(s, v, Year), Hear(said, s.value, v))
<1>1. Reply(s, v, Year).value = Target(s.value, v)
  BY DEF Reply
<1>2. Target(s.value, v) \in OnboardingStateName
  BY TargetType DEF Chain
<1>3. Target(s.value, v) # "askGuardian" => Hear(said, s.value, v).guardian
  BY DEF Chain, Target, Hear, OnboardingStateName
<1>4. Target(s.value, v) \in AfterConsent => Hear(said, s.value, v).consent = "YES"
  BY DEF Chain, Target, ConsentTarget, Hear, OnboardingStateName, AfterConsent
<1> QED BY <1>1, <1>2, <1>3, <1>4 DEF Chain

\* Every step keeps the chains.
LEMMA ChainStep == TypeInv /\ ChainInv /\ [OnboardingNext]_onboardingVars => ChainInv'
<1> SUFFICES ASSUME TypeInv, ChainInv, [OnboardingNext]_onboardingVars PROVE ChainInv'
  OBVIOUS
<1>1. ASSUME NEW r \in rows' PROVE Chain(r.snap, r.said)
  <2>1. ASSUME NEW o \in rows, SameRow(o, r) PROVE Chain(r.snap, r.said)
    BY <2>1 DEF SameRow, ChainInv
  <2>2. ASSUME NEW m \in Messages, NEW created \in {Year, Year + 1},
               Commit(m, created), r = CommittedRow(m, created)
        PROVE  Chain(r.snap, r.said)
    BY <2>2 DEF Commit, CommittedRow, ChainInv
  <2> QED BY <2>1, <2>2, RowMoves
<1>2. ASSUME NEW m \in Messages, pending'[m] # Idle
      PROVE  Chain(pending'[m].snap, pending'[m].said)
  <2>1. CASE pending'[m] = pending[m]
    BY <1>2, <2>1 DEF ChainInv
  <2>2. CASE pending'[m] = StartedTurn
    BY <2>2 DEF StartedTurn, Chain, StartSnapshot, OnboardingStateName, AfterConsent
  <2>3. ASSUME NEW r \in rows, NEW v \in Readings(r.snap.value),
               r.snap.value # "done", pending'[m] = RepliedTurn(r, v)
        PROVE  Chain(pending'[m].snap, pending'[m].said)
    <3>1. Chain(Reply(r.snap, v, Year), Hear(r.said, r.snap.value, v))
      BY <2>3, ChainReply DEF ChainInv
    <3> QED BY <2>3, <3>1 DEF RepliedTurn
  <2> QED BY <1>2, <2>1, <2>2, <2>3, PendingMoves
<1>3. columns'.permission => Consented(columns'.said)
  <2>1. CASE columns' = columns
    BY <2>1 DEF ChainInv
  <2>2. ASSUME NEW m \in Messages, pending[m] # Idle, pending[m].snap.value = "done",
               columns' = Complete(pending[m])
        PROVE  Consented(columns'.said)
    <3>1. Consented(pending[m].said)
      BY <2>2 DEF ChainInv, Chain, AfterConsent, Consented
    <3> QED BY <2>2, <3>1 DEF Complete
  <2> QED BY <2>1, <2>2, ColumnMoves
<1> QED BY <1>1, <1>2, <1>3 DEF ChainInv

\* Nothing is asked of the child or stored without consent.
THEOREM ConsentFirst == OnboardingSpec => []ConsentBeforeData
<1>1. OnboardingInit => ChainInv
  BY DEF OnboardingInit, ChainInv, NoColumns
<1>2. ChainInv => ConsentBeforeData
  BY DEF ChainInv, Chain, ConsentBeforeData, Consented, AfterConsent
<1> QED BY TypeInit, TypeStep, ChainStep, <1>1, <1>2, PTL DEF OnboardingSpec

-----------------------------------------------------------------------------
(* The staff page.  A row's snapshot is the machine's answer to the reply   *)
(* in the row it says it answered, as long as that row is there: rows are   *)
(* never changed, and none comes back under the same created_at.            *)

Answers(answered, snap, heard) ==
  /\ answered = 0 => snap = StartSnapshot
  /\ \A p \in rows : p.at = answered =>
       /\ p.snap.value # "done" /\ heard \in Readings(p.snap.value)
       /\ snap = Reply(p.snap, heard, Year)

AnswersInv ==
  /\ \A r, o \in rows : r.at = o.at => r = o
  /\ \A r \in rows : Answers(r.answered, r.snap, r.heard)
  /\ \A m \in Messages : pending[m] # Idle =>
       Answers(pending[m].answered, pending[m].snap, pending[m].heard)

\* What a row or a turn answered it still answers: the rows up to it are old ones.
LEMMA AnswersKept ==
  ASSUME TypeInv, [OnboardingNext]_onboardingVars, NEW a \in 0 .. inserted, NEW snap, NEW heard_,
         Answers(a, snap, heard_)
  PROVE  Answers(a, snap, heard_)'
<1> SUFFICES ASSUME NEW p \in rows', p.at = a
             PROVE  /\ p.snap.value # "done" /\ heard_ \in Readings(p.snap.value)
                    /\ snap = Reply(p.snap, heard_, Year)
  BY DEF Answers
<1>1. ASSUME NEW o \in rows, SameRow(o, p)
      PROVE  /\ p.snap.value # "done" /\ heard_ \in Readings(p.snap.value)
             /\ snap = Reply(p.snap, heard_, Year)
  BY <1>1 DEF SameRow, Answers
<1>2. ASSUME NEW m \in Messages, NEW created \in {Year, Year + 1}, p = CommittedRow(m, created)
      PROVE  FALSE
  <2>1. p.at = inserted + 1
    BY <1>2 DEF CommittedRow
  <2> QED BY <2>1, BoundsAssumption DEF TypeInv, OnboardingTypeOK
<1> QED BY <1>1, <1>2, RowMoves

\* created_at stays unique, and every turn is an answer to the row it names.
LEMMA AnswersStep == TypeInv /\ AnswersInv /\ [OnboardingNext]_onboardingVars => AnswersInv'
<1> SUFFICES ASSUME TypeInv, AnswersInv, [OnboardingNext]_onboardingVars PROVE AnswersInv'
  OBVIOUS
<1>0. inserted \in Nat /\ \A r \in rows : r.at \in 1 .. inserted /\ r.answered \in 0 .. inserted
  BY BoundsAssumption DEF TypeInv, OnboardingTypeOK, IsRow
<1>1. ASSUME NEW r \in rows', NEW o \in rows', r.at = o.at PROVE r = o
  <2>1. ASSUME ShapeChange PROVE r = o
    <3>1. PICK b \in rows : rows' = (rows \ {b}) \cup {[b EXCEPT !.restores = FALSE]}
      BY <2>1 DEF ShapeChange
    <3>2. [b EXCEPT !.restores = FALSE].at = b.at
      BY DEF TypeInv, IsRecord
    <3> QED BY <1>1, <3>1, <3>2 DEF AnswersInv
  <2>2. ASSUME NEW m \in Messages, NEW created \in {Year, Year + 1}, Commit(m, created)
        PROVE  r = o
    <3>1. rows' = rows \cup {CommittedRow(m, created)}
      BY <2>2 DEF Commit, CommittedRow
    <3>2. CommittedRow(m, created).at = inserted + 1
      BY DEF CommittedRow
    <3> QED BY <1>0, <1>1, <3>1, <3>2 DEF AnswersInv
  <2>3. ASSUME NEW m \in Messages, BeginStart(m) \/ BeginReply(m) \/ TurnFails(m) \/ Rollback(m)
        PROVE  r = o
    BY <1>1, <2>3 DEF BeginStart, BeginReply, TurnFails, Rollback, AnswersInv
  <2>4. CASE UNCHANGED onboardingVars
    BY <1>1, <2>4 DEF onboardingVars, AnswersInv
  <2> QED BY <2>1, <2>2, <2>3, <2>4 DEF OnboardingNext
<1>2. ASSUME NEW r \in rows' PROVE Answers(r.answered, r.snap, r.heard)'
  <2>1. ASSUME NEW o \in rows, SameRow(o, r) PROVE Answers(r.answered, r.snap, r.heard)'
    BY <1>0, <2>1, AnswersKept DEF SameRow, AnswersInv
  <2>2. ASSUME NEW m \in Messages, NEW created \in {Year, Year + 1},
               Commit(m, created), r = CommittedRow(m, created)
        PROVE  Answers(r.answered, r.snap, r.heard)'
    <3>1. PICK t : t = pending[m]
      OBVIOUS
    <3>2. t # Idle /\ r.answered = t.answered /\ r.snap = t.snap /\ r.heard = t.heard
      BY <2>2, <3>1 DEF Commit, CommittedRow
    <3>3. t.answered \in 0 .. inserted /\ Answers(t.answered, t.snap, t.heard)
      BY <3>1, <3>2 DEF TypeInv, OnboardingTypeOK, AnswersInv
    <3> QED BY <3>2, <3>3, AnswersKept
  <2> QED BY <2>1, <2>2, RowMoves
<1>3. ASSUME NEW m \in Messages, pending'[m] # Idle
      PROVE  Answers(pending[m].answered, pending[m].snap, pending[m].heard)'
  <2>1. CASE pending'[m] = pending[m]
    <3>1. PICK t : t = pending[m]
      OBVIOUS
    <3>2. t # Idle /\ t.answered \in 0 .. inserted /\ Answers(t.answered, t.snap, t.heard)
      BY <1>3, <2>1, <3>1 DEF TypeInv, OnboardingTypeOK, AnswersInv
    <3> QED BY <2>1, <3>1, <3>2, AnswersKept
  <2>2. CASE pending'[m] = StartedTurn /\ UNCHANGED <<rows, inserted>>
    <3>1. \A p \in rows : p.at # 0
      BY <1>0
    <3> QED BY <2>2, <3>1 DEF StartedTurn, Answers
  <2>3. ASSUME NEW r \in rows, NEW v \in Readings(r.snap.value),
               r.snap.value # "done", pending'[m] = RepliedTurn(r, v),
               UNCHANGED <<rows, inserted>>
        PROVE  Answers(pending[m].answered, pending[m].snap, pending[m].heard)'
    <3>1. \A p \in rows : p.at = r.at => p = r
      BY DEF AnswersInv
    <3>2. r.at # 0
      BY <1>0
    <3> QED BY <2>3, <3>1, <3>2 DEF RepliedTurn, Answers
  <2> QED BY <1>3, <2>1, <2>2, <2>3, PendingMoves
<1> QED BY <1>1, <1>2, <1>3 DEF AnswersInv

\* A reply is marked unintelligible exactly when it was not understood, and no reply
\* looks like the start of an onboarding.
LEMMA MarkedUnread ==
  ASSUME NEW q \in OnboardingStateName \ {"done"}, NEW v \in Readings(q)
  PROVE  /\ Head(Emits(q, v)) = "unintelligible"
              <=> v = Unintelligible /\ q \notin {"askName", "askMonth", "declined"}
         /\ Emits(q, v) # <<"ask-guardian">>
BY AnswersAssumption
   DEF Emits, GuardianEmits, OnboardingStateName, Readings

\* A reply that was understood can be told from the snapshots around it.
LEMMA ToldFromSnapshots ==
  ASSUME NEW s \in Snapshots, s.value # "done", NEW v \in Readings(s.value),
         v # Unintelligible \/ s.value \in {"askName", "askMonth", "declined"}
  PROVE  UnderstoodByTransition(s.value, Reply(s, v, Year), Year) = v
<1>1. s.value \in OnboardingStateName
  BY DEF Snapshots
<1>2. CASE s.value \in {"askGuardian", "askConsent", "consentRefused", "declined"}
  BY <1>2, AnswersAssumption
     DEF UnderstoodByTransition, Reply, Target, ConsentTarget, Readings
<1>3. CASE s.value \in {"askName", "askMonth"}
  BY <1>3, AnswersAssumption
     DEF UnderstoodByTransition, Reply, HeardOrNull, Readings
<1>4. CASE s.value = "askAge"
  <2>1. v \in Ages /\ v \in Int
    BY <1>4, AnswersAssumption DEF Readings
  <2>2. Reply(s, v, Year).birthYear = Year - v /\ Year - v # Null
    BY <1>4, <2>1, AnswersAssumption, YearAssumption DEF Reply
  <2>3. Year - (Year - v) = v
    BY <2>1, YearAssumption
  <2> QED BY <1>4, <2>2, <2>3 DEF UnderstoodByTransition
<1> QED BY <1>1, <1>2, <1>3, <1>4 DEF OnboardingStateName

\* What the staff page shows of a turn is what the classifier read, while the row it
\* answered is the row before it and the year has not changed.
THEOREM StaffReadTheTurn == OnboardingSpec => []ReadingRecovered
<1>1. OnboardingInit => AnswersInv
  BY DEF OnboardingInit, AnswersInv
<1>2. TypeInv /\ AnswersInv => ReadingRecovered
  <2> SUFFICES ASSUME TypeInv, AnswersInv, NEW r \in rows, NEW p \in rows,
                      r.answered \in {0, p.at}, r.created = Year
               PROVE  Describe(TRUE, p.snap, r.snap, r.created) =
                        IF r.answered = 0 THEN [question |-> Null, understood |-> Null]
                        ELSE [question |-> p.snap.value, understood |-> r.heard]
    BY DEF ReadingRecovered
  <2>1. CASE r.answered = 0
    <3>1. IsStartRow(r.snap)
      BY <2>1 DEF AnswersInv, Answers, IsStartRow, StartSnapshot
    <3> QED BY <2>1, <3>1 DEF Describe
  <2>2. CASE r.answered # 0
    <3>1. /\ p.snap.value # "done" /\ r.heard \in Readings(p.snap.value)
          /\ r.snap = Reply(p.snap, r.heard, Year)
      BY <2>2 DEF AnswersInv, Answers
    <3>2. p.snap \in Snapshots /\ p.snap.value \in OnboardingStateName
      BY DEF TypeInv, OnboardingTypeOK, IsRow, Snapshots
    <3>3. r.snap.stids = Emits(p.snap.value, r.heard)
      BY <3>1 DEF Reply
    <3>4. ~IsStartRow(r.snap)
      BY <3>1, <3>2, <3>3, MarkedUnread DEF IsStartRow
    <3>5. Understood(p.snap, r.snap, Year) = r.heard
      <4>1. CASE Head(r.snap.stids) = "unintelligible"
        BY <3>1, <3>2, <3>3, <4>1, MarkedUnread DEF Understood
      <4>2. CASE Head(r.snap.stids) # "unintelligible"
        <5>1. \/ r.heard # Unintelligible
              \/ p.snap.value \in {"askName", "askMonth", "declined"}
          BY <3>1, <3>2, <3>3, <4>2, MarkedUnread
        <5> QED BY <3>1, <3>2, <4>2, <5>1, ToldFromSnapshots DEF Understood
      <4> QED BY <4>1, <4>2
    <3> QED BY <2>2, <3>4, <3>5 DEF Describe
  <2> QED BY <2>1, <2>2
<1> QED BY TypeInit, TypeStep, AnswersStep, <1>1, <1>2, PTL DEF OnboardingSpec
=============================================================================
