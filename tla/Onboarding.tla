------------------------------ MODULE Onboarding ------------------------------
(***************************************************************************)
(* One parent's onboarding: OnboardingService.handleTurn over the table    *)
(* onboarding_states and the user's own columns.  A turn reads the newest  *)
(* row and classifies the reply (Begin), then inserts the next snapshot,   *)
(* with the columns when it is done, in one transaction (Commit); turns of *)
(* different voice notes may overlap, and a new year may begin between     *)
(* the two steps.  Rollback deletes a message's row, which is all that the *)
(* retry path and the rolled-back sweep do to this table.                  *)
(***************************************************************************)
EXTENDS OnboardingMachine, FiniteSets

CONSTANTS MaxMsgs,       \* bound: the parent's voice notes
          Year,          \* the IST year when replies are read
          MaxRows,       \* bound: rows ever inserted
          MaxRollbacks,  \* bound: rows ever rolled back
          MaxBroken,     \* bound: snapshots that stop restoring
          MaxInFlight    \* bound: turns between their read and their insert

ASSUME YearAssumption == Year \in Int
ASSUME BoundsAssumption ==
  /\ MaxMsgs \in Nat /\ MaxRows \in Nat /\ MaxRollbacks \in Nat
  /\ MaxBroken \in Nat /\ MaxInFlight \in Nat

VARIABLES rows,      \* onboarding_states, each row with ghosts (see Rows)
          columns,   \* the user's columns
          pending,   \* per message: the turn between its read and its insert
          inserted,  \* rows inserted so far; orders created_at
          begun,     \* messages whose first turn has begun
          rollbacks, \* rows rolled back so far
          broken     \* snapshots broken so far

onboardingVars == <<rows, columns, pending, inserted, begun, rollbacks, broken>>

\* Messages are numbered in the order in which their first turns begin.
Messages == 1 .. MaxMsgs

Idle == [q |-> "idle"]

(***************************************************************************)
(* What the parent has actually said on the chain of turns a snapshot was  *)
(* computed from; the code keeps no such record.                           *)
(***************************************************************************)
NothingSaid == [guardian |-> FALSE, consent |-> "none"]
Said == [guardian : BOOLEAN, consent : {"none", "YES", "NO"}]

Hear(said, q, v) ==
  [guardian |-> said.guardian \/ (q = "askGuardian" /\ v = "YES"),
   consent  |-> IF q = "askConsent" /\ v \in {"YES", "NO"} THEN v
                ELSE said.consent]

\* A row.  `restores`: whether the machine still accepts the snapshot.
\* `answered`, `heard` and `said` are ghosts: the row this turn answered (0
\* for a start row), what the reply was read as, what was said up to here.
IsRow(r) ==
  /\ r.at \in 1 .. inserted /\ r.msg \in Messages /\ r.created \in Int
  /\ r.snap \in Snapshots /\ r.restores \in BOOLEAN
  /\ r.answered \in 0 .. inserted /\ r.said \in Said

NewestRow(r) == r \in rows /\ \A o \in rows : o.at <= r.at
HasRow(m) == \E r \in rows : r.msg = m

NoColumns ==
  [birthYear |-> Null, birthMonth |-> Null, name |-> Null, permission |-> FALSE,
   said |-> NothingSaid]

OnboardingInit ==
  /\ rows = {} /\ columns = NoColumns
  /\ pending = [m \in Messages |-> Idle]
  /\ inserted = 0 /\ begun = 0 /\ rollbacks = 0 /\ broken = 0

InFlight == {m \in Messages : pending[m] # Idle}

\* findCurrentRow + restore: no row yet, or one that no longer restores.
BeginStart(m) ==
  /\ pending[m] = Idle /\ Cardinality(InFlight) < MaxInFlight
  /\ m <= begun + 1 /\ begun' = (IF m > begun THEN m ELSE begun)
  /\ \A r \in rows : ~(NewestRow(r) /\ r.restores)
  /\ pending' = [pending EXCEPT ![m] =
       [q |-> "start", snap |-> StartSnapshot, answered |-> 0, heard |-> Null,
        said |-> NothingSaid]]
  /\ UNCHANGED <<rows, columns, inserted, rollbacks, broken>>

\* The reply is classified for the newest row's question and the machine run.
BeginReply(m) ==
  /\ pending[m] = Idle /\ Cardinality(InFlight) < MaxInFlight
  /\ m <= begun + 1 /\ begun' = (IF m > begun THEN m ELSE begun)
  /\ \E r \in rows :
       /\ NewestRow(r) /\ r.restores /\ r.snap.value # "done"
       /\ \E v \in Readings(r.snap.value) :
            pending' = [pending EXCEPT ![m] =
              [q |-> r.snap.value, snap |-> Reply(r.snap, v, Year),
               answered |-> r.at, heard |-> v,
               said |-> Hear(r.said, r.snap.value, v)]]
  /\ UNCHANGED <<rows, columns, inserted, rollbacks, broken>>

\* userService.update of a done turn, in the transaction of its row; the name
\* is written only when one was heard.
Complete(t) ==
  [birthYear  |-> t.snap.birthYear, birthMonth |-> t.snap.birthMonth,
   name       |-> IF t.snap.studentName # Null THEN t.snap.studentName
                  ELSE columns.name,
   permission |-> TRUE, said |-> t.said]

\* The transaction; user_message_id is unique.  created_at is the database's
\* clock: at the turn of the year it may be a year later than the reading.
Commit(m, created) ==
  /\ pending[m] # Idle /\ ~HasRow(m) /\ inserted < MaxRows
  /\ LET t == pending[m]
     IN  /\ rows' = rows \cup
              {[at |-> inserted + 1, msg |-> m, created |-> created, snap |-> t.snap,
                restores |-> TRUE, answered |-> t.answered, heard |-> t.heard,
                said |-> t.said]}
         /\ columns' = IF t.snap.value = "done" THEN Complete(t) ELSE columns
  /\ inserted' = inserted + 1
  /\ pending' = [pending EXCEPT ![m] = Idle]
  /\ UNCHANGED <<begun, rollbacks, broken>>

\* The classifier call or the insert throws: the attempt ends, nothing written.
TurnFails(m) ==
  /\ pending[m] # Idle
  /\ pending' = [pending EXCEPT ![m] = Idle]
  /\ UNCHANGED <<rows, columns, inserted, begun, rollbacks, broken>>

\* DELETE FROM onboarding_states WHERE user_message_id = m.  The columns of a
\* done row are left as they are: see InboundTurn.
Rollback(m) ==
  /\ pending[m] = Idle /\ HasRow(m) /\ rollbacks < MaxRollbacks
  /\ rows' = {r \in rows : r.msg # m}
  /\ rollbacks' = rollbacks + 1
  /\ UNCHANGED <<columns, pending, inserted, begun, broken>>

\* A deploy changes the machine's shape: the newest row no longer restores.
ShapeChange ==
  /\ broken < MaxBroken
  /\ \E r \in rows : NewestRow(r) /\ r.restores /\
       rows' = (rows \ {r}) \cup {[r EXCEPT !.restores = FALSE]}
  /\ broken' = broken + 1
  /\ UNCHANGED <<columns, pending, inserted, begun, rollbacks>>

OnboardingNext ==
  \/ \E m \in Messages : BeginStart(m) \/ BeginReply(m) \/ TurnFails(m) \/ Rollback(m)
  \/ \E m \in Messages, created \in {Year, Year + 1} : Commit(m, created)
  \/ ShapeChange

OnboardingSpec == OnboardingInit /\ [][OnboardingNext]_onboardingVars
-----------------------------------------------------------------------------
\* Every variable has its type; a pending turn carries a well-formed snapshot.
OnboardingTypeOK ==
  /\ \A r \in rows : IsRow(r)
  /\ columns \in [birthYear : Int \cup {Null}, birthMonth : Months \cup {Null},
                  name : Names \cup {Null}, permission : BOOLEAN, said : Said]
  /\ \A m \in Messages : pending[m] # Idle =>
       /\ pending[m].snap \in Snapshots
       /\ pending[m].said \in Said
       /\ pending[m].answered \in 0 .. inserted
  /\ inserted \in 0 .. MaxRows /\ begun \in 0 .. MaxMsgs

Consented(said) == said.guardian /\ said.consent = "YES"

\* No row asks for the child's data, no turn in flight is about to, and no
\* recording permission is stored, unless a guardian said so and the last
\* answer to the consent question on that chain of turns was a yes: a refusal
\* is never overruled by asking again, declining, restarting or rolling back.
ConsentBeforeData ==
  /\ \A r \in rows : r.snap.value \in AfterConsent => Consented(r.said)
  /\ \A m \in Messages : (pending[m] # Idle /\ pending[m].snap.value \in AfterConsent)
                       => Consented(pending[m].said)
  /\ columns.permission => Consented(columns.said)

\* The staff page's derivation (describe) says for every row what the
\* classifier really read, as long as the row before it is still the row it
\* answered and the year did not change between the reading and the insert.
ReadingRecovered ==
  \A r, p \in rows :
    /\ p.at < r.at /\ \A o \in rows : o.at <= p.at \/ o.at >= r.at
    /\ r.answered \in {0, p.at} /\ r.created = Year
    => Describe(TRUE, p.snap, r.snap, r.created) =
         IF r.answered = 0 THEN [question |-> Null, understood |-> Null]
         ELSE [question |-> p.snap.value, understood |-> r.heard]

=============================================================================
