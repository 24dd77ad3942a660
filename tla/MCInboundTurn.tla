---------------------------- MODULE MCInboundTurn ----------------------------
(***************************************************************************)
(* Small instances of a parent's turns as the tables see them and of the   *)
(* conversation of the onboarding.  The two share no state here: a         *)
(* behaviour is one of them.                                               *)
(* Of the turns there are two jobs that carry two voice notes of the same  *)
(* parent, or the same one twice.  The other assignments are these with    *)
(* the names of the jobs and messages exchanged.                           *)
(* Of the onboarding there is one name, one age and one month.  Rows       *)
(* accumulate, so the checker is given a view that forgets what no later   *)
(* step and no later check can depend on.  A turn reads only the newest    *)
(* row, and the rollbacks that are left can uncover at most that many      *)
(* older ones.  Of a row already written only the snapshot and what was    *)
(* said matter later: how it was read is checked against the row before it *)
(* in the state that inserts it.  Positions are counted back from the      *)
(* newest row.                                                             *)
(***************************************************************************)
EXTENDS InboundTurn, Onboarding

CONSTANTS j1, j2, m1, m2

VARIABLE part

MCJobs == {j1, j2}
MCMsgs == {m1, m2}
MCAssignments ==
  {[j \in MCJobs |-> m1], [j \in MCJobs |-> IF j = j1 THEN m1 ELSE m2]}

MCAges   == {8}
MCMonths == {3}
MCOneJob == {[j \in {j1} |-> m1]}

Newer(r) == Cardinality({o \in rows : o.at > r.at})
Kept     == {r \in rows : Newer(r) <= MaxRollbacks - rollbacks}

RowView(r) ==
  <<Newer(r), r.snap, r.restores, r.said, pending[r.msg] = Idle>>

AnsweredView(at) ==
  CASE at = 0 -> 0
    [] \E r \in rows : r.at = at /\ NewestRow(r) -> 1
    [] OTHER -> 2

TurnView(m) == <<[pending[m] EXCEPT !.answered = AnsweredView(@)], HasRow(m)>>

MCView ==
  IF part = "turns" THEN <<part, vars>>
  ELSE <<part, {RowView(r) : r \in Kept}, {TurnView(m) : m \in InFlight},
         columns, rollbacks, broken>>

allVars == <<part, vars, onboardingVars>>

\* Of the turns' part one initial state is enough where it does not run.
MCInit ==
  /\ part \in {"turns", "onboarding"}
  /\ Init /\ OnboardingInit
  /\ part = "onboarding" => onboarded /\ msgOf = [j \in Jobs |-> m1]

\* No worker dies here: a job that is run again after a crash may undo a turn the
\* parent was told of, so the promise is not claimed of it.  MCTurns has the crashes.
TurnsNext ==
  \/ \E j \in Jobs : Arrive(j) \/ Step(j)
  \/ \E m \in Msgs : Expire(m)

MCNext ==
  /\ UNCHANGED part
  /\ \/ part = "turns" /\ TurnsNext /\ UNCHANGED onboardingVars
     \/ part = "onboarding" /\ OnboardingNext /\ UNCHANGED vars

\* A job that has not arrived owes no step: the fairness of the turns asks
\* nothing of the onboarding.
MCSpec == MCInit /\ [][MCNext]_allVars /\ Fairness
=============================================================================
