------------------------------- MODULE MCTurns -------------------------------
(* Small instances of the two ways a lesson is answered, with attempts that *)
(* fail: one voice note whose worker may die at any await, and two taps.    *)
(* They share no state here: a behaviour is one of the two.                 *)
EXTENDS InboundTurn, TapTurn

CONSTANTS j1, m1

VARIABLE part

MCJobs   == {j1}
MCMsgs   == {m1}
MCOneJob == {[j \in MCJobs |-> m1]}
MCAges   == {8}
MCMonths == {3}

allVars == <<part, vars, tapVars>>

MCInit ==
  /\ part \in {"voice", "tap"}
  /\ Init /\ TapInit
  /\ part = "tap" => onboarded
  /\ part = "voice" => steps = {Asks(1, 0)}

MCNext ==
  /\ UNCHANGED part
  /\ \/ part = "voice" /\ Next /\ UNCHANGED tapVars
     \/ part = "tap" /\ TapNext /\ UNCHANGED vars

MCFairness == \A j \in Jobs : WF_allVars(part = "voice" /\ Step(j) /\ UNCHANGED <<part, tapVars>>)

MCSpec == MCInit /\ [][MCNext]_allVars /\ MCFairness
=============================================================================
