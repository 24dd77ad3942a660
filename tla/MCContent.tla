------------------------------ MODULE MCContent ------------------------------
(* What lessons are made of: the media of a stid, with the report cards, and the
   passages with their gates, deletions and sweeps.  The two share no state here:
   a behaviour is one of the media or one of the passages. *)
EXTENDS MorningUpdate, PassageFamily, TLC

CONSTANTS r1, r2

VARIABLE part

Pairs(K) == {[r \in Rows |-> IF r = r1 THEN k[1] ELSE k[2]] : k \in K}

\* A picture or a generated recording beside the drill word, and the report cards.
MCKinds == Pairs({<<"picture", "auto">>, <<"tts", "auto">>, <<"report", "report">>})

\* Uploads and generated files that the sweep looks after, and a report card.
ReloadKinds == Pairs({<<"picture", "recording">>, <<"tts", "text">>, <<"video", "text">>,
                      <<"report", "text">>})

\* A generic text beside the stid's own.
SwitchKinds == Pairs({<<"text", "text">>})

Symmetry == Permutations(Readers)

Story    == [origin |-> "llm", short |-> FALSE, narrative |-> TRUE, flow |-> TRUE]
Informs  == [origin |-> "manual", short |-> FALSE, narrative |-> FALSE, flow |-> TRUE]
Short    == [origin |-> "manual", short |-> TRUE, narrative |-> TRUE, flow |-> FALSE]
Older    == [origin |-> "earlier", short |-> FALSE, narrative |-> TRUE, flow |-> TRUE]

MCInputs == [Families -> {Story, Informs, Short, Older}]

\* The gates' requirements and budgets are 5 of 8, 10 of 14 and 24 of 50 in the code.
MCRequired == [g \in Gates |-> 3]
MCMaxCalls == [g \in Gates |-> IF g = "solvability" THEN 5 ELSE 4]

allVars == <<part, allvars, familyVars>>

\* A send job has something to do only where the rows may be cards.
MCInit ==
  /\ part \in {"media", "passages"}
  /\ Init /\ FamilyInit
  /\ IF part = "media" THEN input = [f \in Families |-> Short]
     ELSE kind = CHOOSE k \in Kinds : TRUE
  /\ IF part = "media" /\ \E r \in Rows : kind[r] = "report" THEN SendInit
     ELSE send = [p \in Senders |-> [at |-> "done", try |-> 1, row |-> Null]]

MCNext ==
  /\ UNCHANGED part
  /\ \/ part = "media" /\ MorningNext /\ UNCHANGED familyVars
     \/ part = "passages" /\ FamilyNext /\ UNCHANGED allvars

MCSpec ==
  /\ MCInit /\ [][MCNext]_allVars
  /\ Fairness /\ \A p \in Senders : WF_allvars(SendStep(p))
  /\ \A f \in Families : WF_familyVars(RequestStep(f))
=============================================================================
