------------------------------ MODULE MCUsers ------------------------------
(* A small instance of what users/ keeps and serves.  The three parts share *)
(* no state here: a behaviour is one of the accounts and their copies, of a *)
(* student's active time, or of the traction series.                        *)
EXTENDS UserDirectory, UsageTime, Traction

CONSTANTS u1, u2, p1, p2

VARIABLE part

others  == <<usageVars, tractionVars>>
allVars == <<part, vars, others>>

\* One account, with an id and a number left for a newcomer or for a change of
\* number, or two accounts, one referred by the other.
Accounts ==
  \/ /\ rows[u1] # Null /\ rows[u1].phone = p1 /\ ~rows[u1].consent
     /\ rows[u2] = Null
  \/ /\ rows[u1] # Null /\ rows[u2] # Null
     /\ rows[u1].phone = p1 /\ rows[u2].phone = p2
     /\ rows[u1].consent /\ ~rows[u2].consent /\ rows[u2].by = u1

\* Of the other parts' behaviours one initial state of the accounts is enough.
MCInit ==
  /\ part \in {"accounts", "usage", "traction"}
  /\ Init
  /\ IF part = "accounts" THEN Accounts ELSE Living = {}
  /\ UsageInit /\ TractionInit

MCNext ==
  /\ UNCHANGED part
  /\ \/ part = "accounts" /\ Next /\ UNCHANGED others
     \/ part = "usage" /\ UsageNext /\ UNCHANGED <<vars, tractionVars>>
     \/ part = "traction" /\ TractionNext /\ UNCHANGED <<vars, usageVars>>

MCSpec == MCInit /\ [][MCNext]_allVars

\* The inbound jobs are alike, and so are students and processes.
Alike == Permutations(Workers) \cup Permutations(Students) \cup Permutations(Processes)
=============================================================================
