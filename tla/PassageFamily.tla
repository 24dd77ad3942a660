----------------------------- MODULE PassageFamily -----------------------------
(***************************************************************************)
(* Reading passages with their question, options, explanations, flow and    *)
(* audio: the requests that generate or upload them, the three gates that   *)
(* ask a language model about them, the insert of the family, the           *)
(* dashboard's deletions and the script that judges the live passages again.*)
(***************************************************************************)
EXTENDS Naturals

CONSTANTS Families,   \* families that may be created
          Inputs,     \* the choices of what the families are like
          Required,   \* per gate, the valid runs a verdict is computed over
          MaxCalls,   \* per gate, its budget of calls
          PassTrue,   \* votes that pass the quality gate
          RejectRight,\* right picks without the passage that fail the question
          CallTries,  \* attempts of one call, of which retriable errors use one each
          MaxDeletes, \* bound: deletions from the dashboard
          MaxSweeps,  \* bound: runs of the script
          NoFamily

Gates == {"quality", "judge", "solvability"}
Roles == {"passage", "question", "option", "explanation", "flow", "audio"}

ASSUME PassageAssumption ==
  /\ Inputs \subseteq [Families -> [origin : {"llm", "manual", "earlier"},
                                    short : BOOLEAN, narrative : BOOLEAN, flow : BOOLEAN]]
  /\ Required \in [Gates -> Nat \ {0}] /\ MaxCalls \in [Gates -> Nat \ {0}]
  /\ \A g \in Gates : Required[g] <= MaxCalls[g]
  /\ PassTrue \in Nat /\ RejectRight \in Nat /\ CallTries \in Nat \ {0}
  /\ MaxDeletes \in Nat /\ MaxSweeps \in Nat /\ NoFamily \notin Families

VARIABLES input,    \* what the families are like
          req,      \* what the request of a family is at
          tally,    \* the verdicts' runs, kept on the rows
          failure,  \* the gate that failed the family, or "none"
          row,      \* the rows of a family: "none", "live" or "rolled" back
          quality,  \* the verdict on the passage row
          deletion, \* what the dashboard's deletion of a family is at
          deletes,
          sweep,    \* what the script is at
          sweeps

familyVars == <<input, req, tally, failure, row, quality, deletion, deletes, sweep, sweeps>>
content    == <<input, tally, failure>>
others     == <<deletion, deletes, sweep, sweeps>>

NoRuns     == [issued |-> 0, valid |-> 0, good |-> 0, try |-> 1]
Earlier(f) == input[f].origin = "earlier"  \* created before there was a quality gate

\* The rows that reach their parent, a row included, over input_media_id.
Below == [x \in Roles |-> CASE x = "passage"     -> Roles
                            [] x = "question"    -> Roles \ {"passage"}
                            [] x = "option"      -> {"option", "explanation", "audio"}
                            [] x = "explanation" -> {"explanation", "audio"}
                            [] OTHER             -> {x}]

RolesOf(f) == Roles \ (IF input[f].flow THEN {"audio"} ELSE {"audio", "flow"})
RowsAs(f, state) == [x \in Roles |-> IF x \in RolesOf(f) THEN state ELSE "none"]
Live(f) == row[f]["passage"] = "live"

FamilyInit ==
  /\ input \in Inputs
  /\ req = [f \in Families |-> [at |-> IF Earlier(f) THEN "created" ELSE "idle", runs |-> NoRuns]]
  /\ row = [f \in Families |-> IF Earlier(f) THEN RowsAs(f, "live") ELSE [x \in Roles |-> "none"]]
  /\ tally = [f \in Families |-> [g \in Gates |-> NoRuns]]
  /\ failure = [f \in Families |-> "none"] /\ quality = [f \in Families |-> "none"]
  /\ deletion = [family |-> NoFamily, todo |-> {}] /\ deletes = 0
  /\ sweep = [at |-> "idle", family |-> NoFamily, todo |-> {}, runs |-> NoRuns] /\ sweeps = 0

-----------------------------------------------------------------------------
(* One call of a gate, and the verdict.                                      *)

Passes(g, runs) == CASE g = "quality"     -> runs.good >= PassTrue
                     [] g = "judge"       -> runs.good = runs.valid
                     [] g = "solvability" -> runs.good < RejectRight

CountedIfParsed(runs, answer) ==
  [issued |-> IF answer = "unparseable" THEN runs.issued ELSE runs.issued + 1,
   valid  |-> runs.valid + (IF answer \in {"good", "bad"} THEN 1 ELSE 0),
   good   |-> runs.good + (IF answer = "good" THEN 1 ELSE 0), try |-> 1]
\* A call uses up the budget whatever comes of it; only a parsed answer is valid.
Counted(runs, answer) ==
  [issued |-> runs.issued + 1,
   valid  |-> runs.valid + (IF answer \in {"good", "bad"} THEN 1 ELSE 0),
   good   |-> runs.good + (IF answer = "good" THEN 1 ELSE 0), try |-> 1]

\* What the runs of gate g become by one attempt: an answer, a retriable error that is
\* tried again, or the failure of the call.
Attempt(g, runs) ==
  {Counted(runs, answer) : answer \in {"good", "bad", "unparseable", "failed"}}
    \cup (IF runs.try < CallTries THEN {[runs EXCEPT !.try = @ + 1]} ELSE {})

GoesOn(g, runs) == runs.valid < Required[g] /\ runs.issued < MaxCalls[g]
VerdictOfAny(g, runs) == IF Passes(g, runs) THEN "pass" ELSE "fail"
\* collectValidRuns and the gates: a verdict needs exactly the required valid runs.
Verdict(g, runs) ==
  IF runs.valid < Required[g] THEN "unverified" ELSE IF Passes(g, runs) THEN "pass" ELSE "fail"

Applies(f, g) == CASE g = "quality"     -> TRUE
                   [] g = "judge"       -> ~input[f].short
                   [] g = "solvability" -> ~input[f].short /\ input[f].narrative

\* Where a family goes after gate g has passed it.
Following(f, g) ==
  CASE g = "quality" /\ Applies(f, "judge")     -> "judge"
    [] g = "judge" /\ Applies(f, "solvability") -> "solvability"
    [] OTHER                                    -> "insert"

-----------------------------------------------------------------------------
(* createLlmGeneratedMedia, createManualPassageMedia and what they share.    *)

Go(f, at) == req' = [req EXCEPT ![f] = [at |-> at, runs |-> NoRuns]]

Begin(f) ==
  /\ req[f].at = "idle" /\ Go(f, IF input[f].origin = "llm" THEN "generate" ELSE "find")
  /\ UNCHANGED <<content, row, quality, others>>

\* The model's completion, which may fail or not be valid content.
Generate(f) ==
  /\ req[f].at = "generate" /\ \E at \in {"quality", "rejected", "failed"} : Go(f, at)
  /\ UNCHANGED <<content, row, quality, others>>

\* Content that is not valid, or the text of a live passage, is rejected.
Find(f) ==
  /\ req[f].at = "find" /\ \E at \in {"quality", "rejected"} : Go(f, at)
  /\ UNCHANGED <<content, row, quality, others>>

\* One attempt of one call of the gate the family is at.  Without a verdict nothing is
\* kept; a family that fails is inserted as deleted.
Ask(f) ==
  LET g == req[f].at IN
  /\ g \in Gates
  /\ \E runs \in Attempt(g, req[f].runs) :
       IF GoesOn(g, runs)
       THEN /\ req' = [req EXCEPT ![f].runs = runs] /\ UNCHANGED <<tally, failure>>
       ELSE /\ tally' = [tally EXCEPT ![f][g] = runs]
            /\ failure' = [failure EXCEPT ![f] = IF Verdict(g, runs) = "fail" THEN g ELSE @]
            /\ Go(f, CASE Verdict(g, runs) = "unverified" -> "rejected"
                       [] Verdict(g, runs) = "fail"       -> "insert"
                       [] Verdict(g, runs) = "pass"       -> Following(f, g))
  /\ UNCHANGED <<input, row, quality, others>>

\* The rows in one transaction, which may fail.
Insert(f) ==
  LET state == IF failure[f] = "none" THEN "live" ELSE "rolled" IN
  /\ req[f].at = "insert"
  /\ \/ /\ row' = [row EXCEPT ![f] = RowsAs(f, state)]
        /\ quality' = [quality EXCEPT ![f] = IF failure[f] = "quality" THEN "fail" ELSE "pass"]
        /\ Go(f, IF state = "live" THEN "audio" ELSE "rejected")
     \/ Go(f, "failed") /\ UNCHANGED <<row, quality>>
  /\ UNCHANGED <<content, others>>

\* Rows for the explanations' audio, after and apart from the family.
AddAudio(f) ==
  /\ req[f].at = "audio" /\ Go(f, "created")
  /\ row' \in {row, [row EXCEPT ![f]["audio"] = "live"]}
  /\ UNCHANGED <<content, quality, others>>

-----------------------------------------------------------------------------
(* The dashboard: markRolledBack and deleteByStateTransitionId.              *)

OnlyItself(f, x) == [row EXCEPT ![f][x] = "rolled"]
\* markRolledBack of a row: it and the live rows below it.
RolledBack(f, x) ==
  [row EXCEPT ![f] = [y \in Roles |-> IF y \in Below[x] /\ @[y] = "live" THEN "rolled" ELSE @[y]]]

DeleteRow(f, x) ==
  /\ row[f][x] # "none" /\ deletes < MaxDeletes /\ deletes' = deletes + 1
  /\ row' = RolledBack(f, x)
  /\ UNCHANGED <<content, req, quality, deletion, sweep, sweeps>>

\* By the stid of the flow: every row of the family, from the leaves to the passage.
DeleteFamily(f) ==
  /\ deletion.family = NoFamily /\ deletes < MaxDeletes /\ deletes' = deletes + 1
  /\ row[f]["flow"] = "live"
  /\ deletion' = [family |-> f, todo |-> {x \in Roles : row[f][x] # "none"}]
  /\ UNCHANGED <<content, req, row, quality, sweep, sweeps>>

\* One row after the other; a rollback that fails is passed over.
DeleteNext ==
  \E x \in deletion.todo :
    /\ Below[x] \cap deletion.todo = {x}
    /\ deletion' = IF deletion.todo = {x} THEN [family |-> NoFamily, todo |-> {}]
                                      ELSE [deletion EXCEPT !.todo = @ \ {x}]
    /\ row' \in {row, RolledBack(deletion.family, x)}
    /\ UNCHANGED <<content, req, quality, deletes, sweep, sweeps>>

-----------------------------------------------------------------------------
(* sweepPassageQuality, in its mode execute.                                 *)

SweepTo(at, f, runs) == sweep' = [sweep EXCEPT !.at = at, !.family = f, !.runs = runs]
unswept == <<content, req, row, quality, deletion, deletes>>

BeginSweep ==
  /\ sweep.at \in {"idle", "ended", "died"} /\ sweeps < MaxSweeps /\ sweeps' = sweeps + 1
  /\ sweep' = [at |-> "next", family |-> NoFamily, runs |-> NoRuns, todo |-> {f \in Families : Live(f)}]
  /\ UNCHANGED unswept

ReusedIsDone(f) == IF quality[f] \in {"pass", "fail"} THEN "next" ELSE "judge"
\* A stored pass or fail is taken as it is; no verdict, or unverified, is judged again.
Reused(f) == CASE quality[f] = "pass" -> "next"
               [] quality[f] = "fail" -> "roll"
               [] OTHER               -> "judge"

SweepNext ==
  /\ sweep.at = "next"
  /\ IF sweep.todo = {} THEN SweepTo("ended", NoFamily, NoRuns)
     ELSE \E f \in sweep.todo :
            sweep' = [sweep EXCEPT !.at = Reused(f), !.family = f, !.todo = @ \ {f}]
  /\ UNCHANGED <<unswept, sweeps>>

SweepAsk ==
  /\ sweep.at = "judge"
  /\ \E runs \in Attempt("quality", sweep.runs) :
       SweepTo(IF GoesOn("quality", runs) THEN "judge" ELSE "record", sweep.family, runs)
  /\ UNCHANGED <<unswept, sweeps>>

\* recordPassageQuality.
SweepRecord ==
  LET verdict == Verdict("quality", sweep.runs) IN
  /\ sweep.at = "record"
  /\ quality' = [quality EXCEPT ![sweep.family] = verdict]
  /\ SweepTo(IF verdict = "fail" THEN "roll" ELSE "next", sweep.family, NoRuns)
  /\ UNCHANGED <<content, req, row, deletion, deletes, sweeps>>

SweepRoll ==
  /\ sweep.at = "roll" /\ row' = RolledBack(sweep.family, "passage")
  /\ SweepTo("next", sweep.family, NoRuns)
  /\ UNCHANGED <<content, req, quality, deletion, deletes, sweeps>>

\* A statement that throws, or a script that is stopped.
SweepDies ==
  /\ sweep.at \in {"next", "judge", "record", "roll"} /\ SweepTo("died", NoFamily, NoRuns)
  /\ UNCHANGED <<unswept, sweeps>>

-----------------------------------------------------------------------------
RequestStep(f) == Generate(f) \/ Find(f) \/ Ask(f) \/ Insert(f) \/ AddAudio(f)

FamilyNext ==
  \/ \E f \in Families : Begin(f) \/ RequestStep(f) \/ DeleteFamily(f)
  \/ \E f \in Families, x \in Roles : DeleteRow(f, x)
  \/ DeleteNext
  \/ BeginSweep \/ SweepNext \/ SweepAsk \/ SweepRecord \/ SweepRoll \/ SweepDies

\* A request that has begun goes on: every call of the language model has a time cap.
FamilySpec ==
  /\ FamilyInit /\ [][FamilyNext]_familyVars
  /\ \A f \in Families : WF_familyVars(RequestStep(f))

-----------------------------------------------------------------------------
\* A passage that lessons may pick has passed every gate that applies to it, each over
\* exactly the required number of valid runs and within its budget.
LiveIsVetted ==
  \A f \in Families : Live(f) /\ ~Earlier(f) =>
    \A g \in Gates : Applies(f, g) =>
      /\ tally[f][g].valid = Required[g] /\ tally[f][g].issued <= MaxCalls[g]
      /\ Passes(g, tally[f][g])

\* However often the script died between noting a verdict and acting on it, once it ran
\* to its end no passage noted as failed is live ("re-runs reuse stored verdicts",
\* media-meta-data.service.ts:1973).
SweptClean ==
  sweep.at = "ended" => \A f \in Families : quality[f] = "fail" => ~Live(f)

\* "rolled_back IS the delete": no live row is left below a deleted one, but for audio
\* rows that came after the deletion.
DeletedTogether ==
  \A f \in Families, x \in Roles :
    row[f][x] = "rolled" => \A y \in Below[x] \ {"audio"} : row[f][y] # "live"

\* Gates stop asking: every request comes to an answer.
EveryRequestEnds ==
  \A f \in Families :
    req[f].at # "idle" ~> req[f].at \in {"created", "rejected", "failed"}
=============================================================================
