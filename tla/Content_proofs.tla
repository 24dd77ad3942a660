---------------------------- MODULE Content_proofs ----------------------------
(***************************************************************************)
(* What holds of the content: of the families of passages for any families, *)
(* gates' numbers of runs and budgets, deletions and runs of the script; of *)
(* the rows, what makes them and the morning's cards for any rows, makers,  *)
(* readers and jobs.                                                        *)
(***************************************************************************)
EXTENDS MorningUpdate, PassageFamily, FiniteSetTheorems, WellFoundedInduction, TLAPS

-----------------------------------------------------------------------------
(* The families of passages.                                               *)

Runs == [issued : Nat, valid : Nat, good : Nat, try : Nat]

\* Where a request may be before its family is inserted, and after.
Vetting  == {"idle", "generate", "find", "insert"} \cup Gates
Answered == {"audio", "created", "rejected", "failed"}

TypesOK ==
  /\ input \in Inputs
  /\ req \in [Families -> [at : Vetting \cup Answered, runs : Runs]]
  /\ tally \in [Families -> [Gates -> Runs]]
  /\ failure \in [Families -> Gates \cup {"none"}]
  /\ row \in [Families -> [Roles -> {"none", "live", "rolled"}]]
  /\ quality \in [Families -> {"none", "pass", "fail", "unverified"}]
  /\ deletion \in [family : Families \cup {NoFamily}, todo : SUBSET Roles]
  /\ deletion.todo # {} => deletion.family \in Families
  /\ sweep \in [at : {"idle", "next", "judge", "record", "roll", "ended", "died"},
                family : Families \cup {NoFamily}, todo : SUBSET Families, runs : Runs]
  /\ sweep.at \in {"judge", "record", "roll"} => sweep.family \in Families

\* Gate g passed the family, over the runs it asks for and within its budget.
Vetted(f, g) ==
  /\ tally[f][g].valid = Required[g] /\ tally[f][g].issued <= MaxCalls[g]
  /\ Passes(g, tally[f][g])

AllVetted(f) == \A g \in Gates : Applies(f, g) => Vetted(f, g)

\* What a request knows of its family at each of its points.
VettingOf(f) ==
  /\ req[f].at \in Vetting \ {"insert"} => failure[f] = "none"
  /\ req[f].at \in Gates => GoesOn(req[f].at, req[f].runs)
  /\ req[f].at \in {"judge", "solvability"} => Vetted(f, "quality")
  /\ req[f].at = "solvability" => Vetted(f, "judge")
  /\ req[f].at = "insert" /\ failure[f] = "none" => AllVetted(f)
  /\ req[f].at \in Vetting => \A x \in Roles : row[f][x] = "none"
  /\ Live(f) => AllVetted(f)

VettedInv == \A f \in Families : ~Earlier(f) => VettingOf(f)

\* A passage noted as failed and still live is one the script has yet to come to,
\* unless it has not been run to its end.
Unswept(f) ==
  \/ sweep.at \in {"idle", "died"} \/ f \in sweep.todo
  \/ sweep.family = f /\ sweep.at \in {"judge", "record", "roll"}

SweptInv == \A f \in Families : quality[f] = "fail" /\ Live(f) => Unswept(f)

-----------------------------------------------------------------------------
(* The tree of a family.                                                   *)

\* What is below a row includes it and what is below the rows below it.
LEMMA BelowNested ==
  ASSUME NEW x \in Roles
  PROVE  /\ x \in Below[x] /\ Below[x] \subseteq Roles
         /\ \A y \in Below[x] : Below[y] \subseteq Below[x]
         /\ x = "passage" => Below[x] = Roles
BY DEF Below, Roles

\* The rows of a family as they are inserted.
LEMMA RowsAsType ==
  ASSUME NEW f \in Families, NEW state \in {"live", "rolled"}
  PROVE  /\ RowsAs(f, state) \in [Roles -> {"none", "live", "rolled"}]
         /\ \A x \in Roles : RowsAs(f, state)[x] \in {"none", state}
BY DEF RowsAs

\* A rollback takes the live rows below a row, and changes nothing else.
LEMMA RolledBackRows ==
  ASSUME TypesOK, NEW f \in Families, NEW x \in Roles, row' = RolledBack(f, x)
  PROVE  /\ row' \in [Families -> [Roles -> {"none", "live", "rolled"}]]
         /\ \A h \in Families \ {f} : row'[h] = row[h]
         /\ \A y \in Roles : row'[f][y] =
              IF y \in Below[x] /\ row[f][y] = "live" THEN "rolled" ELSE row[f][y]
BY DEF RolledBack, TypesOK

\* Where the actions that write rows leave those of each family: as they were, freshly
\* inserted, with an audio row more, or rolled back from some row downwards.
RowsAfter(f) ==
  \/ row'[f] = row[f]
  \/ /\ req[f].at = "insert"
     /\ row'[f] = RowsAs(f, IF failure[f] = "none" THEN "live" ELSE "rolled")
     /\ quality' = [quality EXCEPT ![f] = IF failure[f] = "quality" THEN "fail" ELSE "pass"]
  \/ req[f].at = "audio" /\ row'[f] = [row[f] EXCEPT !["audio"] = "live"]
     /\ UNCHANGED quality
  \/ /\ UNCHANGED quality
     /\ \E x \in Roles : \A y \in Roles : row'[f][y] =
          IF y \in Below[x] /\ row[f][y] = "live" THEN "rolled" ELSE row[f][y]

\* Every step leaves rows of each family in one of these ways.
LEMMA RowsStep ==
  ASSUME TypesOK, FamilyNext
  PROVE  /\ row' \in [Families -> [Roles -> {"none", "live", "rolled"}]]
         /\ \A f \in Families : RowsAfter(f)
<1> DEFINE G == /\ row' \in [Families -> [Roles -> {"none", "live", "rolled"}]]
                /\ \A f \in Families : RowsAfter(f)
<1>1. ASSUME UNCHANGED row PROVE G
  BY <1>1 DEF RowsAfter, TypesOK
<1>2. ASSUME NEW f \in Families, NEW x \in Roles, row' = RolledBack(f, x), UNCHANGED quality
      PROVE  G
  BY <1>2, RolledBackRows DEF RowsAfter
<1>3. ASSUME NEW f \in Families, Insert(f), row' # row PROVE G
  <2> DEFINE state == IF failure[f] = "none" THEN "live" ELSE "rolled"
  <2>1. /\ row' = [row EXCEPT ![f] = RowsAs(f, state)] /\ req[f].at = "insert"
        /\ quality' = [quality EXCEPT ![f] = IF failure[f] = "quality" THEN "fail" ELSE "pass"]
    BY <1>3 DEF Insert
  <2>2. RowsAs(f, state) \in [Roles -> {"none", "live", "rolled"}]
    BY RowsAsType
  <2>3. /\ row' \in [Families -> [Roles -> {"none", "live", "rolled"}]]
        /\ row'[f] = RowsAs(f, state) /\ \A h \in Families \ {f} : row'[h] = row[h]
    BY <2>1, <2>2 DEF TypesOK
  <2> QED BY <2>1, <2>3 DEF RowsAfter
<1>4. ASSUME NEW f \in Families, AddAudio(f), row' # row PROVE G
  <2>1. /\ row' = [row EXCEPT ![f]["audio"] = "live"] /\ req[f].at = "audio"
        /\ UNCHANGED quality
    BY <1>4 DEF AddAudio
  <2>2. /\ row' \in [Families -> [Roles -> {"none", "live", "rolled"}]]
        /\ row'[f] = [row[f] EXCEPT !["audio"] = "live"]
        /\ \A h \in Families \ {f} : row'[h] = row[h]
    BY <2>1 DEF TypesOK
  <2> QED BY <2>1, <2>2 DEF RowsAfter
<1>5. ASSUME DeleteNext PROVE G
  <2>1. PICK x \in deletion.todo : /\ row' \in {row, RolledBack(deletion.family, x)}
                                   /\ UNCHANGED quality
    BY <1>5 DEF DeleteNext
  <2>2. deletion.family \in Families /\ x \in Roles
    BY DEF TypesOK
  <2> QED BY <1>1, <1>2, <2>1, <2>2
<1>6. ASSUME SweepRoll PROVE G
  <2>1. row' = RolledBack(sweep.family, "passage") /\ UNCHANGED quality /\ sweep.at = "roll"
    BY <1>6 DEF SweepRoll
  <2>2. sweep.family \in Families /\ "passage" \in Roles
    BY <2>1 DEF Roles, TypesOK
  <2> QED BY <1>2, <2>1, <2>2
<1>7. ASSUME NEW f \in Families, NEW x \in Roles, DeleteRow(f, x) PROVE G
  BY <1>2, <1>7 DEF DeleteRow
<1> HIDE DEF G
<1>8. G
  <2>1. ASSUME NEW f \in Families,
               Begin(f) \/ Generate(f) \/ Find(f) \/ Ask(f) \/ DeleteFamily(f)
        PROVE  UNCHANGED row
    BY <2>1 DEF Begin, Generate, Find, Ask, DeleteFamily
  <2>2. BeginSweep \/ SweepNext \/ SweepAsk \/ SweepRecord \/ SweepDies => UNCHANGED row
    BY DEF BeginSweep, SweepNext, SweepAsk, SweepRecord, SweepDies, unswept
  <2>3. UNCHANGED row => G
    BY <1>1 DEF G
  <2>4. ASSUME NEW f \in Families, Begin(f) \/ RequestStep(f) \/ DeleteFamily(f) PROVE G
    BY <1>3, <1>4, <2>1, <2>3, <2>4 DEF RequestStep
  <2> QED BY <1>5, <1>6, <1>7, <2>2, <2>3, <2>4 DEF FamilyNext
<1> QED BY <1>8 DEF G

-----------------------------------------------------------------------------
(* Types.                                                                  *)

\* An attempt of a call leaves runs that count what was asked.
LEMMA AttemptType ==
  ASSUME NEW g \in Gates, NEW runs \in Runs, NEW after \in Attempt(g, runs)
  PROVE  /\ after \in Runs
         /\ after.issued <= runs.issued + 1 /\ after.valid <= runs.valid + 1
<1>1. CASE \E answer \in {"good", "bad", "unparseable", "failed"} : after = Counted(runs, answer)
  BY <1>1 DEF Counted, Runs
<1>2. CASE after = [runs EXCEPT !.try = runs.try + 1]
  BY <1>2 DEF Runs
<1> QED BY <1>1, <1>2 DEF Attempt

\* What there is at the beginning.
LEMMA TypesInit == FamilyInit => TypesOK
<1> SUFFICES ASSUME FamilyInit PROVE TypesOK
  OBVIOUS
<1>1. NoRuns \in Runs
  BY DEF NoRuns, Runs
<1>2. row \in [Families -> [Roles -> {"none", "live", "rolled"}]]
  BY RowsAsType DEF FamilyInit
<1>3. /\ input \in Inputs /\ failure \in [Families -> Gates \cup {"none"}]
      /\ quality \in [Families -> {"none", "pass", "fail", "unverified"}]
      /\ req \in [Families -> [at : Vetting \cup Answered, runs : Runs]]
      /\ tally \in [Families -> [Gates -> Runs]]
  BY <1>1 DEF FamilyInit, Vetting, Answered
<1>4. /\ deletion \in [family : Families \cup {NoFamily}, todo : SUBSET Roles]
      /\ deletion.todo = {}
  BY DEF FamilyInit
<1>5. /\ sweep \in [at : {"idle", "next", "judge", "record", "roll", "ended", "died"},
                    family : Families \cup {NoFamily}, todo : SUBSET Families, runs : Runs]
      /\ sweep.at = "idle"
  BY <1>1 DEF FamilyInit
<1> QED BY <1>2, <1>3, <1>4, <1>5 DEF TypesOK

\* Sending a request on.
LEMMA GoType ==
  ASSUME TypesOK, NEW f \in Families, NEW at \in Vetting \cup Answered, Go(f, at)
  PROVE  /\ req' \in [Families -> [at : Vetting \cup Answered, runs : Runs]]
         /\ req'[f].at = at /\ req'[f].runs = NoRuns
         /\ \A h \in Families \ {f} : req'[h] = req[h]
<1>1. NoRuns \in Runs
  BY DEF NoRuns, Runs
<1> QED BY <1>1 DEF Go, TypesOK

\* Counting an attempt on the request, and keeping a gate's runs on the row.
LEMMA RunsKept ==
  ASSUME TypesOK, NEW f \in Families, NEW g \in Gates, NEW counted \in Runs
  PROVE  /\ [req EXCEPT ![f].runs = counted]
              \in [Families -> [at : Vetting \cup Answered, runs : Runs]]
         /\ [tally EXCEPT ![f][g] = counted] \in [Families -> [Gates -> Runs]]
<1>1. req \in [Families -> [at : Vetting \cup Answered, runs : Runs]]
  BY DEF TypesOK
<1>2. tally \in [Families -> [Gates -> Runs]]
  BY DEF TypesOK
<1>3. [req[f] EXCEPT !.runs = counted] \in [at : Vetting \cup Answered, runs : Runs]
  BY <1>1
<1>4. [tally[f] EXCEPT ![g] = counted] \in [Gates -> Runs]
  BY <1>2
<1> QED BY <1>1, <1>2, <1>3, <1>4

\* The requests.
LEMMA RequestType ==
  ASSUME TypesOK, NEW f \in Families, Begin(f) \/ RequestStep(f)
  PROVE  /\ input' \in Inputs
         /\ req' \in [Families -> [at : Vetting \cup Answered, runs : Runs]]
         /\ tally' \in [Families -> [Gates -> Runs]]
         /\ failure' \in [Families -> Gates \cup {"none"}]
         /\ quality' \in [Families -> {"none", "pass", "fail", "unverified"}]
         /\ UNCHANGED others
<1>1. CASE Begin(f) \/ Generate(f) \/ Find(f)
  <2>1. /\ \E at \in Vetting \cup Answered : Go(f, at)
        /\ UNCHANGED <<content, row, quality, others>>
    BY <1>1 DEF Begin, Generate, Find, Vetting, Answered, Gates
  <2> QED BY <2>1, GoType DEF TypesOK, content
<1>2. CASE Insert(f) \/ AddAudio(f)
  <2>1. /\ \E at \in Vetting \cup Answered : Go(f, at)
        /\ UNCHANGED <<content, others>>
    BY <1>2 DEF Insert, AddAudio, Vetting, Answered
  <2>2. quality' \in [Families -> {"none", "pass", "fail", "unverified"}]
    BY <1>2 DEF Insert, AddAudio, TypesOK
  <2> QED BY <2>1, <2>2, GoType DEF TypesOK, content
<1>3. CASE Ask(f)
  <2>1. PICK g \in Gates : g = req[f].at
    BY <1>3 DEF Ask
  <2>2. req[f].runs \in Runs
    BY DEF TypesOK
  <2>3. PICK runs \in Attempt(g, req[f].runs) :
          IF GoesOn(g, runs)
          THEN /\ req' = [req EXCEPT ![f].runs = runs] /\ UNCHANGED <<tally, failure>>
          ELSE /\ tally' = [tally EXCEPT ![f][g] = runs]
               /\ failure' = [failure EXCEPT ![f] = IF Verdict(g, runs) = "fail" THEN g ELSE @]
               /\ Go(f, CASE Verdict(g, runs) = "unverified" -> "rejected"
                          [] Verdict(g, runs) = "fail"       -> "insert"
                          [] Verdict(g, runs) = "pass"       -> Following(f, g))
    BY <1>3, <2>1 DEF Ask
  <2>4. runs \in Runs
    BY <2>2, <2>3, AttemptType
  <2>5. UNCHANGED <<input, quality, others>>
    BY <1>3 DEF Ask
  <2>6. CASE GoesOn(g, runs)
    <3>1. req' = [req EXCEPT ![f].runs = runs] /\ UNCHANGED <<tally, failure>>
      BY <2>3, <2>6
    <3>2. req' \in [Families -> [at : Vetting \cup Answered, runs : Runs]]
      BY <2>4, <3>1, RunsKept
    <3> QED BY <2>5, <3>1, <3>2 DEF TypesOK
  <2>7. CASE ~GoesOn(g, runs)
    <3>1. \E at \in Vetting \cup Answered : Go(f, at)
      <4>1. Verdict(g, runs) \in {"unverified", "fail", "pass"}
        BY DEF Verdict
      <4>2. Following(f, g) \in {"judge", "solvability", "insert"}
        BY DEF Following
      <4>3. Go(f, "rejected") \/ Go(f, "insert") \/ Go(f, Following(f, g))
        BY <2>3, <2>7, <4>1
      <4>4. {"rejected", "insert", Following(f, g)} \subseteq Vetting \cup Answered
        BY <4>2 DEF Vetting, Answered, Gates
      <4> QED BY <4>3, <4>4
    <3>2. tally' \in [Families -> [Gates -> Runs]]
      <4>1. tally' = [tally EXCEPT ![f][g] = runs]
        BY <2>3, <2>7
      <4> QED BY <2>4, <4>1, RunsKept
    <3>3. failure' \in [Families -> Gates \cup {"none"}]
      BY <2>3, <2>7 DEF TypesOK
    <3> QED BY <2>5, <3>1, <3>2, <3>3, GoType DEF TypesOK
  <2> QED BY <2>6, <2>7
<1> QED BY <1>1, <1>2, <1>3 DEF RequestStep

\* The dashboard.
LEMMA DeletionType ==
  ASSUME TypesOK, (\E f \in Families : DeleteFamily(f) \/ \E x \in Roles : DeleteRow(f, x))
                    \/ DeleteNext
  PROVE  /\ UNCHANGED <<content, req, quality, sweep>>
         /\ deletion' \in [family : Families \cup {NoFamily}, todo : SUBSET Roles]
         /\ deletion'.todo # {} => deletion'.family \in Families
<1>1. ASSUME NEW f \in Families, NEW x \in Roles, DeleteRow(f, x)
      PROVE  UNCHANGED <<content, req, quality, deletion, sweep>>
  BY <1>1 DEF DeleteRow
<1>2. ASSUME NEW f \in Families, DeleteFamily(f)
      PROVE  /\ UNCHANGED <<content, req, quality, sweep>>
             /\ deletion' \in [family : Families \cup {NoFamily}, todo : SUBSET Roles]
             /\ deletion'.family = f
  BY <1>2 DEF DeleteFamily
<1>3. CASE DeleteNext
  <2>1. PICK x \in deletion.todo :
          deletion' = IF deletion.todo = {x} THEN [family |-> NoFamily, todo |-> {}]
                      ELSE [deletion EXCEPT !.todo = @ \ {x}]
    BY <1>3 DEF DeleteNext
  <2>2. deletion.family \in Families /\ deletion.todo \subseteq Roles
    BY DEF TypesOK
  <2>3. deletion' \in [family : Families \cup {NoFamily}, todo : SUBSET Roles]
    BY <2>1, <2>2 DEF TypesOK
  <2>4. deletion'.todo # {} => deletion'.family \in Families
    BY <2>1, <2>2 DEF TypesOK
  <2>5. UNCHANGED <<content, req, quality, sweep>>
    BY <1>3 DEF DeleteNext
  <2> QED BY <2>3, <2>4, <2>5
<1> QED BY <1>1, <1>2, <1>3 DEF TypesOK

\* The script.
LEMMA SweepType ==
  ASSUME TypesOK, BeginSweep \/ SweepNext \/ SweepAsk \/ SweepRecord \/ SweepRoll \/ SweepDies
  PROVE  /\ UNCHANGED <<content, req, deletion>>
         /\ quality' \in [Families -> {"none", "pass", "fail", "unverified"}]
         /\ sweep' \in [at : {"idle", "next", "judge", "record", "roll", "ended", "died"},
                        family : Families \cup {NoFamily}, todo : SUBSET Families, runs : Runs]
         /\ sweep'.at \in {"judge", "record", "roll"} => sweep'.family \in Families
<1>0. NoRuns \in Runs /\ "quality" \in Gates
  BY DEF NoRuns, Runs, Gates
<1>1. CASE BeginSweep
  <2>1. /\ UNCHANGED <<content, req, deletion, quality>>
        /\ sweep' = [at |-> "next", family |-> NoFamily, runs |-> NoRuns,
                     todo |-> {f \in Families : Live(f)}]
    BY <1>1 DEF BeginSweep, unswept
  <2> QED BY <1>0, <2>1 DEF TypesOK
<1>2. CASE SweepNext
  <2>1. UNCHANGED <<content, req, deletion, quality>>
    BY <1>2 DEF SweepNext, unswept
  <2>2. CASE sweep' = [sweep EXCEPT !.at = "ended", !.family = NoFamily, !.runs = NoRuns]
    BY <1>0, <2>1, <2>2 DEF TypesOK
  <2>3. ASSUME NEW f \in sweep.todo,
               sweep' = [sweep EXCEPT !.at = Reused(f), !.family = f, !.todo = @ \ {f}]
        PROVE  /\ sweep' \in [at : {"idle", "next", "judge", "record", "roll", "ended", "died"},
                              family : Families \cup {NoFamily}, todo : SUBSET Families,
                              runs : Runs]
               /\ sweep'.family \in Families
    <3>1. Reused(f) \in {"next", "roll", "judge"}
      BY DEF Reused
    <3>2. f \in Families
      BY DEF TypesOK
    <3>3. sweep.todo \ {f} \in SUBSET Families
      BY DEF TypesOK
    <3> QED BY <2>3, <3>1, <3>2, <3>3 DEF TypesOK
  <2> QED BY <1>2, <2>1, <2>2, <2>3 DEF SweepNext, SweepTo, TypesOK
<1>3. CASE SweepAsk
  <2>1. PICK runs \in Attempt("quality", sweep.runs), at \in {"judge", "record"} :
          sweep' = [sweep EXCEPT !.at = at, !.family = sweep.family, !.runs = runs]
    BY <1>3 DEF SweepAsk, SweepTo
  <2>2. sweep.runs \in Runs /\ sweep.family \in Families
    BY <1>3 DEF TypesOK, SweepAsk
  <2>3. runs \in Runs
    BY <1>0, <2>1, <2>2, AttemptType
  <2>4. UNCHANGED <<content, req, deletion, quality>>
    BY <1>3 DEF SweepAsk, unswept
  <2> QED BY <2>1, <2>2, <2>3, <2>4 DEF TypesOK
<1>4. CASE SweepRecord
  <2>1. PICK verdict \in {"unverified", "fail", "pass"} :
          verdict = Verdict("quality", sweep.runs)
    BY DEF Verdict
  <2>2. quality' = [quality EXCEPT ![sweep.family] = verdict] /\ sweep.family \in Families
    BY <1>4, <2>1 DEF SweepRecord, TypesOK
  <2>3. PICK at \in {"next", "roll"} :
          sweep' = [sweep EXCEPT !.at = at, !.family = sweep.family, !.runs = NoRuns]
    BY <1>4 DEF SweepRecord, SweepTo
  <2>4. UNCHANGED <<content, req, deletion>>
    BY <1>4 DEF SweepRecord
  <2> QED BY <1>0, <2>1, <2>2, <2>3, <2>4 DEF TypesOK
<1>5. CASE SweepRoll
  <2>1. /\ sweep' = [sweep EXCEPT !.at = "next", !.family = sweep.family, !.runs = NoRuns]
        /\ UNCHANGED <<content, req, deletion, quality>>
    BY <1>5 DEF SweepRoll, SweepTo
  <2> QED BY <1>0, <2>1 DEF TypesOK
<1>6. CASE SweepDies
  <2>1. /\ sweep' = [sweep EXCEPT !.at = "died", !.family = NoFamily, !.runs = NoRuns]
        /\ UNCHANGED <<content, req, deletion, quality>>
    BY <1>6 DEF SweepDies, SweepTo, unswept
  <2> QED BY <1>0, <2>1 DEF TypesOK
<1> QED BY <1>1, <1>2, <1>3, <1>4, <1>5, <1>6

\* Every step keeps the types.
LEMMA TypesStep ==
  ASSUME TypesOK, [FamilyNext]_familyVars
  PROVE  TypesOK'
<1>1. CASE UNCHANGED familyVars
  BY <1>1 DEF familyVars, TypesOK
<1>2. ASSUME FamilyNext, NEW f \in Families, Begin(f) \/ RequestStep(f) PROVE TypesOK'
  BY <1>2, RowsStep, RequestType DEF TypesOK, others
<1>3. ASSUME FamilyNext,
             (\E f \in Families : DeleteFamily(f) \/ \E x \in Roles : DeleteRow(f, x))
               \/ DeleteNext
      PROVE  TypesOK'
  BY <1>3, RowsStep, DeletionType DEF TypesOK, content
<1>4. ASSUME FamilyNext,
             BeginSweep \/ SweepNext \/ SweepAsk \/ SweepRecord \/ SweepRoll \/ SweepDies
      PROVE  TypesOK'
  BY <1>4, RowsStep, SweepType DEF TypesOK, content
<1>5. CASE FamilyNext
  <2> HIDE DEF FamilyNext
  <2> QED BY <1>2, <1>3, <1>4, <1>5 DEF FamilyNext
<1> QED BY <1>1, <1>5

-----------------------------------------------------------------------------
(* Deleted together.                                                       *)

\* No live row is left below a deleted one.
TreeOf(f) ==
  \A x \in Roles : row[f][x] = "rolled" =>
    \A y \in Below[x] \ {"audio"} : row[f][y] # "live"

\* Rolling back from any row downwards keeps the trees whole; so do an insert, which
\* writes rows of one state, and an audio row more.
LEMMA TreeStep ==
  ASSUME TypesOK, NEW f \in Families, RowsAfter(f), TreeOf(f)
  PROVE  TreeOf(f)'
<1>1. CASE row'[f] = row[f]
  BY <1>1 DEF TreeOf
<1>2. ASSUME NEW state \in {"live", "rolled"}, row'[f] = RowsAs(f, state)
      PROVE  TreeOf(f)'
  <2>1. \A x \in Roles : row'[f][x] \in {"none", state}
    BY <1>2, RowsAsType
  <2> QED BY <2>1, BelowNested DEF TreeOf
<1>3. CASE row'[f] = [row[f] EXCEPT !["audio"] = "live"]
  <2>1. \A x \in Roles : x # "audio" => row'[f][x] = row[f][x]
    BY <1>3 DEF TypesOK
  <2>2. row'[f]["audio"] = "live"
    BY <1>3 DEF TypesOK, Roles
  <2> QED BY <2>1, <2>2, BelowNested DEF TreeOf
<1>4. ASSUME NEW x \in Roles, \A y \in Roles : row'[f][y] =
               IF y \in Below[x] /\ row[f][y] = "live" THEN "rolled" ELSE row[f][y]
      PROVE  TreeOf(f)'
  <2> SUFFICES ASSUME NEW z \in Roles, row'[f][z] = "rolled",
                      NEW y \in Below[z] \ {"audio"}, row'[f][y] = "live"
               PROVE  FALSE
    BY DEF TreeOf
  <2>1. y \in Roles /\ row[f][y] = "live" /\ y \notin Below[x]
    BY <1>4, BelowNested
  <2>2. CASE row[f][z] = "rolled"
    BY <2>1, <2>2 DEF TreeOf
  <2>3. CASE z \in Below[x]
    BY <2>1, <2>3, BelowNested
  <2> QED BY <1>4, <2>2, <2>3
<1> QED BY <1>1, <1>2, <1>3, <1>4 DEF RowsAfter

\* Whatever deletions, sweeps and requests interleave and wherever they stop, no live
\* row is left below a deleted one, but for audio that came later.
THEOREM NothingLivesBelow == FamilySpec => []DeletedTogether
<1>1. FamilyInit => DeletedTogether
  <2> SUFFICES ASSUME FamilyInit, NEW f \in Families, NEW x \in Roles
               PROVE  row[f][x] # "rolled"
    BY DEF DeletedTogether
  <2> QED BY RowsAsType DEF FamilyInit
<1>2. TypesOK /\ DeletedTogether /\ [FamilyNext]_familyVars => DeletedTogether'
  <2> SUFFICES ASSUME TypesOK, DeletedTogether, [FamilyNext]_familyVars
               PROVE  DeletedTogether'
    OBVIOUS
  <2>1. CASE UNCHANGED familyVars
    BY <2>1 DEF familyVars, DeletedTogether
  <2>2. CASE FamilyNext
    <3>1. \A f \in Families : TreeOf(f) /\ RowsAfter(f)
      BY <2>2, RowsStep DEF DeletedTogether, TreeOf
    <3>2. \A f \in Families : TreeOf(f)'
      BY <3>1, TreeStep
    <3> QED BY <3>2 DEF DeletedTogether, TreeOf
  <2> QED BY <2>1, <2>2
<1> QED BY TypesInit, TypesStep, <1>1, <1>2, PTL DEF FamilySpec

-----------------------------------------------------------------------------
(* The script.                                                             *)

\* A passage is live after a step that does not insert it only if it was before.
LEMMA StaysDeleted ==
  ASSUME TypesOK, NEW f \in Families, RowsAfter(f), Live(f)', ~Live(f)
  PROVE  failure[f] = "none" /\ quality' = [quality EXCEPT ![f] = "pass"]
<1>1. "passage" \in Roles /\ "passage" # "audio"
  BY DEF Roles
<1>2. CASE req[f].at = "audio" /\ row'[f] = [row[f] EXCEPT !["audio"] = "live"]
  BY <1>1, <1>2 DEF Live, TypesOK
<1>3. CASE \E x \in Roles : \A y \in Roles : row'[f][y] =
             IF y \in Below[x] /\ row[f][y] = "live" THEN "rolled" ELSE row[f][y]
  BY <1>1, <1>3 DEF Live
<1>4. CASE /\ row'[f] = RowsAs(f, IF failure[f] = "none" THEN "live" ELSE "rolled")
           /\ quality' = [quality EXCEPT ![f] = IF failure[f] = "quality" THEN "fail" ELSE "pass"]
  BY <1>1, <1>4, RowsAsType DEF Live
<1> QED BY <1>2, <1>3, <1>4 DEF RowsAfter, Live

\* Every step keeps what the script has yet to do.
LEMMA SweptStep ==
  ASSUME TypesOK, SweptInv, [FamilyNext]_familyVars
  PROVE  SweptInv'
<1>1. CASE UNCHANGED familyVars
  BY <1>1 DEF familyVars, SweptInv, Unswept, Live
<1> SUFFICES ASSUME FamilyNext, NEW f \in Families, quality'[f] = "fail", Live(f)'
             PROVE  Unswept(f)'
  BY <1>1 DEF SweptInv
<1>2. RowsAfter(f)
  BY RowsStep
<1>3. Live(f)
  BY <1>2, StaysDeleted DEF TypesOK
<1>4. CASE UNCHANGED sweep
  <2>1. ASSUME NEW h \in Families, Insert(h) PROVE quality[f] = "fail"
    <3>1. CASE quality' = quality
      BY <3>1
    <3>2. CASE /\ row' = [row EXCEPT ![h] =
                      RowsAs(h, IF failure[h] = "none" THEN "live" ELSE "rolled")]
               /\ quality' = [quality EXCEPT ![h] =
                      IF failure[h] = "quality" THEN "fail" ELSE "pass"]
      <4>1. CASE h = f
        <5>1. failure[f] = "quality"
          BY <3>2, <4>1 DEF TypesOK
        <5>2. row'[f] = RowsAs(f, "rolled")
          BY <3>2, <4>1, <5>1 DEF TypesOK
        <5> QED BY <5>2, RowsAsType DEF Live, Roles
      <4>2. CASE h # f
        BY <3>2, <4>2 DEF TypesOK
      <4> QED BY <4>1, <4>2
    <3> QED BY <2>1, <3>1, <3>2 DEF Insert
  <2>2. ASSUME NEW h \in Families,
               Begin(h) \/ Generate(h) \/ Find(h) \/ Ask(h) \/ AddAudio(h)
        PROVE  quality[f] = "fail"
    BY <2>2 DEF Begin, Generate, Find, Ask, AddAudio
  <2>3. ASSUME (\E h \in Families : DeleteFamily(h) \/ \E x \in Roles : DeleteRow(h, x))
                 \/ DeleteNext
        PROVE  quality[f] = "fail"
    BY <2>3, DeletionType
  <2>4. ASSUME SweepRecord PROVE quality[f] = "fail"
    <3>1. sweep.at = "record" /\ sweep'.at \in {"next", "roll"}
      BY <2>4 DEF SweepRecord, SweepTo, TypesOK
    <3> QED BY <1>4, <3>1
  <2>5. ASSUME BeginSweep \/ SweepNext \/ SweepAsk \/ SweepRoll \/ SweepDies
        PROVE  quality[f] = "fail"
    BY <2>5 DEF BeginSweep, SweepNext, SweepAsk, SweepRoll, SweepDies, unswept
  <2>6. quality[f] = "fail"
    BY <2>1, <2>2, <2>3, <2>4, <2>5 DEF FamilyNext, RequestStep
  <2> QED BY <1>3, <1>4, <2>6 DEF SweptInv, Unswept
<1>5. CASE BeginSweep
  <2>1. sweep'.todo = {h \in Families : Live(h)}
    BY <1>5 DEF BeginSweep
  <2> QED BY <1>3, <2>1 DEF Unswept
<1>6. CASE SweepNext
  <2>1. quality[f] = "fail" /\ sweep.at = "next"
    BY <1>6 DEF SweepNext, unswept
  <2>2. f \in sweep.todo
    BY <1>3, <2>1 DEF SweptInv, Unswept
  <2>3. PICK h \in sweep.todo :
          sweep' = [sweep EXCEPT !.at = Reused(h), !.family = h, !.todo = @ \ {h}]
    BY <1>6, <2>2 DEF SweepNext
  <2>4. sweep'.at = Reused(h) /\ sweep'.family = h /\ sweep'.todo = sweep.todo \ {h}
    BY <2>3 DEF TypesOK
  <2>5. CASE h = f
    BY <2>1, <2>4, <2>5 DEF Reused, Unswept
  <2>6. CASE h # f
    BY <2>2, <2>4, <2>6 DEF Unswept
  <2> QED BY <2>5, <2>6
<1>7. CASE SweepAsk
  <2>1. /\ quality[f] = "fail" /\ sweep.at = "judge"
        /\ sweep'.at \in {"judge", "record"} /\ sweep'.family = sweep.family
        /\ sweep'.todo = sweep.todo
    BY <1>7 DEF SweepAsk, SweepTo, unswept, TypesOK
  <2> QED BY <1>3, <2>1 DEF SweptInv, Unswept
<1>8. CASE SweepRecord
  <2>1. PICK verdict : verdict = Verdict("quality", sweep.runs)
    OBVIOUS
  <2>2. /\ quality' = [quality EXCEPT ![sweep.family] = verdict] /\ sweep.at = "record"
        /\ sweep'.at = IF verdict = "fail" THEN "roll" ELSE "next"
        /\ sweep'.family = sweep.family /\ sweep'.todo = sweep.todo
    BY <1>8, <2>1 DEF SweepRecord, SweepTo, TypesOK
  <2>3. CASE sweep.family = f
    BY <2>2, <2>3 DEF Unswept, TypesOK
  <2>4. CASE sweep.family # f
    BY <1>3, <2>2, <2>4 DEF SweptInv, Unswept, TypesOK
  <2> QED BY <2>3, <2>4
<1>9. CASE SweepRoll
  <2>1. /\ quality[f] = "fail" /\ sweep.at = "roll" /\ row' = RolledBack(sweep.family, "passage")
        /\ sweep'.todo = sweep.todo /\ sweep.family \in Families
    BY <1>9 DEF SweepRoll, SweepTo, TypesOK
  <2>2. sweep.family # f
    <3>1. "passage" \in Roles /\ "passage" \in Below["passage"]
      BY BelowNested DEF Roles
    <3> QED BY <2>1, <3>1, RolledBackRows DEF Live
  <2> QED BY <1>3, <2>1, <2>2 DEF SweptInv, Unswept
<1>10. CASE SweepDies
  BY <1>10 DEF SweepDies, SweepTo, Unswept, TypesOK
<1>11. ASSUME NEW h \in Families, Begin(h) \/ RequestStep(h) PROVE UNCHANGED sweep
  BY <1>11, RequestType DEF others
<1>12. CASE (\E h \in Families : DeleteFamily(h) \/ \E x \in Roles : DeleteRow(h, x))
              \/ DeleteNext
  BY <1>4, <1>12, DeletionType
<1> QED BY <1>4, <1>5, <1>6, <1>7, <1>8, <1>9, <1>10, <1>11, <1>12 DEF FamilyNext

\* The script ends when it has nothing left to look at.
LEMMA EndedIsEmpty ==
  ASSUME TypesOK, sweep.at = "ended" => sweep.todo = {}, [FamilyNext]_familyVars
  PROVE  sweep'.at = "ended" => sweep'.todo = {}
<1>1. CASE UNCHANGED sweep
  BY <1>1
<1>2. CASE SweepNext
  <2>1. CASE sweep.todo = {}
    BY <1>2, <2>1 DEF SweepNext, SweepTo, TypesOK
  <2>2. CASE sweep.todo # {}
    BY <1>2, <2>2 DEF SweepNext, Reused, TypesOK
  <2> QED BY <2>1, <2>2
<1>3. CASE BeginSweep \/ SweepAsk \/ SweepRecord \/ SweepRoll \/ SweepDies
  <2>1. CASE BeginSweep
    BY <2>1 DEF BeginSweep
  <2>2. CASE SweepAsk
    <3>1. sweep'.at \in {"judge", "record"}
      BY <2>2 DEF SweepAsk, SweepTo, TypesOK
    <3> QED BY <3>1
  <2>3. CASE SweepRecord
    <3>1. sweep'.at \in {"roll", "next"}
      BY <2>3 DEF SweepRecord, SweepTo, TypesOK
    <3> QED BY <3>1
  <2>4. CASE SweepRoll \/ SweepDies
    BY <2>4 DEF SweepRoll, SweepDies, SweepTo, TypesOK
  <2> QED BY <1>3, <2>1, <2>2, <2>3, <2>4
<1>4. ASSUME NEW h \in Families, Begin(h) \/ RequestStep(h) PROVE UNCHANGED sweep
  BY <1>4, RequestType DEF others
<1>5. CASE (\E h \in Families : DeleteFamily(h) \/ \E x \in Roles : DeleteRow(h, x))
              \/ DeleteNext
  BY <1>1, <1>5, DeletionType
<1>6. CASE UNCHANGED familyVars
  BY <1>1, <1>6 DEF familyVars
<1> QED BY <1>1, <1>2, <1>3, <1>4, <1>5, <1>6 DEF FamilyNext

\* Once the script of passage-quality-sweep.ts has run to its end, no passage noted as
\* failed is live, however often it died before and whatever is created, deleted or
\* judged while it runs.
THEOREM SweepLeavesNone == FamilySpec => []SweptClean
<1>1. FamilyInit => SweptInv
  BY DEF FamilyInit, SweptInv, Unswept
<1>2. TypesOK /\ SweptInv /\ [FamilyNext]_familyVars => SweptInv'
  BY SweptStep
<1>3. SweptInv /\ (sweep.at = "ended" => sweep.todo = {}) => SweptClean
  BY DEF SweptInv, SweptClean, Unswept
<1>4. FamilyInit => (sweep.at = "ended" => sweep.todo = {})
  BY DEF FamilyInit
<1>5. /\ TypesOK /\ (sweep.at = "ended" => sweep.todo = {}) /\ [FamilyNext]_familyVars
      => (sweep.at = "ended" => sweep.todo = {})'
  BY EndedIsEmpty
<1> QED BY TypesInit, TypesStep, <1>1, <1>2, <1>3, <1>4, <1>5, PTL DEF FamilySpec

-----------------------------------------------------------------------------
(* The gates.                                                              *)

\* What is known of a family survives every step that leaves its request, its runs and
\* its failure alone and brings no row to life.
LEMMA VettingKept ==
  ASSUME TypesOK, NEW f \in Families, VettingOf(f), UNCHANGED input,
         req'[f] = req[f], tally'[f] = tally[f], failure'[f] = failure[f],
         \A x \in Roles : row'[f][x] = "live" => row[f][x] = "live",
         \A x \in Roles : row[f][x] = "none" => row'[f][x] = "none"
  PROVE  VettingOf(f)'
<1>1. Live(f)' => Live(f)
  BY DEF Live, Roles
<1>2. \A g \in Gates : Vetted(f, g)' <=> Vetted(f, g)
  BY DEF Vetted, Passes
<1>3. AllVetted(f)' <=> AllVetted(f)
  BY <1>2 DEF AllVetted, Applies
<1>4. "quality" \in Gates /\ "judge" \in Gates
  BY DEF Gates
<1> QED BY <1>1, <1>2, <1>3, <1>4 DEF VettingOf, GoesOn

\* A gate that has made no calls yet goes on.
LEMMA FreshGoesOn ==
  ASSUME NEW g \in Gates
  PROVE  GoesOn(g, NoRuns)
BY PassageAssumption DEF GoesOn, NoRuns

\* The gates that come next have had those before them passed, as the step leaves them.
LEMMA OrderAfter ==
  ASSUME NEW f \in Families, NEW g \in Gates, UNCHANGED input, Vetted(f, g)',
         g \in {"judge", "solvability"} => Vetted(f, "quality")',
         g = "solvability" => Vetted(f, "judge")'
  PROVE  /\ Following(f, g) \in {"judge", "solvability", "insert"}
         /\ Following(f, g) \in {"judge", "solvability"} => Vetted(f, "quality")'
         /\ Following(f, g) = "solvability" => Vetted(f, "judge")'
         /\ Following(f, g) = "insert" => AllVetted(f)'
<1>1. CASE g = "quality"
  BY <1>1 DEF Following, AllVetted, Applies, Gates
<1>2. CASE g = "judge"
  BY <1>2 DEF Following, AllVetted, Applies, Gates
<1>3. CASE g = "solvability"
  BY <1>3 DEF Following, AllVetted, Applies, Gates
<1> QED BY <1>1, <1>2, <1>3 DEF Gates

\* One attempt of a gate: a verdict is over exactly the runs asked for.
LEMMA AskVets ==
  ASSUME TypesOK, NEW f \in Families, VettingOf(f), Ask(f)
  PROVE  VettingOf(f)'
<1>1. PICK g \in Gates : g = req[f].at
  BY DEF Ask
<1>2. PICK runs \in Attempt(g, req[f].runs) :
        IF GoesOn(g, runs)
        THEN /\ req' = [req EXCEPT ![f].runs = runs] /\ UNCHANGED <<tally, failure>>
        ELSE /\ tally' = [tally EXCEPT ![f][g] = runs]
             /\ failure' = [failure EXCEPT ![f] = IF Verdict(g, runs) = "fail" THEN g ELSE @]
             /\ Go(f, CASE Verdict(g, runs) = "unverified" -> "rejected"
                        [] Verdict(g, runs) = "fail"       -> "insert"
                        [] Verdict(g, runs) = "pass"       -> Following(f, g))
  BY <1>1 DEF Ask
<1>3. UNCHANGED <<input, row>> /\ \A x \in Roles : row[f][x] = "none"
  BY DEF Ask, VettingOf, Vetting
<1>4. ~Live(f)'
  BY <1>3 DEF Live, Roles
<1>5. /\ failure[f] = "none" /\ GoesOn(g, req[f].runs)
      /\ g \in {"judge", "solvability"} => Vetted(f, "quality")
      /\ g = "solvability" => Vetted(f, "judge")
  BY <1>1 DEF VettingOf, Vetting, Gates
<1>6. /\ runs \in Runs /\ req[f].runs \in Runs
      /\ runs.issued <= req[f].runs.issued + 1 /\ runs.valid <= req[f].runs.valid + 1
  BY <1>2, AttemptType DEF TypesOK
<1>7. runs.valid <= Required[g] /\ runs.issued <= MaxCalls[g]
  <2>1. Required[g] \in Nat /\ MaxCalls[g] \in Nat
    BY PassageAssumption
  <2>2. req[f].runs.valid < Required[g] /\ req[f].runs.issued < MaxCalls[g]
    BY <1>5 DEF GoesOn
  <2> QED BY <1>6, <2>1, <2>2 DEF Runs
<1>8. CASE GoesOn(g, runs)
  <2>1. req' = [req EXCEPT ![f].runs = runs] /\ UNCHANGED <<tally, failure>>
    BY <1>2, <1>8
  <2>2. req'[f].at = g /\ req'[f].runs = runs
    BY <1>1, <2>1 DEF TypesOK
  <2>3. \A h \in Gates : Vetted(f, h)' <=> Vetted(f, h)
    BY <2>1 DEF Vetted, Passes
  <2>4. GoesOn(g, runs)'
    BY <1>8 DEF GoesOn
  <2>5. g # "insert" /\ "quality" \in Gates /\ "judge" \in Gates
    BY DEF Gates
  <2> QED BY <1>3, <1>4, <1>5, <2>1, <2>2, <2>3, <2>4, <2>5 DEF VettingOf, GoesOn
<1>9. CASE ~GoesOn(g, runs)
  <2>1. /\ tally' = [tally EXCEPT ![f][g] = runs]
        /\ failure' = [failure EXCEPT ![f] = IF Verdict(g, runs) = "fail" THEN g ELSE @]
    BY <1>2, <1>9
  <2>2. /\ tally'[f][g] = runs
        /\ \A h \in Gates \ {g} : tally'[f][h] = tally[f][h]
    BY <2>1 DEF TypesOK
  <2>3. \A h \in Gates \ {g} : Vetted(f, h)' <=> Vetted(f, h)
    BY <2>2 DEF Vetted, Passes
  <2>4. CASE Verdict(g, runs) = "unverified"
    <3>1. Go(f, "rejected")
      BY <1>2, <1>9, <2>4
    <3>2. req'[f].at = "rejected"
      BY <3>1, GoType DEF Answered
    <3> QED BY <1>4, <3>2 DEF VettingOf, Vetting, Gates
  <2>5. CASE Verdict(g, runs) = "fail"
    <3>1. Go(f, "insert")
      BY <1>2, <1>9, <2>5
    <3>2. req'[f].at = "insert"
      BY <3>1, GoType DEF Vetting
    <3>3. failure'[f] = g /\ g # "none"
      BY <2>1, <2>5 DEF TypesOK, Gates
    <3> QED BY <1>3, <1>4, <3>2, <3>3 DEF VettingOf, Vetting, Gates
  <2>6. CASE Verdict(g, runs) = "pass"
    <3>1. runs.valid = Required[g] /\ Passes(g, runs)
      <4>1. ~(runs.valid < Required[g]) /\ Passes(g, runs)
        BY <2>6 DEF Verdict
      <4>2. Required[g] \in Nat /\ runs.valid \in Nat
        BY <1>6, PassageAssumption DEF Runs
      <4> QED BY <1>7, <4>1, <4>2
    <3>2. Vetted(f, g)'
      BY <1>7, <2>2, <3>1 DEF Vetted, Passes
    <3>3. /\ g \in {"judge", "solvability"} => Vetted(f, "quality")'
          /\ g = "solvability" => Vetted(f, "judge")'
      BY <1>5, <2>3 DEF Gates
    <3>4. PICK next : next = Following(f, g)
      OBVIOUS
    <3>5. /\ next \in {"judge", "solvability", "insert"}
          /\ next \in {"judge", "solvability"} => Vetted(f, "quality")'
          /\ next = "solvability" => Vetted(f, "judge")'
          /\ next = "insert" => AllVetted(f)'
      BY <1>3, <3>2, <3>3, <3>4, OrderAfter
    <3>6. Go(f, next)
      BY <1>2, <1>9, <2>6, <3>4
    <3>7. req'[f].at = next /\ req'[f].runs = NoRuns
      BY <3>5, <3>6, GoType DEF Vetting, Gates
    <3>8. failure'[f] = "none"
      BY <1>5, <2>1, <2>6 DEF TypesOK
    <3>9. next \in Gates => GoesOn(next, NoRuns)'
      BY FreshGoesOn DEF GoesOn, NoRuns
    <3> QED BY <1>3, <1>4, <3>5, <3>7, <3>8, <3>9 DEF VettingOf, Vetting, GoesOn
  <2> QED BY <2>4, <2>5, <2>6 DEF Verdict
<1> QED BY <1>8, <1>9

\* A request concerns its own family.
LEMMA OwnFamily ==
  ASSUME TypesOK, NEW h \in Families, Begin(h) \/ RequestStep(h), NEW f \in Families \ {h}
  PROVE  /\ req'[f] = req[f] /\ tally'[f] = tally[f] /\ failure'[f] = failure[f]
         /\ row'[f] = row[f]
<1>0. \A at : Go(h, at) => req'[f] = req[f]
  BY DEF Go, TypesOK
<1>1. CASE Begin(h) \/ Generate(h) \/ Find(h)
  BY <1>0, <1>1 DEF Begin, Generate, Find, content
<1>2. CASE Insert(h) \/ AddAudio(h)
  BY <1>0, <1>2 DEF Insert, AddAudio, content, TypesOK
<1>3. CASE Ask(h)
  <2>1. PICK runs :
          IF GoesOn(req[h].at, runs)
          THEN /\ req' = [req EXCEPT ![h].runs = runs] /\ UNCHANGED <<tally, failure>>
          ELSE /\ tally' = [tally EXCEPT ![h][req[h].at] = runs]
               /\ \E gate : failure' = [failure EXCEPT ![h] = gate]
               /\ \E at : Go(h, at)
    BY <1>3 DEF Ask
  <2>2. UNCHANGED row
    BY <1>3 DEF Ask
  <2>3. CASE GoesOn(req[h].at, runs)
    BY <2>1, <2>2, <2>3 DEF TypesOK
  <2>4. CASE ~GoesOn(req[h].at, runs)
    BY <1>0, <2>1, <2>2, <2>4 DEF TypesOK
  <2> QED BY <2>3, <2>4
<1> QED BY <1>1, <1>2, <1>3 DEF RequestStep

\* Neither the dashboard nor the script touches a request or brings a row to life.
LEMMA OnlyFalls ==
  ASSUME TypesOK,
         \/ \E h \in Families : DeleteFamily(h) \/ \E x \in Roles : DeleteRow(h, x)
         \/ DeleteNext
         \/ BeginSweep \/ SweepNext \/ SweepAsk \/ SweepRecord \/ SweepRoll \/ SweepDies
  PROVE  /\ UNCHANGED <<content, req>>
         /\ \A f \in Families, x \in Roles :
              /\ row'[f][x] = "live" => row[f][x] = "live"
              /\ row[f][x] = "none" => row'[f][x] = "none"
<1>1. UNCHANGED <<content, req>>
  BY DeletionType, SweepType
<1>2. \/ UNCHANGED row
      \/ \E h \in Families, x \in Roles : row' = RolledBack(h, x)
  <2>1. ASSUME DeleteNext
        PROVE  UNCHANGED row \/ \E h \in Families, x \in Roles : row' = RolledBack(h, x)
    <3>1. PICK x \in deletion.todo : row' \in {row, RolledBack(deletion.family, x)}
      BY <2>1 DEF DeleteNext
    <3>2. deletion.family \in Families /\ x \in Roles
      BY DEF TypesOK
    <3> QED BY <3>1, <3>2
  <2>2. ASSUME SweepRoll
        PROVE  \E h \in Families, x \in Roles : row' = RolledBack(h, x)
    <3>1. sweep.family \in Families /\ "passage" \in Roles
      BY <2>2 DEF SweepRoll, TypesOK, Roles
    <3> QED BY <2>2, <3>1 DEF SweepRoll
  <2>3. ASSUME NEW h \in Families, NEW x \in Roles, DeleteRow(h, x)
        PROVE  row' = RolledBack(h, x)
    BY <2>3 DEF DeleteRow
  <2>4. ASSUME NEW h \in Families, DeleteFamily(h) PROVE UNCHANGED row
    BY <2>4 DEF DeleteFamily
  <2>5. BeginSweep \/ SweepNext \/ SweepAsk \/ SweepRecord \/ SweepDies => UNCHANGED row
    BY DEF BeginSweep, SweepNext, SweepAsk, SweepRecord, SweepDies, unswept
  <2> QED BY <2>1, <2>2, <2>3, <2>4, <2>5
<1>3. ASSUME NEW h \in Families, NEW x \in Roles, row' = RolledBack(h, x),
             NEW f \in Families, NEW y \in Roles
      PROVE  /\ row'[f][y] = "live" => row[f][y] = "live"
             /\ row[f][y] = "none" => row'[f][y] = "none"
  BY <1>3, RolledBackRows
<1> QED BY <1>1, <1>2, <1>3

\* A family's own request.
LEMMA RequestVets ==
  ASSUME TypesOK, NEW f \in Families, VettingOf(f), Begin(f) \/ RequestStep(f)
  PROVE  VettingOf(f)'
<1>1. CASE Begin(f) \/ Generate(f) \/ Find(f)
  <2>1. PICK at \in {"generate", "find", "quality", "rejected", "failed"} : Go(f, at)
    BY <1>1 DEF Begin, Generate, Find
  <2>2. req'[f].at = at /\ req'[f].runs = NoRuns
    BY <2>1, GoType DEF Vetting, Answered, Gates
  <2>3. /\ UNCHANGED <<content, row>> /\ failure[f] = "none"
        /\ \A x \in Roles : row[f][x] = "none"
    BY <1>1 DEF Begin, Generate, Find, VettingOf, Vetting, content
  <2>4. ~Live(f)'
    BY <2>3 DEF Live, Roles
  <2>5. "quality" \in Gates /\ GoesOn("quality", NoRuns)'
    BY FreshGoesOn DEF Gates, GoesOn, NoRuns
  <2>6. at \in Gates => at = "quality"
    BY DEF Gates
  <2> QED BY <2>2, <2>3, <2>4, <2>5, <2>6 DEF VettingOf, Vetting, GoesOn, content
<1>2. CASE Ask(f)
  BY <1>2, AskVets
<1>3. CASE Insert(f)
  <2>1. UNCHANGED content /\ req[f].at = "insert"
    BY <1>3 DEF Insert
  <2>2. AllVetted(f)' <=> AllVetted(f)
    BY <2>1 DEF content, AllVetted, Vetted, Passes, Applies
  <2>3. PICK at \in {"audio", "rejected", "failed"} : Go(f, at)
    BY <1>3 DEF Insert
  <2>4. req'[f].at = at
    BY <2>3, GoType DEF Answered
  <2>5. at \notin Vetting /\ at \notin Gates
    BY DEF Vetting, Gates
  <2>6. Live(f)' => failure[f] = "none"
    <3>1. CASE row' = row
      BY <2>1, <3>1 DEF VettingOf, Vetting, Live, Roles
    <3>2. CASE row' = [row EXCEPT ![f] =
                 RowsAs(f, IF failure[f] = "none" THEN "live" ELSE "rolled")]
      <4>1. failure[f] # "none" => row'[f] = RowsAs(f, "rolled")
        BY <3>2 DEF TypesOK
      <4> QED BY <4>1, RowsAsType DEF Live, Roles
    <3> QED BY <1>3, <3>1, <3>2 DEF Insert
  <2>7. Live(f)' => AllVetted(f)'
    BY <2>1, <2>2, <2>6 DEF VettingOf
  <2> QED BY <2>4, <2>5, <2>7 DEF VettingOf
<1>4. CASE AddAudio(f)
  <2>1. UNCHANGED content /\ Go(f, "created")
    BY <1>4 DEF AddAudio
  <2>2. req'[f].at = "created"
    BY <2>1, GoType DEF Answered
  <2>3. row'[f]["passage"] = row[f]["passage"]
    <3>1. row' = row \/ row' = [row EXCEPT ![f]["audio"] = "live"]
      BY <1>4 DEF AddAudio
    <3>2. [row EXCEPT ![f]["audio"] = "live"][f]["passage"] = row[f]["passage"]
      BY DEF TypesOK, Roles
    <3> QED BY <3>1, <3>2
  <2>4. AllVetted(f)' <=> AllVetted(f)
    BY <2>1 DEF content, AllVetted, Vetted, Passes, Applies
  <2> QED BY <2>2, <2>3, <2>4 DEF VettingOf, Vetting, Gates, Live
<1> QED BY <1>1, <1>2, <1>3, <1>4 DEF RequestStep

\* Every step keeps what is known of every family.
LEMMA VettedStep ==
  ASSUME TypesOK, VettedInv, [FamilyNext]_familyVars
  PROVE  VettedInv'
<1> SUFFICES ASSUME NEW f \in Families, ~Earlier(f), VettingOf(f), UNCHANGED input
             PROVE  VettingOf(f)'
  <2>1. UNCHANGED input
    <3>1. ASSUME NEW h \in Families, Begin(h) \/ RequestStep(h) PROVE UNCHANGED input
      BY <3>1 DEF RequestStep, Begin, Generate, Find, Ask, Insert, AddAudio, content
    <3>2. CASE UNCHANGED familyVars
      BY <3>2 DEF familyVars
    <3>3. ASSUME \/ \E h \in Families : DeleteFamily(h) \/ \E x \in Roles : DeleteRow(h, x)
                 \/ DeleteNext
                 \/ BeginSweep \/ SweepNext \/ SweepAsk \/ SweepRecord \/ SweepRoll
                 \/ SweepDies
          PROVE  UNCHANGED input
      BY <3>3, OnlyFalls DEF content
    <3> QED BY <3>1, <3>2, <3>3 DEF FamilyNext
  <2> QED BY <2>1 DEF VettedInv, Earlier
<1>1. ASSUME NEW h \in Families, Begin(h) \/ RequestStep(h) PROVE VettingOf(f)'
  <2>1. CASE h = f
    BY <1>1, <2>1, RequestVets
  <2>2. CASE h # f
    BY <1>1, <2>2, OwnFamily, VettingKept
  <2> QED BY <2>1, <2>2
<1>2. ASSUME \/ \E h \in Families : DeleteFamily(h) \/ \E x \in Roles : DeleteRow(h, x)
             \/ DeleteNext
             \/ BeginSweep \/ SweepNext \/ SweepAsk \/ SweepRecord \/ SweepRoll \/ SweepDies
      PROVE  VettingOf(f)'
  BY <1>2, OnlyFalls, VettingKept DEF content
<1>3. CASE UNCHANGED familyVars
  BY <1>3, VettingKept DEF familyVars
<1> QED BY <1>1, <1>2, <1>3 DEF FamilyNext

\* For any gates' numbers of runs, budgets and thresholds: whatever its calls came to, a
\* passage that lessons may pick has passed every gate that applies to it.
THEOREM LiveWasVetted == FamilySpec => []LiveIsVetted
<1>1. FamilyInit => VettedInv
  <2> SUFFICES ASSUME FamilyInit, NEW f \in Families, ~Earlier(f) PROVE VettingOf(f)
    BY DEF VettedInv
  <2>1. req[f].at = "idle" /\ failure[f] = "none" /\ \A x \in Roles : row[f][x] = "none"
    BY DEF FamilyInit
  <2>2. ~Live(f)
    BY <2>1 DEF Live, Roles
  <2> QED BY <2>1, <2>2 DEF VettingOf, Vetting, Gates
<1>2. TypesOK /\ VettedInv /\ [FamilyNext]_familyVars => VettedInv'
  BY VettedStep
<1>3. VettedInv => LiveIsVetted
  BY DEF VettedInv, VettingOf, LiveIsVetted, AllVetted, Vetted
<1> QED BY TypesInit, TypesStep, <1>1, <1>2, <1>3, PTL DEF FamilySpec

-----------------------------------------------------------------------------
(* The rows, their makers and jobs.                                        *)

RowType ==
  [status : {"absent", "created", "queued", "ready", "failed"}, file : BOOLEAN,
   url : BOOLEAN, stamp : {"none", "fresh", "old"}, rolled : BOOLEAN,
   sendable : BOOLEAN, young : BOOLEAN, born : Nat]

MakeType ==
  [at : {"idle", "store", "enqueue", "mark", "select", "write", "thrown", "done"},
   row : Rows \cup {Null}, copy : RowType, seen : RowType,
   next : {"idle", "enqueue", "thrown", "done"}]

JobType == [try : Nat, at : {"none", "wait", "add", "upload", "uncache", "rendering", "fail"},
            reload : BOOLEAN]

There(r) == r \in Rows /\ rows[r].status # "absent"

MediaTypes ==
  /\ kind \in [Rows -> {"picture", "recording", "text", "report", "tts", "video", "auto"}]
  /\ rows \in [Rows -> RowType] /\ IsFiniteSet(Cards)
  /\ make \in [Makers -> MakeType]
  /\ jobs \in [Rows -> [Queues -> JobType]]
  /\ edits \in Nat

\* A row is there or all absent; only rows that are there are born.
RowsInv ==
  \A r \in Rows : /\ rows[r].status = "absent" => rows[r] = Absent
                  /\ r \in Cards => rows[r].born <= Cardinality(Cards)

\* A maker that is at work holds a row that is there, and a copy that takes it
\* neither back nor out of use; that of a card is at work until its job takes note.
Holds(m) ==
  /\ There(m.row) /\ m.at # "idle"
  /\ m.copy.status # "absent" /\ ~m.copy.rolled /\ m.copy.sendable
  /\ kind[m.row] = "report" =>
       m.at # "mark" /\ (m.at \in {"select", "write"} => m.next # "idle")

MakeInv == \A p \in Makers : make[p] # Idle => Holds(make[p])

JobsInv == \A r \in Rows, q \in Queues : jobs[r][q].at # "none" => There(r)

AdminInv == admin.at # "idle" => There(admin.row) /\ edits > 0

MediaInv == MediaTypes /\ RowsInv /\ MakeInv /\ JobsInv /\ AdminInv

-----------------------------------------------------------------------------
(* The morning's cards.                                                    *)

SendType == [at : {"wait", "none", "render", "send", "done"}, try : Nat, row : Rows \cup {Null}]

\* The cards that may be found once their job is run again.
Loose == {r \in Cards : ~rows[r].rolled /\ \A p \in Makers : make[p].row # r}

\* The jobs that have or are about to insert a card and have not been run again.
Rendering == {p \in Senders : send[p].at \in {"none", "render"}}

\* A job adds a card to the loose ones only after it found none: whatever is rolled
\* back, cards and jobs that render one are not more than the jobs.
CardInv ==
  /\ send \in [Senders -> SendType]
  /\ \A p \in Makers : make[p] # Idle =>
       (kind[make[p].row] = "report" => p \in Senders /\ send[p].at = "render")
  /\ IsFiniteSet(Loose)
  /\ Cardinality(Loose) + Cardinality(Rendering) <= Cardinality(Senders)

-----------------------------------------------------------------------------
(* Rows and jobs.                                                          *)

\* The row that is none.
LEMMA AbsentIsRow == Absent \in RowType /\ Absent.status = "absent"
BY DEF Absent, RowType

\* There are as many cards as a number says.
LEMMA CardsCounted == ASSUME MediaTypes PROVE Cardinality(Cards) \in Nat
BY FS_CardinalityType DEF MediaTypes

\* A row as it is inserted.
LEMMA FreshIsRow ==
  ASSUME MediaTypes, NEW st \in {"created", "ready"}, NEW f \in BOOLEAN
  PROVE  /\ Fresh(st, f) \in RowType /\ Fresh(st, f).status = st
         /\ Fresh(st, f).born = Cardinality(Cards)
         /\ ~Fresh(st, f).rolled /\ Fresh(st, f).sendable
BY CardsCounted DEF Fresh, Absent, RowType

\* A row that is there is not absent.
LEMMA ThereIsNotAbsent ==
  ASSUME MediaTypes, RowsInv, NEW r \in Rows
  PROVE  /\ There(r) <=> rows[r] # Absent
         /\ r \in Cards <=> There(r) /\ kind[r] = "report"
BY AbsentIsRow DEF RowsInv, There, Cards

\* What is written to a row that is there leaves the others and who is there.
LEMMA RowWritten ==
  ASSUME MediaTypes, RowsInv, NEW r \in Rows, There(r), UNCHANGED kind,
         NEW x \in RowType, x.status # "absent", x.born = rows[r].born,
         rows' = [rows EXCEPT ![r] = x]
  PROVE  /\ rows' \in [Rows -> RowType] /\ rows'[r] = x
         /\ \A s \in Rows : s # r => rows'[s] = rows[s]
         /\ \A s : There(s)' <=> There(s)
         /\ Cards' = Cards /\ RowsInv'
<1>1. rows' \in [Rows -> RowType] /\ rows'[r] = x /\ \A s \in Rows : s # r => rows'[s] = rows[s]
  BY DEF MediaTypes
<1>2. \A s : There(s)' <=> There(s)
  BY <1>1 DEF There
<1>3. \A s \in Rows : rows'[s].status = "absent" => rows'[s] = Absent
  BY <1>1 DEF RowsInv
<1>4. \A s \in Rows : rows'[s] # Absent <=> rows[s] # Absent
  BY <1>1, <1>2, <1>3, AbsentIsRow, ThereIsNotAbsent DEF There
<1>5. Cards' = Cards
  BY <1>4 DEF Cards
<1>6. \A s \in Rows : s \in Cards => rows'[s].born <= Cardinality(Cards)
  BY <1>1 DEF RowsInv
<1> QED BY <1>1, <1>2, <1>3, <1>5, <1>6 DEF RowsInv

\* A row is inserted: it is there, and if it is a card it is the newest.
LEMMA RowInserted ==
  ASSUME MediaTypes, RowsInv, NEW r \in Rows, rows[r] = Absent, UNCHANGED kind,
         NEW st \in {"created", "ready"}, NEW f \in BOOLEAN,
         rows' = [rows EXCEPT ![r] = Fresh(st, f)]
  PROVE  /\ rows' \in [Rows -> RowType] /\ rows'[r] = Fresh(st, f)
         /\ \A s \in Rows : s # r => rows'[s] = rows[s]
         /\ \A s : There(s)' <=> There(s) \/ s = r
         /\ Cards' = Cards \cup (IF kind[r] = "report" THEN {r} ELSE {})
         /\ IsFiniteSet(Cards') /\ RowsInv'
<1>1. /\ rows' \in [Rows -> RowType] /\ rows'[r] = Fresh(st, f)
      /\ \A s \in Rows : s # r => rows'[s] = rows[s]
  BY FreshIsRow DEF MediaTypes
<1>2. \A s : There(s)' <=> There(s) \/ s = r
  BY <1>1, FreshIsRow DEF There
<1>3. rows'[r] # Absent /\ \A s \in Rows : rows'[s].status = "absent" => rows'[s] = Absent
  BY <1>1, FreshIsRow, AbsentIsRow DEF RowsInv
<1>4. Cards' = Cards \cup (IF kind[r] = "report" THEN {r} ELSE {})
  BY <1>1, <1>3 DEF Cards
<1>5. IsFiniteSet(Cards') /\ Cardinality(Cards) <= Cardinality(Cards')
  <2>1. IsFiniteSet(Cards) /\ Cardinality(Cards) \in Nat
    BY CardsCounted DEF MediaTypes
  <2>2. /\ IsFiniteSet(Cards \cup {r})
        /\ Cardinality(Cards \cup {r}) = IF r \in Cards THEN Cardinality(Cards) ELSE Cardinality(Cards) + 1
    BY <2>1, FS_AddElement
  <2> QED BY <1>4, <2>1, <2>2
<1>6. ASSUME NEW s \in Rows, s \in Cards' PROVE rows'[s].born <= Cardinality(Cards')
  <2>1. Cardinality(Cards) \in Nat /\ Cardinality(Cards') \in Nat
    BY <1>5, CardsCounted, FS_CardinalityType
  <2>2. CASE s = r
    BY <1>1, <1>5, <2>1, <2>2, FreshIsRow
  <2>3. CASE s # r
    <3>1. s \in Cards /\ rows[s].born \in Nat
      BY <1>4, <1>6, <2>3 DEF MediaTypes, RowType
    <3> QED BY <1>1, <1>5, <2>1, <2>3, <3>1 DEF RowsInv
  <2> QED BY <2>2, <2>3
<1> QED BY <1>1, <1>2, <1>3, <1>4, <1>5, <1>6 DEF RowsInv

\* What the queues may be given.
LEMMA JobsOfType ==
  ASSUME NEW j \in JobType
  PROVE  /\ NoJob \in JobType /\ NoJob.at = "none"
         /\ \A b \in BOOLEAN : NewJob(b) \in JobType
         /\ Retry(j) \in JobType
         /\ \A at \in {"none", "wait", "add", "upload", "uncache", "rendering", "fail"} :
              [j EXCEPT !.at = at] \in JobType
<1>1. NoJob \in JobType /\ NoJob.at = "none"
  BY DEF NoJob, JobType
<1>2. Retry(j) \in JobType
  BY <1>1 DEF Retry, JobType
<1> QED BY <1>1, <1>2 DEF NewJob, JobType

\* The jobs of a row that is there change.
LEMMA JobSet ==
  ASSUME MediaTypes, JobsInv, NEW r \in Rows, There(r), NEW q \in Queues, NEW j \in JobType,
         jobs' = [jobs EXCEPT ![r][q] = j]
  PROVE  /\ jobs' \in [Rows -> [Queues -> JobType]]
         /\ \A s \in Rows, p \in Queues : jobs'[s][p].at # "none" => There(s)
<1>1. /\ jobs \in [Rows -> [Queues -> JobType]] /\ jobs[r] \in [Queues -> JobType]
      /\ jobs' = [jobs EXCEPT ![r] = [jobs[r] EXCEPT ![q] = j]]
  BY DEF MediaTypes
<1>2. [jobs[r] EXCEPT ![q] = j] \in [Queues -> JobType]
  BY <1>1
<1>3. jobs' \in [Rows -> [Queues -> JobType]] /\ \A s \in Rows : s # r => jobs'[s] = jobs[s]
  BY <1>1, <1>2
<1> QED BY <1>3 DEF JobsInv

-----------------------------------------------------------------------------
(* What the jobs, the readers and the dashboard leave to the makers.       *)

RowKept ==
  \/ rows' = rows
  \/ \E r \in Rows : \E x \in RowType :
       /\ There(r) /\ x.status # "absent" /\ x.born = rows[r].born
       /\ rows[r].rolled => x.rolled
       /\ edits' = 0 /\ ~rows[r].rolled /\ rows[r].sendable => ~x.rolled /\ x.sendable
       /\ rows' = [rows EXCEPT ![r] = x]

Kept ==
  /\ UNCHANGED <<kind, make>> /\ RowKept
  /\ jobs' \in [Rows -> [Queues -> JobType]]
  /\ \A r \in Rows, q \in Queues : jobs'[r][q].at # "none" => There(r)
  /\ edits' \in Nat /\ edits' >= edits
  /\ admin'.at # "idle" => There(admin'.row) /\ edits' > 0

\* Such a step keeps the rows, and what is live was.
LEMMA KeptRows ==
  ASSUME MediaInv, Kept
  PROVE  /\ rows' \in [Rows -> RowType] /\ Cards' = Cards /\ RowsInv'
         /\ \A s : There(s)' <=> There(s)
         /\ \A s \in Rows : rows[s].rolled => rows'[s].rolled
         /\ \A s \in Rows : edits' = 0 /\ ~rows[s].rolled /\ rows[s].sendable
                              => ~rows'[s].rolled /\ rows'[s].sendable
<1> USE DEF MediaInv
<1>1. CASE rows' = rows
  <2>1. Cards' = Cards
    BY <1>1 DEF Kept, Cards
  <2> QED BY <1>1, <2>1 DEF Kept, MediaTypes, RowsInv, There
<1>2. CASE rows' # rows
  <2>1. PICK r, x : /\ r \in Rows /\ x \in RowType
                    /\ There(r) /\ x.status # "absent" /\ x.born = rows[r].born
                    /\ rows[r].rolled => x.rolled
                    /\ edits' = 0 /\ ~rows[r].rolled /\ rows[r].sendable => ~x.rolled /\ x.sendable
                    /\ rows' = [rows EXCEPT ![r] = x]
    BY <1>2 DEF Kept, RowKept
  <2>2. UNCHANGED kind
    BY DEF Kept
  <2>3. /\ rows' \in [Rows -> RowType] /\ rows'[r] = x
        /\ \A s \in Rows : s # r => rows'[s] = rows[s]
        /\ \A s : There(s)' <=> There(s)
        /\ Cards' = Cards /\ RowsInv'
    BY <2>1, <2>2, RowWritten
  <2> QED BY <2>1, <2>3
<1> QED BY <1>1, <1>2

\* Such a step keeps the invariant.
LEMMA KeptStep == ASSUME MediaInv, Kept PROVE MediaInv'
<1>1. /\ rows' \in [Rows -> RowType] /\ Cards' = Cards /\ RowsInv'
      /\ \A s : There(s)' <=> There(s)
  BY KeptRows
<1>2. MediaTypes'
  BY <1>1 DEF MediaInv, MediaTypes, Kept, MakeType
<1>3. MakeInv'
  BY <1>1 DEF MediaInv, MakeInv, Holds, Kept, Idle, Absent
<1>4. JobsInv' /\ AdminInv'
  BY <1>1 DEF Kept, JobsInv, AdminInv
<1> QED BY <1>1, <1>2, <1>3, <1>4 DEF MediaInv

\* Cards are no more and no looser: the sum keeps its bound.
LEMMA NoLooser ==
  ASSUME CardInv, Loose' \subseteq Loose, Rendering' \subseteq Rendering
  PROVE  IsFiniteSet(Loose') /\ Cardinality(Loose') + Cardinality(Rendering') <= Cardinality(Senders)
<1>1. IsFiniteSet(Rendering) /\ IsFiniteSet(Loose)
  <2>1. Rendering \in SUBSET Senders
    BY DEF Rendering
  <2> QED BY <2>1, FS_Subset, MorningAssumption DEF CardInv
<1>2. /\ IsFiniteSet(Loose') /\ Cardinality(Loose') <= Cardinality(Loose)
      /\ IsFiniteSet(Rendering') /\ Cardinality(Rendering') <= Cardinality(Rendering)
  BY <1>1, FS_Subset
<1>3. /\ Cardinality(Loose) \in Nat /\ Cardinality(Loose') \in Nat
      /\ Cardinality(Rendering) \in Nat /\ Cardinality(Rendering') \in Nat
      /\ Cardinality(Senders) \in Nat
  BY <1>1, <1>2, FS_CardinalityType, MorningAssumption
<1> QED BY <1>2, <1>3 DEF CardInv

\* Such a step keeps the bound on the cards.
LEMMA KeptCards ==
  ASSUME MediaInv, CardInv, Kept, UNCHANGED send
  PROVE  CardInv'
<1>1. /\ Cards' = Cards /\ \A s \in Rows : rows[s].rolled => rows'[s].rolled
      /\ UNCHANGED <<kind, make>>
  BY KeptRows DEF Kept
<1>2. Loose' \subseteq Loose /\ Rendering' = Rendering
  BY <1>1 DEF Loose, Rendering, Cards
<1>3. IsFiniteSet(Loose') /\ Cardinality(Loose') + Cardinality(Rendering') <= Cardinality(Senders)
  BY <1>2, NoLooser
<1> QED BY <1>1, <1>3 DEF CardInv, Idle, Absent

-----------------------------------------------------------------------------
(* The actions that are such steps.                                        *)

\* A job or a reader that leaves the rows and the dashboard.
LEMMA JobKept ==
  ASSUME MediaInv, UNCHANGED <<kind, make, dash>>, RowKept,
         NEW r \in Rows, There(r), NEW q \in Queues, NEW j \in JobType,
         jobs' = [jobs EXCEPT ![r][q] = j]
  PROVE  Kept
<1>1. /\ jobs' \in [Rows -> [Queues -> JobType]]
      /\ \A s \in Rows, p \in Queues : jobs'[s][p].at # "none" => There(s)
  BY JobSet DEF MediaInv
<1>2. /\ edits' \in Nat /\ edits' >= edits
      /\ admin'.at # "idle" => There(admin'.row) /\ edits' > 0
  BY DEF MediaInv, MediaTypes, AdminInv, dash
<1> QED BY <1>1, <1>2 DEF Kept

\* Nothing of the jobs or rows.
LEMMA StillKept ==
  ASSUME MediaInv, UNCHANGED <<kind, make, rows, jobs, dash>> PROVE Kept
BY DEF MediaInv, MediaTypes, Kept, RowKept, AdminInv, JobsInv, dash

\* A job is at a row that is there.
LEMMA AtWork ==
  ASSUME MediaInv, NEW r \in Rows, NEW q \in Queues, NEW at, At(r, q, at), at # "none"
  PROVE  There(r) /\ jobs[r][q] \in JobType
BY DEF MediaInv, MediaTypes, JobsInv, At

\* A row with new columns keeps its age and whether it is rolled back; it may be
\* sent if it could.
Redone(r, x) ==
  /\ x \in RowType /\ x.born = rows[r].born /\ x.rolled = rows[r].rolled
  /\ rows[r].sendable => x.sendable
  /\ There(r) => x.status # "absent"

\* Such a row may be written.
LEMMA ColumnsKept ==
  ASSUME MediaInv, NEW r \in Rows, There(r), NEW x, Redone(r, x), rows' = [rows EXCEPT ![r] = x]
  PROVE  RowKept
BY DEF RowKept, Redone

\* What a failed, a generated, an uploaded and an older row is.
LEMMA NewColumns ==
  ASSUME MediaInv, NEW r \in Rows
  PROVE  /\ Redone(r, [rows[r] EXCEPT !.status = "failed"])
         /\ Redone(r, [rows[r] EXCEPT !.file = TRUE, !.status = "queued", !.sendable = TRUE])
         /\ Redone(r, [rows[r] EXCEPT !.status = "queued", !.sendable = TRUE])
         /\ \A st \in {rows[r].status, "ready"} :
              Redone(r, [rows[r] EXCEPT !.url = TRUE, !.stamp = "fresh", !.status = st])
         /\ Redone(r, [rows[r] EXCEPT !.young = FALSE])
         /\ Redone(r, [rows[r] EXCEPT !.stamp = "old"])
<1>1. rows[r] \in RowType
  BY DEF MediaInv, MediaTypes
<1>2. Redone(r, [rows[r] EXCEPT !.status = "failed"])
  BY <1>1 DEF RowType, Redone
<1>3. Redone(r, [rows[r] EXCEPT !.file = TRUE, !.status = "queued", !.sendable = TRUE])
  BY <1>1 DEF RowType, Redone
<1>4. Redone(r, [rows[r] EXCEPT !.status = "queued", !.sendable = TRUE])
  BY <1>1 DEF RowType, Redone
<1>5. \A st \in {rows[r].status, "ready"} :
        Redone(r, [rows[r] EXCEPT !.url = TRUE, !.stamp = "fresh", !.status = st])
  BY <1>1 DEF RowType, Redone, There
<1>6. Redone(r, [rows[r] EXCEPT !.young = FALSE])
  BY <1>1 DEF RowType, Redone, There
<1>7. Redone(r, [rows[r] EXCEPT !.stamp = "old"])
  BY <1>1 DEF RowType, Redone, There
<1> QED BY <1>2, <1>3, <1>4, <1>5, <1>6, <1>7

\* The job of a row and what it writes there.
LEMMA WrittenKept ==
  ASSUME MediaInv, UNCHANGED <<kind, make, dash>>,
         NEW r \in Rows, There(r), NEW q \in Queues, NEW j \in JobType,
         jobs' = [jobs EXCEPT ![r][q] = j],
         \/ rows' = rows
         \/ rows' = Failed(r)
         \/ rows' = Stored(r)
         \/ \E reload \in BOOLEAN : rows' = Recorded(r, reload)
  PROVE  Kept
<1>1. rows \in [Rows -> RowType] /\ rows[r] \in RowType
  BY DEF MediaInv, MediaTypes
<1>2. CASE rows' = rows
  BY <1>2, JobKept DEF RowKept
<1>3. CASE rows' = Failed(r)
  <2>1. rows' = [rows EXCEPT ![r] = [rows[r] EXCEPT !.status = "failed"]]
    BY <1>1, <1>3 DEF Failed
  <2> QED BY <2>1, NewColumns, ColumnsKept, JobKept
<1>4. CASE rows' = Stored(r)
  <2>1. rows' = [rows EXCEPT ![r] =
                   [rows[r] EXCEPT !.file = TRUE, !.status = "queued", !.sendable = TRUE]]
    BY <1>1, <1>4 DEF Stored
  <2> QED BY <2>1, NewColumns, ColumnsKept, JobKept
<1>5. ASSUME NEW reload \in BOOLEAN, rows' = Recorded(r, reload) PROVE Kept
  <2> DEFINE st == IF reload THEN rows[r].status ELSE "ready"
  <2>1. rows' = [rows EXCEPT ![r] =
                   [rows[r] EXCEPT !.url = TRUE, !.stamp = "fresh", !.status = st]]
    BY <1>5 DEF Recorded
  <2>2. st \in {rows[r].status, "ready"}
    OBVIOUS
  <2> HIDE DEF st
  <2> QED BY <2>1, <2>2, NewColumns, ColumnsKept, JobKept
<1> QED BY <1>2, <1>3, <1>4, <1>5

\* Generating, carrying to WhatsApp and again keep what the makers rely on.
LEMMA JobsKept == ASSUME MediaInv, NEW r \in Rows, JobStep(r) PROVE Kept
<1>1. rows \in [Rows -> RowType] /\ jobs \in [Rows -> [Queues -> JobType]]
  BY DEF MediaInv, MediaTypes
<1>2. CASE Speak(r)
  <2>1. "generate" \in Queues /\ At(r, "generate", "wait")
    BY <1>2 DEF Queues, Speak
  <2>2. There(r) /\ jobs[r]["generate"] \in JobType
    BY <2>1, AtWork
  <2>3. [jobs[r]["generate"] EXCEPT !.at = "add"] \in JobType
    BY <2>2, JobsOfType
  <2> QED BY <1>2, <2>1, <2>2, <2>3, WrittenKept DEF Speak, SetJob
<1>3. CASE Render(r)
  <2>1. There(r)
    BY <1>3, AtWork DEF Render, Queues
  <2>2. rows' = [rows EXCEPT ![r] = [rows[r] EXCEPT !.status = "queued", !.sendable = TRUE]]
    BY <1>1, <1>3 DEF Render
  <2>3. RowKept
    BY <2>1, <2>2, NewColumns, ColumnsKept
  <2>4. "generate" \in Queues /\ "webhook" \in Queues
    BY DEF Queues
  <2> DEFINE job == [jobs[r]["webhook"] EXCEPT !.at = "rendering"]
             js == [[jobs[r] EXCEPT !["generate"] = NoJob] EXCEPT !["webhook"] = job]
  <2>5. job \in JobType
    BY <1>1, <2>4, JobsOfType
  <2>6. NoJob \in JobType
    BY DEF NoJob, JobType
  <2>7. js \in [Queues -> JobType]
    BY <1>1, <2>4, <2>5, <2>6
  <2>8. jobs' = [jobs EXCEPT ![r] = js]
    BY <1>1, <1>3, <2>4 DEF Render
  <2> HIDE DEF js
  <2>9. jobs' \in [Rows -> [Queues -> JobType]] /\ \A s \in Rows : s # r => jobs'[s] = jobs[s]
    BY <1>1, <2>7, <2>8
  <2> QED BY <1>3, <2>1, <2>3, <2>9
       DEF Render, MediaInv, MediaTypes, JobsInv, AdminInv, Kept, dash
<1>4. CASE NotGenerated(r)
  <2>1. "generate" \in Queues /\ At(r, "generate", "wait")
    BY <1>4 DEF Queues, NotGenerated
  <2>2. There(r) /\ jobs[r]["generate"] \in JobType
    BY <2>1, AtWork
  <2>3. NoJob \in JobType /\ Retry(jobs[r]["generate"]) \in JobType
    BY <2>2, JobsOfType
  <2>4. \E j \in JobType : jobs' = [jobs EXCEPT ![r]["generate"] = j]
    BY <1>4, <2>3 DEF NotGenerated, SetJob
  <2>5. rows' = rows \/ rows' = Failed(r)
    BY <1>4 DEF NotGenerated
  <2> QED BY <1>4, <2>1, <2>2, <2>4, <2>5, WrittenKept DEF NotGenerated
<1>5. CASE Callback(r)
  <2>1. "webhook" \in Queues /\ At(r, "webhook", "rendering")
    BY <1>5 DEF Queues, Callback
  <2>2. There(r) /\ jobs[r]["webhook"] \in JobType
    BY <2>1, AtWork
  <2>3. NewJob(FALSE) \in JobType
    BY <2>2, JobsOfType
  <2>4. \A at \in {"wait", "fail"} : [NewJob(FALSE) EXCEPT !.at = at] \in JobType
    BY <2>3, JobsOfType
  <2>5. \E j \in JobType : jobs' = [jobs EXCEPT ![r]["webhook"] = j]
    BY <1>5, <2>4 DEF Callback, SetJob
  <2>6. rows' = rows
    BY <1>5 DEF Callback
  <2> QED BY <1>5, <2>1, <2>2, <2>5, <2>6, WrittenKept DEF Callback
<1>6. CASE Webhook(r)
  <2>1. "webhook" \in Queues /\ (At(r, "webhook", "fail") \/ At(r, "webhook", "wait"))
    BY <1>6 DEF Queues, Webhook
  <2>2. There(r) /\ jobs[r]["webhook"] \in JobType
    BY <2>1, AtWork
  <2>3. /\ NoJob \in JobType /\ Retry(jobs[r]["webhook"]) \in JobType
        /\ [jobs[r]["webhook"] EXCEPT !.at = "add"] \in JobType
    BY <2>2, JobsOfType
  <2>4. \E j \in JobType : jobs' = [jobs EXCEPT ![r]["webhook"] = j]
    BY <1>6, <2>3 DEF Webhook, SetJob
  <2>5. rows' = rows \/ rows' = Failed(r) \/ rows' = Stored(r)
    BY <1>6 DEF Webhook
  <2> QED BY <1>6, <2>1, <2>2, <2>4, <2>5, WrittenKept DEF Webhook
<1>7. ASSUME NEW q \in Queues, AddPreload(r, q) PROVE Kept
  <2>1. There(r) /\ jobs[r][q] \in JobType /\ "preload" \in Queues
    BY <1>7, AtWork DEF AddPreload, Queues
  <2>2. NoJob \in JobType /\ NewJob(FALSE) \in JobType
    BY <2>1, JobsOfType
  <2>3. CASE SetJob(r, q, Retry([jobs[r][q] EXCEPT !.at = "wait"]))
    <3>1. [jobs[r][q] EXCEPT !.at = "wait"] \in JobType
      BY <2>1, JobsOfType
    <3>2. Retry([jobs[r][q] EXCEPT !.at = "wait"]) \in JobType
      BY <3>1, JobsOfType
    <3> QED BY <1>7, <2>1, <2>3, <3>2, WrittenKept DEF AddPreload, SetJob
  <2>4. CASE jobs' = [jobs EXCEPT ![r][q] = NoJob, ![r]["preload"] = NewJob(FALSE)]
    <3> DEFINE js == [[jobs[r] EXCEPT ![q] = NoJob] EXCEPT !["preload"] = NewJob(FALSE)]
    <3>1. js \in [Queues -> JobType]
      BY <1>1, <2>1, <2>2
    <3>2. jobs' = [jobs EXCEPT ![r] = js]
      BY <1>1, <2>1, <2>4
    <3> HIDE DEF js
    <3>3. jobs' \in [Rows -> [Queues -> JobType]] /\ \A s \in Rows : s # r => jobs'[s] = jobs[s]
      BY <1>1, <3>1, <3>2
    <3> QED BY <1>7, <2>1, <3>3
         DEF AddPreload, MediaInv, MediaTypes, JobsInv, AdminInv, Kept, RowKept, dash
  <2> QED BY <1>7, <2>3, <2>4 DEF AddPreload
<1>8. ASSUME NEW q \in Queues, PreloadRead(r, q) \/ NotUploaded(r, q) \/ Uploaded(r, q) \/ Uncache(r, q)
      PROVE  Kept
  <2>1. There(r) /\ jobs[r][q] \in JobType
    BY <1>8, AtWork DEF PreloadRead, NotUploaded, Uploaded, Uncache
  <2>2. [jobs[r][q] EXCEPT !.at = "wait"] \in JobType
    BY <2>1, JobsOfType
  <2>3. /\ NoJob \in JobType /\ Retry([jobs[r][q] EXCEPT !.at = "wait"]) \in JobType
        /\ [jobs[r][q] EXCEPT !.at = "upload"] \in JobType
        /\ [jobs[r][q] EXCEPT !.at = "uncache"] \in JobType
    BY <2>1, <2>2, JobsOfType
  <2>4. \E j \in JobType : jobs' = [jobs EXCEPT ![r][q] = j]
    BY <1>8, <2>3 DEF PreloadRead, NotUploaded, Uploaded, Uncache, SetJob
  <2>5. rows' = rows \/ rows' = Failed(r) \/ rows' = Recorded(r, jobs[r][q].reload)
    BY <1>8 DEF PreloadRead, NotUploaded, Uploaded, Uncache
  <2>6. jobs[r][q].reload \in BOOLEAN
    BY <2>1 DEF JobType
  <2>7. UNCHANGED <<kind, make, dash>>
    BY <1>8 DEF PreloadRead, NotUploaded, Uploaded, Uncache
  <2> QED BY <2>1, <2>4, <2>5, <2>6, <2>7, WrittenKept
<1> QED BY <1>2, <1>3, <1>4, <1>5, <1>6, <1>7, <1>8 DEF JobStep

\* The sweep, and the time that passes.
LEMMA TimeKept ==
  ASSUME MediaInv, Sweep \/ \E r \in Rows : GrowOld(r) \/ Expire(r)
  PROVE  Kept
<1>1. CASE Sweep
  <2>1. /\ jobs \in [Rows -> [Queues -> JobType]] /\ "sweep" \in Queues
        /\ \A b \in BOOLEAN : NewJob(b) \in JobType
    BY DEF MediaInv, MediaTypes, Queues, NewJob, JobType
  <2> DEFINE js(r) == [jobs[r] EXCEPT !["sweep"] =
                         IF Eligible(r) THEN NewJob(rows[r].status = "ready") ELSE @]
  <2>2. ASSUME NEW r \in Rows
        PROVE  /\ js(r) \in [Queues -> JobType]
               /\ \A q \in Queues : js(r)[q].at # "none" => There(r)
    <3>1. (rows[r].status = "ready") \in BOOLEAN
      OBVIOUS
    <3>2. Eligible(r) => There(r)
      BY DEF Eligible, There
    <3>3. \A q \in Queues : jobs[r][q].at # "none" => There(r)
      BY DEF MediaInv, JobsInv
    <3>4. CASE Eligible(r)
      BY <2>1, <3>1, <3>2, <3>4
    <3>5. CASE ~Eligible(r)
      BY <2>1, <3>3, <3>5
    <3> QED BY <3>4, <3>5
  <2>3. jobs' = [r \in Rows |-> js(r)]
    BY <1>1 DEF Sweep
  <2> HIDE DEF js
  <2>4. jobs' \in [Rows -> [Queues -> JobType]]
        /\ \A r \in Rows, q \in Queues : jobs'[r][q].at # "none" => There(r)
    BY <2>2, <2>3
  <2> QED BY <1>1, <2>4 DEF Sweep, MediaInv, MediaTypes, Kept, RowKept, AdminInv, dash
<1>2. ASSUME NEW r \in Rows, GrowOld(r) \/ Expire(r) PROVE Kept
  <2>1. rows \in [Rows -> RowType] /\ There(r)
    BY <1>2, ThereIsNotAbsent DEF MediaInv, MediaTypes, GrowOld, Expire, Quiet
  <2>2. \/ rows' = [rows EXCEPT ![r] = [rows[r] EXCEPT !.young = FALSE]]
        \/ rows' = [rows EXCEPT ![r] = [rows[r] EXCEPT !.stamp = "old"]]
    BY <1>2, <2>1 DEF GrowOld, Expire
  <2>3. RowKept
    BY <2>1, <2>2, NewColumns, ColumnsKept
  <2> QED BY <1>2, <2>3 DEF GrowOld, Expire, MediaInv, MediaTypes, Kept, AdminInv, JobsInv, dash
<1> QED BY <1>1, <1>2

\* The dashboard; what is rolled back or switched is an edit.
LEMMA AdminKept == ASSUME MediaInv, AdminStep PROVE Kept
<1>1. rows \in [Rows -> RowType] /\ edits \in Nat
  BY DEF MediaInv, MediaTypes
<1>2. CASE Flag
  <2> DEFINE r == admin.row
             x == [rows[r] EXCEPT !.rolled = TRUE]
  <2>1. There(r) /\ edits > 0 /\ UNCHANGED edits
    BY <1>2 DEF MediaInv, AdminInv, Flag
  <2>2. x \in RowType /\ x.status # "absent" /\ x.born = rows[r].born /\ x.rolled = TRUE
    <3>1. rows[r] \in RowType /\ rows[r].status # "absent"
      BY <1>1, <2>1 DEF There
    <3> QED BY <3>1 DEF RowType
  <2>3. rows' = [rows EXCEPT ![r] = x]
    BY <1>1, <1>2, <2>1 DEF Flag, There
  <2>4. r \in Rows
    BY <2>1 DEF There
  <2> HIDE DEF r, x
  <2>5. RowKept
    <3>1. edits' # 0
      BY <1>1, <2>1, <2>4
    <3>2. x \in RowType /\ (rows[r].rolled => x.rolled)
      BY <2>2
    <3> QED BY <2>1, <2>2, <2>3, <2>4, <3>1, <3>2 DEF RowKept, There
  <2>6. admin'.row = admin.row
    BY <1>2 DEF Flag, Dash
  <2> QED BY <1>1, <1>2, <2>1, <2>5, <2>6 DEF Flag, MediaInv, MediaTypes, Kept, JobsInv, r
<1>3. CASE Drop \/ Delete
  <2>1. UNCHANGED <<kind, make, rows, jobs, edits>>
    BY <1>3 DEF Drop, Delete
  <2>2. admin.at # "idle"
    BY <1>3 DEF Drop, Delete
  <2>3. admin'.at = "idle" \/ admin'.row = admin.row
    BY <1>3 DEF Drop, Delete, Dash, Done
  <2> QED BY <2>1, <2>2, <2>3 DEF MediaInv, MediaTypes, Kept, RowKept, JobsInv, AdminInv
<1>4. ASSUME NEW r \in Rows, BeginRollback(r) PROVE Kept
  <2>1. There(r)
    BY <1>4, ThereIsNotAbsent DEF MediaInv, BeginRollback
  <2>2. admin'.row = r /\ edits' = edits + 1 /\ UNCHANGED <<kind, make, rows, jobs>>
    BY <1>4 DEF BeginRollback, Dash
  <2> QED BY <1>1, <2>1, <2>2 DEF MediaInv, MediaTypes, Kept, RowKept, JobsInv
<1>5. ASSUME NEW r \in Rows, SetSendable(r) PROVE Kept
  <2> DEFINE x == [rows[r] EXCEPT !.sendable = ~@]
  <2>1. There(r)
    BY <1>5, ThereIsNotAbsent DEF MediaInv, SetSendable
  <2>2. x \in RowType /\ x.status # "absent" /\ x.born = rows[r].born /\ x.rolled = rows[r].rolled
    BY <1>1, <2>1 DEF RowType, There
  <2>3. rows' = [rows EXCEPT ![r] = x]
    BY <1>1, <1>5 DEF SetSendable
  <2>4. edits' = edits + 1 /\ UNCHANGED <<kind, make, jobs, admin>>
    BY <1>5 DEF SetSendable
  <2> HIDE DEF x
  <2>5. RowKept
    <3>1. edits' # 0
      BY <1>1, <2>1, <2>4
    <3>2. x \in RowType /\ (rows[r].rolled => x.rolled)
      BY <2>2
    <3> QED BY <2>1, <2>2, <2>3, <2>4, <3>1, <3>2 DEF RowKept, There
  <2> QED BY <1>1, <2>4, <2>5 DEF MediaInv, MediaTypes, Kept, JobsInv, AdminInv
<1> QED BY <1>2, <1>3, <1>4, <1>5 DEF AdminStep

\* The lookups, but for the drill word's insert.
LEMMA LookKept ==
  ASSUME MediaInv, NEW p \in Readers, LookStep(p), rows' = rows PROVE Kept
BY StillKept DEF LookStep, Lookup, Ensure, Fill, dash

\* A row that no maker works on is inserted: an uploaded text, the drill word.
LEMMA InsertStep ==
  ASSUME MediaInv, NEW r \in Rows, rows[r] = Absent, kind[r] \in {"text", "auto"},
         rows' = [rows EXCEPT ![r] = Fresh("ready", FALSE)],
         UNCHANGED <<kind, make, jobs, dash>>
  PROVE  MediaInv' /\ (CardInv /\ UNCHANGED send => CardInv')
<1>1. /\ rows' \in [Rows -> RowType]
      /\ \A s \in Rows : s # r => rows'[s] = rows[s]
      /\ \A s : There(s)' <=> There(s) \/ s = r
      /\ Cards' = Cards /\ RowsInv'
  BY RowInserted DEF MediaInv
<1>2. MediaTypes' /\ MakeInv'
  BY <1>1 DEF MediaInv, MediaTypes, MakeInv, Holds, MakeType, Idle, Absent, dash
<1>3. JobsInv' /\ AdminInv'
  BY <1>1 DEF MediaInv, JobsInv, AdminInv, dash
<1>4. ASSUME CardInv, UNCHANGED send PROVE CardInv'
  <2>1. Loose' \subseteq Loose /\ Rendering' = Rendering
    BY <1>1, <1>4 DEF Loose, Rendering, Cards
  <2>2. IsFiniteSet(Loose') /\ Cardinality(Loose') + Cardinality(Rendering') <= Cardinality(Senders)
    BY <1>4, <2>1, NoLooser
  <2> QED BY <1>4, <2>2 DEF CardInv, Idle, Absent
<1> QED BY <1>1, <1>2, <1>3, <1>4 DEF MediaInv

-----------------------------------------------------------------------------
(* The makers.                                                             *)

\* A maker that is idle.
LEMMA IdleMaker == Idle \in MakeType /\ Idle.row = Null /\ Idle.at = "idle"
BY AbsentIsRow DEF Idle, MakeType

\* A save writes columns of the caller's copy and leaves the others.
LEMMA SaveDiff ==
  ASSUME NEW db \in RowType, NEW seen \in RowType, NEW copy \in RowType,
         db.status # "absent", copy.status # "absent", ~copy.rolled, copy.sendable
  PROVE  LET d == Diffed(db, seen, copy)
         IN  /\ d \in RowType /\ d.status # "absent" /\ d.born = db.born
             /\ ~db.rolled => ~d.rolled
             /\ db.sendable => d.sendable
<1> DEFINE d == Diffed(db, seen, copy)
           new(c) == IF copy[c] # seen[c] THEN copy[c] ELSE db[c]
<1>1. DOMAIN db = {"status", "file", "url", "stamp", "rolled", "sendable", "young", "born"}
  BY DEF RowType
<1>2. d = [status |-> new("status"), file |-> new("file"), url |-> new("url"),
           stamp |-> new("stamp"), rolled |-> new("rolled"), sendable |-> new("sendable"),
           young |-> db.young, born |-> db.born]
  BY <1>1 DEF Diffed, Columns
<1>3. /\ new("status") \in {"absent", "created", "queued", "ready", "failed"} \ {"absent"}
      /\ new("file") \in BOOLEAN /\ new("url") \in BOOLEAN
      /\ new("stamp") \in {"none", "fresh", "old"}
      /\ new("rolled") \in BOOLEAN /\ new("sendable") \in BOOLEAN
      /\ db.young \in BOOLEAN /\ db.born \in Nat
  BY DEF RowType
<1>4. (~db.rolled => ~new("rolled")) /\ (db.sendable => new("sendable"))
  BY DEF RowType
<1> HIDE DEF new
<1>5. d \in RowType /\ d.status = new("status") /\ d.born = db.born
      /\ d.rolled = new("rolled") /\ d.sendable = new("sendable")
  BY <1>2, <1>3 DEF RowType
<1> HIDE DEF d
<1> QED BY <1>3, <1>4, <1>5 DEF d

\* A maker goes on while no row goes.
LEMMA MakerSet ==
  ASSUME MediaInv, UNCHANGED kind, \A s : There(s) => There(s)',
         NEW p \in Makers, NEW m \in MakeType, m = Idle \/ Holds(m)',
         make' = [make EXCEPT ![p] = m]
  PROVE  /\ make' \in [Makers -> MakeType] /\ make'[p] = m
         /\ \A o \in Makers : o # p => make'[o] = make[o]
         /\ MakeInv'
<1>1. /\ make' \in [Makers -> MakeType] /\ make'[p] = m
      /\ \A o \in Makers : o # p => make'[o] = make[o]
  BY DEF MediaInv, MediaTypes
<1>2. Idle' = Idle
  BY DEF Idle, Absent
<1>3. \A o \in Makers : o # p /\ make[o] # Idle => Holds(make[o])'
  BY <1>1 DEF MediaInv, MakeInv, Holds
<1> QED BY <1>1, <1>2, <1>3 DEF MakeInv, Holds

\* ... and takes up or drops no card.
LEMMA MakerCards ==
  ASSUME MediaInv, CardInv, UNCHANGED <<kind, send>>,
         NEW p \in Makers, NEW m \in MakeType, make' = [make EXCEPT ![p] = m],
         make[p] # Idle /\ kind[make[p].row] = "report" => m.row = make[p].row,
         m # Idle /\ kind[m.row] = "report" => make[p] # Idle /\ make[p].row = m.row,
         \A s \in Rows : s # make[p].row /\ s \in Cards' =>
            s \in Cards /\ rows'[s].rolled = rows[s].rolled
  PROVE  CardInv'
<1>1. /\ make'[p] = m /\ \A o \in Makers : o # p => make'[o] = make[o]
      /\ Idle' = Idle /\ Idle.row = Null /\ Null \notin Rows
  BY MediaAssumption DEF MediaInv, MediaTypes, Idle, Absent
<1>2. ASSUME NEW s \in Loose' PROVE s \in Loose
  <2>1. s \in Rows /\ s \in Cards' /\ kind[s] = "report" /\ ~rows'[s].rolled
        /\ \A o \in Makers : make'[o].row # s
    BY DEF Loose, Cards
  <2>2. make[p].row # s
    <3> SUFFICES ASSUME make[p].row = s PROVE FALSE
      OBVIOUS
    <3>1. make[p] # Idle
      BY <1>1, <2>1
    <3> QED BY <1>1, <2>1, <3>1
  <2> QED BY <1>1, <2>1, <2>2 DEF Loose
<1>3. Rendering' = Rendering
  BY DEF Rendering
<1>4. IsFiniteSet(Loose') /\ Cardinality(Loose') + Cardinality(Rendering') <= Cardinality(Senders)
  BY <1>2, <1>3, NoLooser
<1>5. \A o \in Makers : make'[o] # Idle =>
        (kind[make'[o].row] = "report" => o \in Senders /\ send[o].at = "render")
  BY <1>1 DEF CardInv
<1> QED BY <1>1, <1>4, <1>5 DEF CardInv

\* A file is uploaded as a new row or over a failed one.
LEMMA UploadStep ==
  ASSUME MediaInv, NEW r \in Rows, NEW p \in Makers, UploadFile(p, r)
  PROVE  MediaInv' /\ (CardInv /\ UNCHANGED send => CardInv')
<1>1. /\ make[p] = Idle /\ kind[r] \in {"picture", "recording"} /\ Null \notin Rows
      /\ UNCHANGED <<kind, jobs, admin>>
      /\ rows \in [Rows -> RowType] /\ edits \in Nat
  BY MediaAssumption DEF UploadFile, MediaInv, MediaTypes
<1>2. CASE rows[r] = Absent /\ rows' = [rows EXCEPT ![r] = Fresh("created", TRUE)] /\ UNCHANGED edits
           /\ make' = [make EXCEPT ![p] = [Idle EXCEPT !.at = "enqueue", !.row = r, !.copy = rows'[r]]]
  <2>1. /\ rows' \in [Rows -> RowType] /\ rows'[r] = Fresh("created", TRUE)
        /\ \A s \in Rows : s # r => rows'[s] = rows[s]
        /\ \A s : There(s)' <=> There(s) \/ s = r
        /\ Cards' = Cards /\ RowsInv'
    BY <1>1, <1>2, RowInserted DEF MediaInv
  <2>7. PICK m : m = [Idle EXCEPT !.at = "enqueue", !.row = r, !.copy = rows'[r]]
    OBVIOUS
  <2>2. /\ m \in MakeType /\ m.row = r /\ m.at = "enqueue" /\ m.copy = Fresh("created", TRUE)
    BY <2>1, <2>7, IdleMaker DEF MakeType
  <2>8. make' = [make EXCEPT ![p] = m]
    BY <1>2, <2>7
  <2>3. Holds(m)'
    BY <1>1, <2>1, <2>2, FreshIsRow DEF Holds, MediaInv
  <2>4. make' \in [Makers -> MakeType] /\ MakeInv'
    BY <1>1, <2>1, <2>2, <2>3, <2>8, MakerSet
  <2>5. MediaInv'
    BY <1>1, <1>2, <2>1, <2>4 DEF MediaInv, MediaTypes, JobsInv, AdminInv
  <2>6. CardInv /\ UNCHANGED send => CardInv'
    <3>1. \A s \in Rows : s # make[p].row /\ s \in Cards' =>
             s \in Cards /\ rows'[s].rolled = rows[s].rolled
      BY <1>1, <2>1 DEF Cards
    <3> QED BY <1>1, <2>2, <2>8, <3>1, MakerCards
  <2> QED BY <2>5, <2>6
<1>3. CASE rows[r].status = "failed" /\ UNCHANGED rows /\ edits' = edits + 1
           /\ make' = [make EXCEPT ![p] =
                [Idle EXCEPT !.at = "select", !.row = r, !.next = "enqueue",
                   !.copy = [rows[r] EXCEPT !.status = "created", !.file = TRUE,
                                            !.rolled = FALSE, !.sendable = TRUE]]]
  <2> DEFINE c == [rows[r] EXCEPT !.status = "created", !.file = TRUE,
                                  !.rolled = FALSE, !.sendable = TRUE]
  <2>1. c \in RowType /\ c.status = "created" /\ ~c.rolled /\ c.sendable
    BY <1>1 DEF RowType
  <2>2. There(r) /\ \A s : There(s)' <=> There(s)
    BY <1>3 DEF There
  <2> HIDE DEF c
  <2>9. PICK m : m = [Idle EXCEPT !.at = "select", !.row = r, !.next = "enqueue", !.copy = c]
    OBVIOUS
  <2>3. m \in MakeType /\ m.row = r /\ m.at = "select" /\ m.copy = c
    BY <2>1, <2>9, IdleMaker DEF MakeType
  <2>4. make' = [make EXCEPT ![p] = m]
    BY <1>3, <2>9 DEF c
  <2>5. Holds(m)'
    BY <1>1, <2>1, <2>2, <2>3 DEF Holds
  <2>6. make' \in [Makers -> MakeType] /\ MakeInv'
    BY <1>1, <2>2, <2>3, <2>4, <2>5, MakerSet
  <2>7. MediaInv'
    BY <1>1, <1>3, <2>2, <2>6 DEF MediaInv, MediaTypes, JobsInv, AdminInv, RowsInv, Cards
  <2>8. CardInv /\ UNCHANGED send => CardInv'
    BY <1>1, <1>3, <2>3, <2>4, MakerCards DEF Cards
  <2> QED BY <2>7, <2>8
<1> QED BY <1>2, <1>3 DEF UploadFile

\* A row is inserted before it has a file.
LEMMA InsertRowStep ==
  ASSUME MediaInv, NEW r \in Rows, NEW p \in Makers, InsertRow(p, r)
  PROVE  /\ MediaInv'
         /\ make[p] = Idle /\ make'[p].row = r /\ make'[p] # Idle
         /\ \A o \in Makers : o # p => make'[o] = make[o]
         /\ \A s \in Rows : s # r /\ s \in Cards' => s \in Cards /\ rows'[s] = rows[s]
         /\ kind[r] # "report" /\ CardInv /\ UNCHANGED send => CardInv'
<1>1. /\ make[p] = Idle /\ rows[r] = Absent /\ rows' = [rows EXCEPT ![r] = Fresh("created", FALSE)]
      /\ UNCHANGED <<kind, jobs, admin, edits>> /\ Null \notin Rows
  BY MediaAssumption DEF InsertRow, dash
<1>2. /\ rows' \in [Rows -> RowType] /\ rows'[r] = Fresh("created", FALSE)
      /\ \A s \in Rows : s # r => rows'[s] = rows[s]
      /\ \A s : There(s)' <=> There(s) \/ s = r
      /\ Cards' = Cards \cup (IF kind[r] = "report" THEN {r} ELSE {})
      /\ IsFiniteSet(Cards') /\ RowsInv'
  BY <1>1, RowInserted DEF MediaInv
<1>3. PICK m : m = [Idle EXCEPT !.row = r, !.copy = rows'[r],
                       !.at = IF kind[r] = "report" THEN "store" ELSE "enqueue"]
  OBVIOUS
<1>4. /\ m \in MakeType /\ m.row = r /\ m.at \in {"store", "enqueue"}
      /\ m.copy = Fresh("created", FALSE)
  BY <1>2, <1>3, IdleMaker DEF MakeType
<1>5. make' = [make EXCEPT ![p] = m]
  BY <1>1, <1>3 DEF InsertRow
<1>6. Holds(m)'
  BY <1>1, <1>2, <1>4, FreshIsRow DEF Holds, MediaInv
<1>7. /\ make' \in [Makers -> MakeType] /\ make'[p] = m /\ MakeInv'
      /\ \A o \in Makers : o # p => make'[o] = make[o]
  BY <1>1, <1>2, <1>4, <1>5, <1>6, MakerSet
<1>8. MediaInv'
  BY <1>1, <1>2, <1>7 DEF MediaInv, MediaTypes, JobsInv, AdminInv
<1>9. \A s \in Rows : s # r /\ s \in Cards' => s \in Cards /\ rows'[s] = rows[s]
  BY <1>2 DEF Cards
<1>10. ASSUME kind[r] # "report", CardInv, UNCHANGED send PROVE CardInv'
  <2>1. \A s \in Rows : s \in Cards' => s \in Cards /\ rows'[s] = rows[s]
    BY <1>2, <1>10 DEF Cards
  <2> QED BY <1>1, <1>4, <1>5, <1>10, <2>1, MakerCards
<1>11. m # Idle
  BY <1>1, <1>4, IdleMaker
<1> QED BY <1>1, <1>4, <1>7, <1>8, <1>9, <1>10, <1>11

\* A maker that writes nothing to the table.
LEMMA MakerOnly ==
  ASSUME MediaInv, NEW p \in Makers, make[p] # Idle,
         NEW m \in MakeType, m = Idle \/ (Holds(m) /\ m.row = make[p].row),
         m = Idle => kind[make[p].row] # "report",
         make' = [make EXCEPT ![p] = m], UNCHANGED <<kind, rows, dash>>,
         \/ UNCHANGED jobs
         \/ \E q \in Queues : \E j \in JobType : jobs' = [jobs EXCEPT ![make[p].row][q] = j]
  PROVE  MediaInv' /\ (CardInv /\ UNCHANGED send => CardInv')
<1>1. /\ There(make[p].row) /\ make[p].row \in Rows
      /\ \A s : There(s)' <=> There(s)
  BY DEF MediaInv, MakeInv, Holds, There
<1>2. m = Idle \/ Holds(m)'
  BY <1>1 DEF Holds
<1>3. make' \in [Makers -> MakeType] /\ MakeInv'
  BY <1>1, <1>2, MakerSet
<1>4. /\ jobs' \in [Rows -> [Queues -> JobType]]
      /\ \A s \in Rows, o \in Queues : jobs'[s][o].at # "none" => There(s)
  BY <1>1, JobSet DEF MediaInv, MediaTypes, JobsInv
<1>5. MediaInv'
  BY <1>1, <1>3, <1>4 DEF MediaInv, MediaTypes, RowsInv, Cards, JobsInv, AdminInv, dash
<1>6. CardInv /\ UNCHANGED send => CardInv'
  <2>1. Cards' = Cards
    BY DEF Cards
  <2> QED BY <2>1, MakerCards
<1> QED BY <1>5, <1>6

\* A maker that writes to its row.
LEMMA MakerWrites ==
  ASSUME MediaInv, NEW p \in Makers, make[p] # Idle,
         NEW m \in MakeType, m = Idle \/ m.row = make[p].row,
         m # Idle => /\ m.at # "idle" /\ m.copy.status # "absent"
                     /\ ~m.copy.rolled /\ m.copy.sendable
                     /\ m.at \notin {"mark", "select", "write"},
         m = Idle => kind[make[p].row] # "report",
         make' = [make EXCEPT ![p] = m], UNCHANGED <<kind, jobs, dash>>,
         NEW x \in RowType, x.status # "absent", x.born = rows[make[p].row].born,
         rows' = [rows EXCEPT ![make[p].row] = x]
  PROVE  MediaInv' /\ (CardInv /\ UNCHANGED send => CardInv')
<1>1. There(make[p].row) /\ make[p].row \in Rows
  BY DEF MediaInv, MakeInv, Holds, There
<1>2. /\ rows' \in [Rows -> RowType]
      /\ \A s \in Rows : s # make[p].row => rows'[s] = rows[s]
      /\ \A s : There(s)' <=> There(s)
      /\ Cards' = Cards /\ RowsInv'
  BY <1>1, RowWritten DEF MediaInv
<1>3. m = Idle \/ Holds(m)'
  BY <1>1, <1>2 DEF Holds
<1>4. make' \in [Makers -> MakeType] /\ MakeInv'
  BY <1>2, <1>3, MakerSet
<1>5. MediaInv'
  BY <1>2, <1>4 DEF MediaInv, MediaTypes, JobsInv, AdminInv, dash
<1>6. CardInv /\ UNCHANGED send => CardInv'
  <2>1. \A s \in Rows : s # make[p].row /\ s \in Cards' =>
           s \in Cards /\ rows'[s].rolled = rows[s].rolled
    BY <1>2
  <2> QED BY <2>1, MakerCards
<1> QED BY <1>5, <1>6

\* Storing, enqueueing, marking and saving.
LEMMA MakerKept ==
  ASSUME MediaInv, NEW p \in Makers, MakerStep(p)
  PROVE  MediaInv' /\ (CardInv /\ UNCHANGED send => CardInv')
<1> DEFINE w == make[p]
           r == make[p].row
<1>1. /\ w \in MakeType /\ w # Idle /\ Holds(w) /\ r \in Rows /\ There(r)
      /\ rows \in [Rows -> RowType] /\ rows[r] \in RowType /\ rows[r].status # "absent"
      /\ kind[r] \in {"picture", "recording", "text", "report", "tts", "video", "auto"}
  <2>1. w.at # "idle"
    BY DEF MakerStep, StoreImage, Enqueue, Mark, SaveSelect, SaveWrite
  <2>2. w # Idle
    BY <2>1, IdleMaker
  <2> QED BY <2>2 DEF MediaInv, MediaTypes, MakeInv, Holds, There
<1> HIDE DEF w, r
<1>2. CASE StoreImage(p)
  <2>1. PICK m : /\ make' = [make EXCEPT ![p] = m]
                 /\ \/ m = [w EXCEPT !.at = "select", !.next = "enqueue", !.copy.file = TRUE]
                    \/ m = [w EXCEPT !.at = "select", !.next = "thrown", !.copy.status = "failed"]
    BY <1>2 DEF StoreImage, w
  <2>2. /\ m \in MakeType /\ m.row = r /\ m.at = "select" /\ m.next # "idle"
        /\ m.copy.status # "absent" /\ ~m.copy.rolled /\ m.copy.sendable
    <3>1. /\ [w.copy EXCEPT !.file = TRUE] \in RowType
          /\ [w.copy EXCEPT !.status = "failed"] \in RowType
      BY <1>1 DEF MakeType, RowType
    <3>2. CASE m = [w EXCEPT !.at = "select", !.next = "enqueue", !.copy.file = TRUE]
      <4>1. m.copy = [w.copy EXCEPT !.file = TRUE]
        BY <1>1, <3>2 DEF MakeType
      <4>2. m \in MakeType /\ m.row = r /\ m.at = "select" /\ m.next # "idle"
        BY <1>1, <3>1, <3>2 DEF MakeType, r, w
      <4> QED BY <1>1, <4>1, <4>2 DEF Holds, MakeType, RowType
    <3>3. CASE m = [w EXCEPT !.at = "select", !.next = "thrown", !.copy.status = "failed"]
      <4>1. m.copy = [w.copy EXCEPT !.status = "failed"]
        BY <1>1, <3>3 DEF MakeType
      <4>2. m \in MakeType /\ m.row = r /\ m.at = "select" /\ m.next # "idle"
        BY <1>1, <3>1, <3>3 DEF MakeType, r, w
      <4> QED BY <1>1, <4>1, <4>2 DEF Holds, MakeType, RowType
    <3> QED BY <2>1, <3>2, <3>3
  <2>3. Holds(m)
    BY <1>1, <2>2 DEF Holds
  <2>4. m # Idle /\ UNCHANGED <<kind, rows, dash, jobs>>
    BY <1>2, <2>2, IdleMaker DEF StoreImage
  <2> QED BY <1>1, <2>1, <2>2, <2>3, <2>4, MakerOnly DEF w, r
<1>3. CASE Mark(p)
  <2>1. w.at = "mark" /\ make' = [make EXCEPT ![p] = Idle] /\ UNCHANGED <<kind, jobs, dash>>
    BY <1>3 DEF Mark, w
  <2>2. kind[r] # "report"
    BY <1>1, <2>1 DEF Holds, r, w
  <2>3. PICK x : x = [rows[r] EXCEPT !.status = "queued"]
    OBVIOUS
  <2>4. x \in RowType /\ x.status # "absent" /\ x.born = rows[r].born
    BY <1>1, <2>3 DEF RowType
  <2>5. rows' = [rows EXCEPT ![r] = x]
    BY <1>1, <1>3, <2>3 DEF Mark, r
  <2>6. PICK m : m = Idle
    OBVIOUS
  <2> QED BY <1>1, <2>1, <2>2, <2>4, <2>5, <2>6, IdleMaker, MakerWrites DEF w, r
<1>4. CASE SaveSelect(p)
  <2>1. PICK m : make' = [make EXCEPT ![p] = m] /\ m = [w EXCEPT !.at = "write", !.seen = rows[r]]
    BY <1>4 DEF SaveSelect, w, r
  <2>2. m \in MakeType /\ m.row = r /\ m.at = "write" /\ m.next = w.next /\ m.copy = w.copy
    BY <1>1, <2>1 DEF MakeType, r, w
  <2>3. w.at = "select"
    BY <1>4 DEF SaveSelect, w
  <2>4. Holds(m)
    BY <1>1, <2>2, <2>3 DEF Holds, r, w
  <2>5. m # Idle /\ UNCHANGED <<kind, rows, dash, jobs>>
    BY <1>4, <2>2, IdleMaker DEF SaveSelect
  <2> QED BY <1>1, <2>1, <2>2, <2>4, <2>5, MakerOnly DEF w, r
<1>5. CASE SaveWrite(p)
  <2>1. /\ w.at = "write" /\ UNCHANGED <<kind, jobs, dash>>
        /\ rows' = [rows EXCEPT ![r] = Diffed(rows[r], w.seen, w.copy)]
        /\ make' = [make EXCEPT ![p] = IF w.next = "idle" THEN Idle
                                       ELSE [w EXCEPT !.at = w.next, !.seen = Absent]]
    BY <1>5 DEF SaveWrite, w, r
  <2>2. PICK x : x = Diffed(rows[r], w.seen, w.copy)
    OBVIOUS
  <2>3. x \in RowType /\ x.status # "absent" /\ x.born = rows[r].born
    BY <1>1, <2>2, SaveDiff DEF Holds, MakeType
  <2>4. PICK m : m = IF w.next = "idle" THEN Idle ELSE [w EXCEPT !.at = w.next, !.seen = Absent]
    OBVIOUS
  <2>5. CASE w.next = "idle"
    <3>1. m = Idle
      BY <2>4, <2>5
    <3>2. kind[r] # "report"
      BY <1>1, <2>1, <2>5 DEF Holds, r, w
    <3> QED BY <1>1, <2>1, <2>2, <2>3, <2>4, <3>1, <3>2, IdleMaker, MakerWrites DEF w, r
  <2>6. CASE w.next # "idle"
    <3>1. m = [w EXCEPT !.at = w.next, !.seen = Absent]
      BY <2>4, <2>6
    <3>2. /\ m \in MakeType /\ m.row = r /\ m.at = w.next /\ m.copy = w.copy
          /\ m.at \in {"enqueue", "thrown", "done"}
      BY <1>1, <2>6, <3>1, AbsentIsRow DEF MakeType, r, w
    <3>3. m # Idle
      BY <3>2, IdleMaker
    <3>4. m.copy.status # "absent" /\ ~m.copy.rolled /\ m.copy.sendable
      BY <1>1, <3>2 DEF Holds
    <3> QED BY <1>1, <2>1, <2>2, <2>3, <2>4, <3>2, <3>3, <3>4, MakerWrites DEF w, r
  <2> QED BY <2>5, <2>6
<1>6. CASE Enqueue(p)
  <2> DEFINE q == IF kind[r] \in {"tts", "video"} THEN "generate" ELSE "preload"
  <2>1. /\ w.at = "enqueue" /\ q \in Queues /\ NewJob(FALSE) \in JobType
        /\ UNCHANGED <<kind, dash>>
    BY <1>6 DEF Enqueue, Queues, NewJob, JobType, w
  <2>2. CASE /\ jobs' = [jobs EXCEPT ![r][q] = NewJob(FALSE)] /\ q = "generate" /\ UNCHANGED rows
             /\ make' = [make EXCEPT ![p] = [w EXCEPT !.at = "mark"]]
    <3>1. PICK m : m = [w EXCEPT !.at = "mark"]
      OBVIOUS
    <3>2. m \in MakeType /\ m.row = r /\ m.at = "mark" /\ m.copy = w.copy
      BY <1>1, <3>1 DEF MakeType, r, w
    <3>3. Holds(m)
      BY <1>1, <2>2, <3>2 DEF Holds
    <3>4. m # Idle
      BY <3>2, IdleMaker
    <3>5. make' = [make EXCEPT ![p] = m]
      BY <2>2, <3>1
    <3> HIDE DEF q
    <3> QED BY <1>1, <2>1, <2>2, <3>2, <3>3, <3>4, <3>5, MakerOnly DEF w, r
  <2>3. CASE /\ jobs' = [jobs EXCEPT ![r][q] = NewJob(FALSE)] \/ UNCHANGED jobs
             /\ UNCHANGED rows
             /\ \E end \in {"done", "thrown"} :
                  make' = [make EXCEPT ![p] =
                    [w EXCEPT !.at = "select", !.copy.status = "queued",
                              !.next = IF kind[r] = "report" THEN end ELSE "idle"]]
    <3>1. PICK end, m : /\ end \in {"done", "thrown"} /\ make' = [make EXCEPT ![p] = m]
                        /\ m = [w EXCEPT !.at = "select", !.copy.status = "queued",
                                         !.next = IF kind[r] = "report" THEN end ELSE "idle"]
      BY <2>3
    <3>2. m.copy = [w.copy EXCEPT !.status = "queued"]
      BY <1>1, <3>1 DEF MakeType
    <3>3. [w.copy EXCEPT !.status = "queued"] \in RowType
      BY <1>1 DEF MakeType, RowType
    <3>4. m \in MakeType /\ m.row = r /\ m.at = "select" /\ (kind[r] = "report" => m.next # "idle")
      BY <1>1, <3>1, <3>3 DEF MakeType, r, w
    <3>5. m.copy.status # "absent" /\ ~m.copy.rolled /\ m.copy.sendable
      BY <1>1, <3>2 DEF Holds, MakeType, RowType
    <3>6. Holds(m) /\ m # Idle
      BY <1>1, <3>4, <3>5, IdleMaker DEF Holds
    <3> HIDE DEF q
    <3>7. \/ UNCHANGED jobs
          \/ \E o \in Queues : \E j \in JobType : jobs' = [jobs EXCEPT ![r][o] = j]
      BY <2>1, <2>3
    <3>8. UNCHANGED <<kind, rows, dash>>
      BY <2>1, <2>3
    <3> QED BY <1>1, <3>1, <3>4, <3>6, <3>7, <3>8, MakerOnly DEF w, r
  <2>4. CASE /\ q = "generate" /\ rows' = [rows EXCEPT ![r].status = "failed"]
             /\ make' = [make EXCEPT ![p] = Idle] /\ UNCHANGED jobs
    <3>1. PICK x : x = [rows[r] EXCEPT !.status = "failed"]
      OBVIOUS
    <3>2. x \in RowType /\ x.status # "absent" /\ x.born = rows[r].born
      BY <1>1, <3>1 DEF RowType
    <3>3. rows' = [rows EXCEPT ![r] = x]
      BY <1>1, <2>4, <3>1
    <3>4. PICK m : m = Idle
      OBVIOUS
    <3>5. kind[r] # "report"
      BY <2>4
    <3> HIDE DEF q
    <3> QED BY <1>1, <2>1, <2>4, <3>2, <3>3, <3>4, <3>5, IdleMaker, MakerWrites DEF w, r
  <2> QED
    <3>1. \/ /\ jobs' = [jobs EXCEPT ![r][q] = NewJob(FALSE)] /\ UNCHANGED rows
             /\ make' = [make EXCEPT ![p] =
                  IF q = "generate" THEN [w EXCEPT !.at = "mark"]
                  ELSE [w EXCEPT !.at = "select", !.copy.status = "queued",
                                 !.next = IF kind[r] = "report" THEN "done" ELSE "idle"]]
          \/ /\ UNCHANGED <<jobs, rows>>
             /\ make' = [make EXCEPT ![p] =
                  [w EXCEPT !.at = "select", !.copy.status = "queued",
                            !.next = IF kind[r] = "report" THEN "thrown" ELSE "idle"]]
          \/ /\ q = "generate" /\ rows' = [rows EXCEPT ![r].status = "failed"]
             /\ make' = [make EXCEPT ![p] = Idle] /\ UNCHANGED jobs
      BY <1>6 DEF Enqueue, w, r
    <3> HIDE DEF q
    <3> QED BY <2>2, <2>3, <2>4, <3>1
<1> QED BY <1>2, <1>3, <1>4, <1>5, <1>6 DEF MakerStep

\* Every step of the rows, their makers, jobs, readers and the dashboard.
LEMMA NextKept ==
  ASSUME MediaInv, Next
  PROVE  MediaInv' /\ (CardInv /\ UNCHANGED send => CardInv')
<1>1. Kept => MediaInv' /\ (CardInv /\ UNCHANGED send => CardInv')
  BY KeptStep, KeptCards
<1>2. ASSUME NEW r \in Rows, UploadText(r) PROVE MediaInv' /\ (CardInv /\ UNCHANGED send => CardInv')
  BY <1>2, InsertStep DEF UploadText
<1>3. CASE Create
  <2>1. ASSUME NEW r \in Rows, NEW p \in Makers, UploadFile(p, r)
        PROVE  MediaInv' /\ (CardInv /\ UNCHANGED send => CardInv')
    BY <2>1, UploadStep
  <2>2. ASSUME NEW r \in Rows, NEW p \in Makers, InsertRow(p, r), kind[r] \in {"tts", "video"}
        PROVE  MediaInv' /\ (CardInv /\ UNCHANGED send => CardInv')
    BY <2>2, InsertRowStep
  <2> QED BY <1>2, <1>3, <2>1, <2>2 DEF Create
<1>4. ASSUME NEW p \in Makers, MakerStep(p) PROVE MediaInv' /\ (CardInv /\ UNCHANGED send => CardInv')
  BY <1>4, MakerKept
<1>5. ASSUME NEW r \in Rows, JobStep(r) \/ GrowOld(r) \/ Expire(r) PROVE Kept
  BY <1>5, JobsKept, TimeKept
<1>6. CASE Sweep
  BY <1>1, <1>6, TimeKept
<1>7. ASSUME NEW p \in Readers, LookStep(p)
      PROVE  MediaInv' /\ (CardInv /\ UNCHANGED send => CardInv')
  <2>1. CASE rows' = rows
    BY <1>1, <1>7, <2>1, LookKept
  <2>2. CASE rows' # rows
    <3>1. PICK r \in AutoRows : EnsureInsert(p, r) /\ UNCHANGED <<kind, bucket, make, jobs, cache, dash>>
      BY <1>7, <2>2 DEF LookStep, Lookup, Ensure, EnsureWinner, EnsureFails, Fill
    <3> QED BY <3>1, InsertStep DEF AutoRows, EnsureInsert
  <2> QED BY <2>1, <2>2
<1>8. CASE AdminStep
  BY <1>1, <1>8, AdminKept
<1> QED BY <1>1, <1>3, <1>4, <1>5, <1>6, <1>7, <1>8 DEF Next

\* A set of numbers has a least one.
LEMMA LeastNumber ==
  ASSUME NEW T \in SUBSET Nat, T # {}
  PROVE  \E m \in T : \A k \in T : m <= k
<1> DEFINE R == {o \in Nat \X Nat : o[1] < o[2]}
<1>1. PICK m \in T : \A k \in T : ~(<<k, m>> \in R)
  <2>1. IsWellFoundedOn(R, Nat)
    BY NatLessThanWellFounded DEF OpToRel
  <2> HIDE DEF R
  <2> QED BY <2>1, WFMin
<1>2. \A k \in T : ~(k < m)
  BY <1>1
<1> QED BY <1>2

\* A job that finds no card has no card to find.
LEMMA NoneToFind ==
  ASSUME MediaInv, Existing = {}
  PROVE  \A r \in Cards : rows[r].rolled
<1> DEFINE live == {r \in Cards : ~rows[r].rolled}
           n == Cardinality(Cards)
           D == {n - rows[r].born : r \in live}
<1> SUFFICES ASSUME live # {} PROVE FALSE
  OBVIOUS
<1>1. n \in Nat /\ \A r \in live : rows[r].born \in Nat /\ rows[r].born <= n
  BY CardsCounted DEF MediaInv, MediaTypes, RowsInv, RowType, Cards
<1> HIDE DEF live, n
<1>2. D \in SUBSET Nat /\ D # {}
  BY <1>1
<1>3. PICK d \in D : \A k \in D : d <= k
  BY <1>2, LeastNumber
<1>4. PICK r \in live : d = n - rows[r].born
  BY <1>3
<1>5. \A o \in live : rows[o].born <= rows[r].born
  <2> TAKE o \in live
  <2>1. n - rows[r].born <= n - rows[o].born
    BY <1>3, <1>4
  <2> QED BY <1>1, <1>4, <2>1
<1>6. r \in Existing
  BY <1>4, <1>5 DEF Existing, live
<1> QED BY <1>6

\* The jobs and the loose cards are counted.
LEMMA JobsCounted ==
  ASSUME CardInv
  PROVE  /\ IsFiniteSet(Rendering) /\ Rendering \subseteq Senders
         /\ Cardinality(Rendering) \in Nat /\ Cardinality(Loose) \in Nat
         /\ Cardinality(Rendering) <= Cardinality(Senders) /\ Cardinality(Senders) \in Nat
<1>1. Rendering \in SUBSET Senders
  BY DEF Rendering
<1>2. IsFiniteSet(Rendering) /\ Cardinality(Rendering) <= Cardinality(Senders)
  BY <1>1, FS_Subset, MorningAssumption
<1> QED BY <1>1, <1>2, FS_CardinalityType, MorningAssumption DEF CardInv

\* The steps of a send job.
LEMMA SendKept ==
  ASSUME MediaInv, CardInv, NEW p \in Senders, SendStep(p)
  PROVE  MediaInv' /\ CardInv'
<1>1. /\ send \in [Senders -> SendType] /\ p \in Makers /\ send[p] \in SendType
      /\ make \in [Makers -> MakeType] /\ Null \notin Rows
  BY MorningAssumption, MediaAssumption DEF CardInv, MediaInv, MediaTypes
<1>2. UNCHANGED vars => MediaInv'
  <2>1. UNCHANGED vars => UNCHANGED <<kind, make, rows, jobs, dash>>
    BY DEF vars, dash
  <2> QED BY <2>1, StillKept, KeptStep
<1>3. ASSUME NEW s \in SendType, send' = [send EXCEPT ![p] = s], UNCHANGED vars,
             send[p].at # "render", s.at \notin {"none", "render"}
      PROVE  CardInv'
  <2>1. /\ send' \in [Senders -> SendType] /\ send'[p] = s
        /\ \A o \in Senders : o # p => send'[o] = send[o]
    BY <1>1, <1>3
  <2>2. Loose' = Loose /\ Rendering' \subseteq Rendering
    BY <1>3, <2>1 DEF Loose, Rendering, Cards, vars
  <2>3. IsFiniteSet(Loose') /\ Cardinality(Loose') + Cardinality(Rendering') <= Cardinality(Senders)
    BY <2>2, NoLooser
  <2> QED BY <1>3, <2>1, <2>3 DEF CardInv, vars, Idle, Absent
<1>4. ASSUME Requeued(p)
      PROVE  \E s \in SendType : send' = [send EXCEPT ![p] = s] /\ s.at \in {"wait", "done"}
  <2>1. /\ [send[p] EXCEPT !.at = "done"] \in SendType
        /\ [send[p] EXCEPT !.at = "wait", !.try = send[p].try + 1] \in SendType
    <3>1. send[p].try \in Nat /\ send[p].try + 1 \in Nat
      BY <1>1 DEF SendType
    <3> QED BY <1>1, <3>1 DEF SendType
  <2>2. CASE send[p].try >= Sends
    <3>1. send' = [send EXCEPT ![p] = [send[p] EXCEPT !.at = "done"]]
      BY <1>4, <2>2 DEF Requeued
    <3>2. [send[p] EXCEPT !.at = "done"].at = "done"
      BY <1>1 DEF SendType
    <3> QED BY <2>1, <3>1, <3>2
  <2>3. CASE ~(send[p].try >= Sends)
    <3>1. send' = [send EXCEPT ![p] = [send[p] EXCEPT !.at = "wait", !.try = send[p].try + 1]]
      BY <1>4, <2>3 DEF Requeued
    <3>2. [send[p] EXCEPT !.at = "wait", !.try = send[p].try + 1].at = "wait"
      BY <1>1 DEF SendType
    <3> QED BY <2>1, <3>1, <3>2
  <2> QED BY <2>2, <2>3
<1>5. ASSUME NEW at \in {"wait", "none", "render", "send", "done"}, NEW r \in Rows \cup {Null},
             SendAt(p, at, r)
      PROVE  \E s \in SendType : send' = [send EXCEPT ![p] = s] /\ s.at = at
  <2>1. [send[p] EXCEPT !.at = at, !.row = r] \in SendType
        /\ [send[p] EXCEPT !.at = at, !.row = r].at = at
    BY <1>1 DEF SendType
  <2>2. send' = [send EXCEPT ![p] = [send[p] EXCEPT !.at = at, !.row = r]]
    BY <1>1, <1>5 DEF SendAt, SendType
  <2> QED BY <2>1, <2>2
<1>6. CASE FindNone(p)
  <2>1. PICK s \in SendType : send' = [send EXCEPT ![p] = s] /\ s.at = "none"
    BY <1>5, <1>6 DEF FindNone
  <2>2. /\ send' \in [Senders -> SendType] /\ send'[p] = s
        /\ \A o \in Senders : o # p => send'[o] = send[o]
    BY <1>1, <2>1
  <2>3. UNCHANGED vars /\ send[p].at = "wait"
    BY <1>6 DEF FindNone
  <2>4. Loose' = {}
    BY <1>6, <2>3, NoneToFind DEF FindNone, Loose, Cards, vars
  <2>5. Rendering' \in SUBSET Senders
    BY DEF Rendering
  <2>6. Cardinality(Rendering') <= Cardinality(Senders) /\ Cardinality(Rendering') \in Nat
    BY <2>5, FS_Subset, FS_CardinalityType, MorningAssumption
  <2>7. IsFiniteSet(Loose') /\ Cardinality(Loose') + Cardinality(Rendering') <= Cardinality(Senders)
    BY <2>4, <2>6, FS_EmptySet
  <2>8. \A o \in Makers : make[o] # Idle =>
          (kind[make[o].row] = "report" => o \in Senders /\ send'[o].at = "render")
    BY <2>2, <2>3 DEF CardInv
  <2> QED BY <1>2, <2>2, <2>3, <2>7, <2>8 DEF CardInv, vars, Idle, Absent
<1>7. CASE RenderCard(p)
  <2>1. CASE Requeued(p) /\ UNCHANGED vars
    BY <1>2, <1>3, <1>4, <1>7, <2>1 DEF RenderCard
  <2>2. ASSUME NEW r \in Rows, kind[r] = "report", InsertRow(p, r), SendAt(p, "render", r)
        PROVE  MediaInv' /\ CardInv'
    <3>1. /\ MediaInv'
          /\ make[p] = Idle /\ make'[p].row = r /\ make'[p] # Idle
          /\ \A o \in Makers : o # p => make'[o] = make[o]
          /\ \A s \in Rows : s # r /\ s \in Cards' => s \in Cards /\ rows'[s] = rows[s]
          /\ UNCHANGED kind
      BY <1>1, <2>2, InsertRowStep DEF InsertRow
    <3>2. PICK s \in SendType : send' = [send EXCEPT ![p] = s] /\ s.at = "render"
      BY <1>5, <2>2
    <3>3. /\ send' \in [Senders -> SendType] /\ send'[p] = s
          /\ \A o \in Senders : o # p => send'[o] = send[o]
      BY <1>1, <3>2
    <3>4. send[p].at = "none"
      BY <1>7 DEF RenderCard
    <3>5. Loose' \subseteq Loose
      <4> SUFFICES ASSUME NEW c \in Loose' PROVE c \in Loose
        OBVIOUS
      <4>1. c \in Rows /\ c \in Cards' /\ ~rows'[c].rolled /\ \A o \in Makers : make'[o].row # c
        BY DEF Loose, Cards
      <4>2. c # r /\ c \in Cards /\ ~rows[c].rolled
        BY <1>1, <3>1, <4>1
      <4>3. make[p].row # c
        BY <1>1, <3>1, <4>1, IdleMaker
      <4> QED BY <3>1, <4>1, <4>2, <4>3 DEF Loose
    <3>6. Rendering' = Rendering
      BY <3>2, <3>3, <3>4 DEF Rendering
    <3>7. IsFiniteSet(Loose') /\ Cardinality(Loose') + Cardinality(Rendering') <= Cardinality(Senders)
      BY <3>5, <3>6, NoLooser
    <3>8. \A o \in Makers : make'[o] # Idle =>
            (kind[make'[o].row] = "report" => o \in Senders /\ send'[o].at = "render")
      BY <3>1, <3>2, <3>3 DEF CardInv
    <3> QED BY <3>1, <3>3, <3>7, <3>8 DEF CardInv, Idle, Absent
  <2> QED BY <1>7, <2>1, <2>2 DEF RenderCard
<1>8. CASE Rendered(p)
  <2>1. /\ send[p].at = "render" /\ make[p].at \in {"done", "thrown"}
        /\ make' = [make EXCEPT ![p] = Idle] /\ UNCHANGED <<kind, rows, jobs, dash>>
    BY <1>8 DEF Rendered
  <2>2. PICK s \in SendType : send' = [send EXCEPT ![p] = s] /\ s.at \in {"wait", "done"}
    BY <1>4, <1>8 DEF Rendered
  <2>3. /\ send' \in [Senders -> SendType] /\ send'[p] = s
        /\ \A o \in Senders : o # p => send'[o] = send[o]
    BY <1>1, <2>2
  <2>4. PICK m : m = Idle
    OBVIOUS
  <2>5. /\ make' \in [Makers -> MakeType] /\ make'[p] = Idle /\ MakeInv'
        /\ \A o \in Makers : o # p => make'[o] = make[o]
    BY <1>1, <2>1, <2>4, IdleMaker, MakerSet DEF There
  <2>6. MediaInv'
    BY <2>1, <2>5 DEF MediaInv, MediaTypes, RowsInv, Cards, There, JobsInv, AdminInv, dash
  <2> DEFINE card == make[p].row
  <2>7. Loose' \subseteq Loose \cup {card}
    BY <2>1, <2>5 DEF Loose, Cards
  <2>8. Rendering' = Rendering \ {p} /\ p \in Rendering
    BY <2>1, <2>2, <2>3 DEF Rendering
  <2> HIDE DEF card
  <2>9. /\ IsFiniteSet(Loose \cup {card}) /\ Cardinality(Loose \cup {card}) \in Nat
        /\ Cardinality(Loose \cup {card}) <= Cardinality(Loose) + 1
    <3>1. IsFiniteSet(Loose) /\ Cardinality(Loose) \in Nat
      BY JobsCounted DEF CardInv
    <3>2. /\ IsFiniteSet(Loose \cup {card})
          /\ Cardinality(Loose \cup {card}) =
               IF card \in Loose THEN Cardinality(Loose) ELSE Cardinality(Loose) + 1
      BY <3>1, FS_AddElement
    <3> QED BY <3>1, <3>2
  <2>10. IsFiniteSet(Loose') /\ Cardinality(Loose') <= Cardinality(Loose) + 1 /\ Cardinality(Loose') \in Nat
    <3>1. IsFiniteSet(Loose') /\ Cardinality(Loose') <= Cardinality(Loose \cup {card})
      BY <2>7, <2>9, FS_Subset
    <3>2. Cardinality(Loose') \in Nat
      BY <3>1, FS_CardinalityType
    <3> QED BY <2>9, <3>1, <3>2, JobsCounted
  <2>11. Cardinality(Rendering') = Cardinality(Rendering) - 1
    BY <2>8, JobsCounted, FS_RemoveElement
  <2>12. Cardinality(Loose') + Cardinality(Rendering') <= Cardinality(Senders)
    BY <2>10, <2>11, JobsCounted DEF CardInv
  <2>13. \A o \in Makers : make'[o] # Idle =>
           (kind[make'[o].row] = "report" => o \in Senders /\ send'[o].at = "render")
    BY <2>3, <2>5 DEF CardInv
  <2> QED BY <2>1, <2>3, <2>6, <2>10, <2>12, <2>13 DEF CardInv, Idle, Absent
<1>9. CASE Look(p) \/ Send(p)
  <2>1. UNCHANGED vars /\ send[p].at \in {"wait", "send"}
    BY <1>9 DEF Look, Send
  <2>2. \E s \in SendType : send' = [send EXCEPT ![p] = s] /\ s.at \in {"wait", "done", "send"}
    <3>1. CASE Requeued(p)
      BY <1>4, <3>1
    <3>2. CASE ~Requeued(p)
      <4>1. \E at \in {"send", "done"}, r \in Rows \cup {Null} : SendAt(p, at, r)
        BY <1>1, <1>9, <3>2 DEF Look, Send, Existing, Cards, SendType
      <4> QED BY <1>5, <4>1
    <3> QED BY <3>1, <3>2
  <2> QED BY <1>2, <1>3, <2>1, <2>2
<1> QED BY <1>6, <1>7, <1>8, <1>9 DEF SendStep

\* The cards that are not rolled back are no more than the jobs.
LEMMA CardsOfJobs == ASSUME MediaInv, CardInv PROVE OneCardPerJob
<1> DEFINE live == {r \in Cards : ~rows[r].rolled /\ rows[r].status # "failed"}
           H == {p \in Rendering : make[p].row \in Cards}
           I == {make[p].row : p \in H}
           f == [p \in H |-> make[p].row]
<1>1. live \subseteq Loose \cup I
  <2> SUFFICES ASSUME NEW r \in live, r \notin Loose PROVE r \in I
    OBVIOUS
  <2>1. PICK p \in Makers : make[p].row = r
    BY DEF Loose
  <2>2. r \in Rows /\ kind[r] = "report" /\ Null \notin Rows
    BY MediaAssumption DEF Cards
  <2>3. make[p] # Idle
    BY <2>1, <2>2, IdleMaker
  <2>4. p \in Rendering
    BY <2>1, <2>2, <2>3 DEF CardInv, Rendering
  <2> QED BY <2>1, <2>4
<1>2. IsFiniteSet(H) /\ Cardinality(H) <= Cardinality(Rendering) /\ Cardinality(H) \in Nat
  <2>1. H \in SUBSET Rendering
    OBVIOUS
  <2> HIDE DEF H
  <2> QED BY <2>1, JobsCounted, FS_Subset, FS_CardinalityType
<1>3. f \in Surjection(H, I)
  BY DEF Surjection
<1> HIDE DEF H, I, f
<1>4. IsFiniteSet(I) /\ Cardinality(I) <= Cardinality(H) /\ Cardinality(I) \in Nat
  BY <1>2, <1>3, FS_Surjection, FS_CardinalityType
<1>5. /\ IsFiniteSet(Loose \cup I) /\ Cardinality(Loose \cup I) \in Nat
      /\ Cardinality(Loose \cup I) <= Cardinality(Loose) + Cardinality(I)
  <2>1. IsFiniteSet(Loose) /\ Cardinality(Loose) \in Nat
    BY JobsCounted DEF CardInv
  <2>2. IsFiniteSet(Loose \cap I)
    BY <2>1, FS_Subset
  <2>3. Cardinality(Loose \cap I) \in Nat /\ IsFiniteSet(Loose \cup I)
    BY <1>4, <2>1, <2>2, FS_CardinalityType, FS_Union
  <2>4. Cardinality(Loose \cup I) = Cardinality(Loose) + Cardinality(I) - Cardinality(Loose \cap I)
    BY <1>4, <2>1, FS_Union
  <2> QED BY <1>4, <2>1, <2>3, <2>4, FS_CardinalityType
<1>6. Cardinality(live) <= Cardinality(Loose \cup I) /\ Cardinality(live) \in Nat
  BY <1>1, <1>5, FS_Subset, FS_CardinalityType
<1>7. Cardinality(live) <= Cardinality(Senders)
  <2>1. /\ Cardinality(Loose) + Cardinality(Rendering) <= Cardinality(Senders)
        /\ Cardinality(Loose) \in Nat /\ Cardinality(Rendering) \in Nat
        /\ Cardinality(Senders) \in Nat
    BY JobsCounted DEF CardInv
  <2> HIDE DEF live
  <2> QED BY <1>2, <1>4, <1>5, <1>6, <2>1
<1> QED BY <1>7 DEF OneCardPerJob

\* There is nothing yet.
LEMMA MorningBegins == ASSUME MorningInit PROVE MediaInv /\ CardInv
<1> USE DEF MorningInit, Init, SendInit
<1>1. Cards = {} /\ IsFiniteSet(Cards)
  BY FS_EmptySet DEF Cards
<1>2. MediaTypes
  BY <1>1, AbsentIsRow, IdleMaker, MediaAssumption DEF MediaTypes, NoJob, JobType
<1>3. RowsInv /\ MakeInv /\ JobsInv /\ AdminInv
  BY <1>1 DEF RowsInv, MakeInv, JobsInv, AdminInv, NoJob
<1>4. Loose = {} /\ Rendering = {}
  BY <1>1 DEF Loose, Rendering
<1>5. send \in [Senders -> SendType]
  BY DEF SendType
<1>6. Cardinality(Loose) = 0 /\ Cardinality(Rendering) = 0 /\ IsFiniteSet(Loose)
      /\ Cardinality(Senders) \in Nat
  BY <1>4, FS_EmptySet, FS_CardinalityType, MorningAssumption
<1> QED BY <1>2, <1>3, <1>5, <1>6 DEF MediaInv, CardInv

\* Every step keeps what the makers and the send jobs rely on.
LEMMA MorningGoesOn ==
  ASSUME MediaInv, CardInv, [MorningNext]_allvars
  PROVE  (MediaInv /\ CardInv)'
<1>1. CASE Next /\ UNCHANGED send
  BY <1>1, NextKept
<1>2. ASSUME NEW p \in Senders, SendStep(p) PROVE (MediaInv /\ CardInv)'
  BY <1>2, SendKept
<1>3. CASE UNCHANGED allvars
  <2>1. UNCHANGED <<kind, make, rows, jobs, dash, send>>
    BY <1>3 DEF allvars, vars, dash
  <2>2. Kept
    BY <2>1, StillKept
  <2> QED BY <2>1, <2>2, KeptStep, KeptCards
<1> QED BY <1>1, <1>2, <1>3 DEF MorningNext

\* However rollbacks, failing renders and jobs that are run again fall together, a
\* parent has no more cards of the day than jobs that send one
\* (processMorningUpdateSendJob, findExistingForUser).
THEOREM OneCardEach == MorningSpec => []OneCardPerJob
<1>1. MorningInit => MediaInv /\ CardInv
  BY MorningBegins
<1>2. MediaInv /\ CardInv /\ [MorningNext]_allvars => (MediaInv /\ CardInv)'
  BY MorningGoesOn
<1>3. MediaInv /\ CardInv => OneCardPerJob
  BY CardsOfJobs
<1> QED BY <1>1, <1>2, <1>3, PTL DEF MorningSpec

-----------------------------------------------------------------------------
(* The drill word.                                                         *)

\* What no one took back or switched off may be sent.
Whole == edits = 0 => \A r \in Rows : ~rows[r].rolled /\ rows[r].sendable

WordInv == DOMAIN look = Readers /\ Whole /\ WordShown

\* The drill word's row shows the word.
LEMMA AutoShows ==
  ASSUME NEW r \in AutoRows, NEW S, r \in S PROVE ShowsWord(S)
BY DEF AutoRows, ShowsWord, Type

\* A step that picks nothing and puts nothing into the cache.
LEMMA NothingPicked ==
  ASSUME WordInv, UNCHANGED <<kind, look>>, cache' \in {cache, Null},
         edits \in Nat, edits' \in Nat, edits' >= edits, Whole'
  PROVE  WordInv'
<1>1. AutoRows' = AutoRows
  BY DEF AutoRows
<1>2. \A S : ShowsWord(S)' <=> ShowsWord(S)
  BY DEF ShowsWord, Type
<1>3. ASSUME AutoRows' # {}, edits' = 0
      PROVE  /\ \A p \in Readers : look'[p].at = "fill" => ShowsWord(look[p].pick)
             /\ cache' # Null => ShowsWord(cache)
  BY <1>1, <1>3 DEF WordInv, WordShown
<1>4. WordShown'
  BY <1>3 DEF WordShown, ShowsWord, Type
<1> QED BY <1>4 DEF WordInv

\* Jobs, the sweep, the time and the dashboard leave the readers alone, but for what
\* they drop from the cache.
LEMMA KeptReading ==
  ASSUME \/ \E r \in Rows : JobStep(r) \/ GrowOld(r) \/ Expire(r)
         \/ Sweep \/ AdminStep
  PROVE  UNCHANGED look /\ cache' \in {cache, Null}
<1>1. ASSUME NEW r \in Rows, JobStep(r) PROVE UNCHANGED look /\ cache' \in {cache, Null}
  BY <1>1 DEF JobStep, Speak, Render, NotGenerated, Callback, Webhook, AddPreload, PreloadRead,
              NotUploaded, Uploaded, Uncache, reading, Dropped
<1>2. CASE Sweep \/ \E r \in Rows : GrowOld(r) \/ Expire(r)
  BY <1>2 DEF Sweep, GrowOld, Expire, reading
<1>3. CASE AdminStep
  BY <1>3 DEF AdminStep, Flag, Drop, Delete, BeginRollback, SetSendable, reading, Dropped
<1> QED BY <1>1, <1>2, <1>3

\* Makers neither take back nor switch off.
LEMMA MakerWhole ==
  ASSUME MediaInv, Whole,
         \/ \E p \in Makers : MakerStep(p)
         \/ \E p \in Makers, r \in Rows : UploadFile(p, r) \/ InsertRow(p, r)
         \/ \E r \in Rows : UploadText(r)
  PROVE  /\ Whole' /\ UNCHANGED <<kind, look, cache>>
         /\ edits' \in Nat /\ edits' >= edits
<1>1. rows \in [Rows -> RowType] /\ make \in [Makers -> MakeType] /\ edits \in Nat
  BY DEF MediaInv, MediaTypes
<1>2. /\ UNCHANGED <<kind, look, cache>>
      /\ edits' \in Nat /\ edits' >= edits
  <2>1. edits' = edits => edits' \in Nat /\ edits' >= edits
    BY <1>1
  <2>2. ASSUME NEW p \in Makers, MakerStep(p) PROVE UNCHANGED <<kind, look, cache, edits>>
    BY <2>2 DEF MakerStep, StoreImage, Enqueue, Mark, SaveSelect, SaveWrite, reading, dash
  <2>3. ASSUME NEW p \in Makers, NEW r \in Rows, UploadFile(p, r)
        PROVE  UNCHANGED <<kind, look, cache>> /\ (edits' = edits \/ edits' = edits + 1)
    BY <2>3 DEF UploadFile, reading
  <2>4. ASSUME NEW p \in Makers, NEW r \in Rows, InsertRow(p, r)
        PROVE  UNCHANGED <<kind, look, cache, edits>>
    BY <2>4 DEF InsertRow, reading, dash
  <2>5. ASSUME NEW r \in Rows, UploadText(r) PROVE UNCHANGED <<kind, look, cache, edits>>
    BY <2>5 DEF UploadText, reading, dash
  <2> QED BY <1>1, <2>1, <2>2, <2>3, <2>4, <2>5
<1>3. \/ rows' = rows
      \/ \E r \in Rows : \E x \in RowType :
           /\ rows' = [rows EXCEPT ![r] = x]
           /\ ~rows[r].rolled => ~x.rolled
           /\ rows[r].sendable => x.sendable
  <2>1. ASSUME NEW p \in Makers, SaveWrite(p)
        PROVE  \E r \in Rows : \E x \in RowType :
                 /\ rows' = [rows EXCEPT ![r] = x]
                 /\ ~rows[r].rolled => ~x.rolled
                 /\ rows[r].sendable => x.sendable
    <3>1. make[p] # Idle
      BY <2>1, IdleMaker DEF SaveWrite
    <3>2. /\ make[p] \in MakeType /\ Holds(make[p]) /\ make[p].row \in Rows
          /\ rows[make[p].row] \in RowType /\ rows[make[p].row].status # "absent"
      BY <1>1, <3>1 DEF MediaInv, MakeInv, Holds, There
    <3>3. PICK x : x = Diffed(rows[make[p].row], make[p].seen, make[p].copy)
      OBVIOUS
    <3>4. /\ x \in RowType
          /\ ~rows[make[p].row].rolled => ~x.rolled
          /\ rows[make[p].row].sendable => x.sendable
      BY <3>2, <3>3, SaveDiff DEF Holds, MakeType
    <3>5. rows' = [rows EXCEPT ![make[p].row] = x]
      BY <2>1, <3>3 DEF SaveWrite
    <3> QED BY <3>2, <3>4, <3>5
  <2>2. ASSUME NEW r \in Rows, NEW st \in {"queued", "failed"},
               rows' = [rows EXCEPT ![r].status = st]
        PROVE  \E x \in RowType :
                 /\ rows' = [rows EXCEPT ![r] = x]
                 /\ ~rows[r].rolled => ~x.rolled
                 /\ rows[r].sendable => x.sendable
    <3>1. PICK x : x = [rows[r] EXCEPT !.status = st]
      OBVIOUS
    <3>2. /\ x \in RowType
          /\ ~rows[r].rolled => ~x.rolled
          /\ rows[r].sendable => x.sendable
      BY <1>1, <3>1 DEF RowType
    <3> QED BY <1>1, <2>2, <3>1, <3>2
  <2>3. ASSUME NEW r \in Rows, NEW st \in {"created", "ready"}, NEW f \in BOOLEAN,
               rows' = [rows EXCEPT ![r] = Fresh(st, f)]
        PROVE  \E x \in RowType :
                 /\ rows' = [rows EXCEPT ![r] = x]
                 /\ ~rows[r].rolled => ~x.rolled
                 /\ rows[r].sendable => x.sendable
    BY <2>3, FreshIsRow DEF MediaInv
  <2>4. ASSUME NEW p \in Makers, StoreImage(p) \/ SaveSelect(p) PROVE rows' = rows
    BY <2>4 DEF StoreImage, SaveSelect
  <2>5. ASSUME NEW p \in Makers, Enqueue(p) \/ Mark(p)
        PROVE  \/ rows' = rows
               \/ \E r \in Rows : \E st \in {"queued", "failed"} : rows' = [rows EXCEPT ![r].status = st]
    <3>1. make[p] # Idle
      BY <2>5, IdleMaker DEF Enqueue, Mark
    <3>2. make[p].row \in Rows
      BY <3>1 DEF MediaInv, MakeInv, Holds, There
    <3> QED BY <2>5, <3>2 DEF Enqueue, Mark
  <2>6. ASSUME NEW p \in Makers, NEW r \in Rows, UploadFile(p, r) \/ InsertRow(p, r) \/ UploadText(r)
        PROVE  rows' = rows \/ \E st \in {"created", "ready"}, f \in BOOLEAN :
                                  rows' = [rows EXCEPT ![r] = Fresh(st, f)]
    BY <2>6 DEF UploadFile, InsertRow, UploadText
  <2>7. ASSUME NEW r \in Rows, UploadText(r)
        PROVE  rows' = [rows EXCEPT ![r] = Fresh("ready", FALSE)]
    BY <2>7 DEF UploadText
  <2> QED BY <2>1, <2>2, <2>3, <2>4, <2>5, <2>6, <2>7 DEF MakerStep
<1>4. Whole'
  <2>1. CASE rows' = rows
    BY <1>1, <1>2, <2>1 DEF Whole
  <2>2. CASE rows' # rows
    <3>1. PICK r, x : /\ r \in Rows /\ x \in RowType
                      /\ rows' = [rows EXCEPT ![r] = x]
                      /\ ~rows[r].rolled => ~x.rolled
                      /\ rows[r].sendable => x.sendable
      BY <1>3, <2>2
    <3>2. rows'[r] = x /\ \A s \in Rows : s # r => rows'[s] = rows[s]
      BY <1>1, <3>1
    <3>3. edits' = 0 => edits = 0
      BY <1>1, <1>2
    <3> QED BY <3>1, <3>2, <3>3 DEF Whole
  <2> QED BY <2>1, <2>2
<1> QED BY <1>2, <1>4

\* A reader picks, makes sure of the word, and fills the cache.
LEMMA LookWord ==
  ASSUME MediaInv, WordInv, NEW p \in Readers, LookStep(p)
  PROVE  WordInv'
<1>1. UNCHANGED <<kind, edits>> /\ DOMAIN look = Readers
  BY DEF LookStep, Lookup, Ensure, Fill, dash, WordInv
<1>2. AutoRows' = AutoRows /\ \A S : ShowsWord(S)' <=> ShowsWord(S)
  BY <1>1 DEF AutoRows, ShowsWord, Type
<1>3. Whole'
  <2>1. CASE rows' = rows
    BY <1>1, <2>1 DEF WordInv, Whole
  <2>2. CASE rows' # rows
    <3>1. PICK r \in AutoRows : rows' = [rows EXCEPT ![r] = Fresh("ready", FALSE)]
      BY <2>2 DEF LookStep, Lookup, Ensure, EnsureInsert, EnsureWinner, EnsureFails, Fill
    <3>2. rows \in [Rows -> RowType] /\ r \in Rows
      BY DEF MediaInv, MediaTypes, AutoRows
    <3>3. rows'[r] = Fresh("ready", FALSE) /\ \A s \in Rows : s # r => rows'[s] = rows[s]
      BY <3>1, <3>2
    <3>4. ~Fresh("ready", FALSE).rolled /\ Fresh("ready", FALSE).sendable
      BY FreshIsRow DEF MediaInv
    <3> QED BY <1>1, <3>2, <3>3, <3>4 DEF WordInv, Whole
  <2> QED BY <2>1, <2>2
<1>4. ASSUME AutoRows # {}, edits = 0
      PROVE  /\ \A o \in Readers : look'[o].at = "fill" => ShowsWord(look'[o].pick)
             /\ cache' # Null => ShowsWord(cache')
  <2>1. /\ \A o \in Readers : look[o].at = "fill" => ShowsWord(look[o].pick)
        /\ cache # Null => ShowsWord(cache)
    BY <1>4 DEF WordInv, WordShown
  <2>2. ASSUME NEW at, NEW S, NEW n, Set(p, at, S, n), at = "fill" => ShowsWord(S), UNCHANGED cache
        PROVE  /\ \A o \in Readers : look'[o].at = "fill" => ShowsWord(look'[o].pick)
               /\ cache' # Null => ShowsWord(cache')
    <3>1. look'[p] = [at |-> at, pick |-> S, try |-> n] /\ \A o \in Readers : o # p => look'[o] = look[o]
      BY <1>1, <2>2 DEF Set
    <3> QED BY <2>1, <2>2, <3>1
  <2>3. CASE Lookup(p)
    <3>1. PICK S \in SUBSET Rows :
            IF AutoRows # {} /\ ~ShowsWord(S) THEN Set(p, "ensure", S, 1) ELSE Set(p, "fill", S, 0)
      BY <2>3 DEF Lookup
    <3>2. UNCHANGED cache
      BY <2>3 DEF Lookup
    <3> QED BY <1>4, <2>2, <3>1, <3>2
  <2>4. CASE Ensure(p)
    <3>1. UNCHANGED cache
      BY <2>4 DEF Ensure
    <3>2. CASE EnsureFails(p)
      <4>1. \E at \in {"ensure", "idle"} : \E S, n : Set(p, at, S, n)
        BY <3>2 DEF EnsureFails
      <4> QED BY <2>2, <3>1, <4>1
    <3>3. ASSUME NEW r \in AutoRows, EnsureInsert(p, r) \/ EnsureWinner(p, r)
          PROVE  Set(p, "fill", look[p].pick \cup {r}, 0)
      <4>1. Deliverable(r)
        BY <1>4 DEF WordInv, Whole, Deliverable, AutoRows
      <4> QED BY <3>3, <4>1 DEF EnsureInsert, EnsureWinner
    <3>4. ASSUME NEW r \in AutoRows PROVE ShowsWord(look[p].pick \cup {r})
      BY AutoShows
    <3> QED BY <2>2, <2>4, <3>1, <3>2, <3>3, <3>4 DEF Ensure
  <2>5. CASE Fill(p)
    <3>1. /\ look'[p] = [at |-> "idle", pick |-> {}, try |-> 0]
          /\ \A o \in Readers : o # p => look'[o] = look[o]
      BY <1>1, <2>5 DEF Fill, Set
    <3>2. cache' = cache \/ cache' = look[p].pick
      BY <2>5 DEF Fill
    <3>3. look[p].at = "fill"
      BY <2>5 DEF Fill
    <3> QED BY <2>1, <3>1, <3>2, <3>3
  <2> QED BY <2>3, <2>4, <2>5 DEF LookStep
<1>5. WordShown'
  <2>1. AutoRows' # {} /\ edits' = 0 =>
          /\ \A o \in Readers : look'[o].at = "fill" => ShowsWord(look'[o].pick)
          /\ cache' # Null => ShowsWord(cache')
    BY <1>1, <1>2, <1>4
  <2> QED BY <1>1, <2>1 DEF WordShown, ShowsWord, Type
<1>6. DOMAIN look' = Readers
  BY <1>1 DEF LookStep, Lookup, Ensure, EnsureInsert, EnsureWinner, EnsureFails, Fill, Set
<1> QED BY <1>3, <1>5, <1>6 DEF WordInv

\* A drill hand-off always shows the word unless the dashboard took something out of
\* use, however many readers race to create its row and share what they found
\* (ensureDrillWordTextMedia, findMediaByStateTransitionId).
THEOREM WordIsShown == MorningSpec => []WordShown
<1>1. MorningInit => MediaInv /\ CardInv /\ WordInv
  <2> SUFFICES ASSUME MorningInit PROVE MediaInv /\ CardInv /\ WordInv
    OBVIOUS
  <2>1. WordInv
    BY DEF MorningInit, Init, WordInv, Whole, WordShown, Absent
  <2> QED BY <2>1, MorningBegins
<1>2. MediaInv /\ CardInv /\ WordInv /\ [MorningNext]_allvars => WordInv'
  <2> SUFFICES ASSUME MediaInv, WordInv, [MorningNext]_allvars PROVE WordInv'
    OBVIOUS
  <2>1. edits \in Nat /\ Whole
    BY DEF MediaInv, MediaTypes, WordInv
  <2>2. ASSUME \/ \E p \in Makers : MakerStep(p)
               \/ \E p \in Makers, r \in Rows : UploadFile(p, r) \/ InsertRow(p, r)
               \/ \E r \in Rows : UploadText(r)
        PROVE  WordInv'
    <3>1. /\ Whole' /\ UNCHANGED <<kind, look, cache>>
          /\ edits' \in Nat /\ edits' >= edits
      BY <2>1, <2>2, MakerWhole
    <3> QED BY <2>1, <3>1, NothingPicked
  <2>3. ASSUME \/ \E r \in Rows : JobStep(r) \/ GrowOld(r) \/ Expire(r)
               \/ Sweep \/ AdminStep
        PROVE  WordInv'
    <3>1. Kept
      BY <2>3, JobsKept, TimeKept, AdminKept
    <3>2. UNCHANGED kind /\ edits' \in Nat /\ edits' >= edits
      BY <3>1 DEF Kept
    <3>3. UNCHANGED look /\ cache' \in {cache, Null}
      BY <2>3, KeptReading
    <3>4. Whole'
      <4>1. \A s \in Rows : edits' = 0 /\ ~rows[s].rolled /\ rows[s].sendable
                              => ~rows'[s].rolled /\ rows'[s].sendable
        BY <3>1, KeptRows
      <4>2. edits' = 0 => edits = 0
        BY <2>1, <3>2
      <4> QED BY <2>1, <4>1, <4>2 DEF Whole
    <3> QED BY <2>1, <3>2, <3>3, <3>4, NothingPicked
  <2>4. ASSUME NEW p \in Senders, SendStep(p) PROVE WordInv'
    <3>1. p \in Makers
      BY MorningAssumption
    <3>2. CASE \E r \in Rows : InsertRow(p, r)
      BY <2>2, <3>1, <3>2
    <3>3. CASE ~\E r \in Rows : InsertRow(p, r)
      <4>1. UNCHANGED <<kind, rows, edits, look, cache>>
        BY <2>4, <3>3 DEF SendStep, FindNone, RenderCard, Rendered, Look, Send, vars, reading, dash
      <4>2. Whole'
        BY <2>1, <4>1 DEF Whole
      <4> QED BY <2>1, <4>1, <4>2, NothingPicked
    <3> QED BY <3>2, <3>3
  <2>5. CASE Next /\ UNCHANGED send
    BY <2>2, <2>3, <2>5, LookWord DEF Next, Create
  <2>6. CASE UNCHANGED allvars
    <3>1. UNCHANGED <<kind, rows, edits, look, cache>>
      BY <2>6 DEF allvars, vars
    <3>2. Whole'
      BY <2>1, <3>1 DEF Whole
    <3> QED BY <2>1, <3>1, <3>2, NothingPicked
  <2> QED BY <2>4, <2>5, <2>6 DEF MorningNext
<1>3. WordInv => WordShown
  BY DEF WordInv
<1>4. MediaInv /\ CardInv /\ [MorningNext]_allvars => (MediaInv /\ CardInv)'
  BY MorningGoesOn
<1> QED BY <1>1, <1>2, <1>3, <1>4, PTL DEF MorningSpec

-----------------------------------------------------------------------------
(* Urls and their stamps.                                                  *)

\* A row or a copy of one has a url and a stamp, or neither.
Paired(x) == x.url <=> x.stamp # "none"
Alike(x, y) == x.url = y.url /\ x.stamp = y.stamp

\* The row or a maker's copy of it has no url yet: a save may take the url off.
Bare(r) == ~rows[r].url \/ \E p \in Makers : make[p].row = r /\ ~make[p].copy.url

\* Nothing about the row is of an upload that is overdue.
Recent(r) ==
  /\ rows[r].stamp # "old"
  /\ \A p \in Makers : make[p].row = r =>
       make[p].copy.stamp # "old" /\ (make[p].at = "write" => make[p].seen.stamp # "old")

\* Time does not pass for a row while a maker is at it; so as long as a save may take
\* a url off, no copy's stamp is told from another's without their urls.
StampInv ==
  /\ StampAgrees
  /\ \A p \in Makers : make[p].row \in Rows =>
       Paired(make[p].copy) /\ (make[p].at = "write" => Paired(make[p].seen))
  /\ \A r \in Rows : Bare(r) => Recent(r)

\* The rows change while the makers do not.
LEMMA StampsKept ==
  ASSUME StampInv, UNCHANGED make, Null \notin Rows,
         \A r \in Rows :
            \/ Alike(rows'[r], rows[r])
            \/ rows'[r].url = TRUE /\ rows'[r].stamp = "fresh"
            \/ /\ rows'[r].url = TRUE /\ rows[r].url /\ rows'[r].stamp = "old"
               /\ \A p \in Makers : make[p].row # r
  PROVE  StampInv'
<1>1. StampAgrees'
  BY DEF StampInv, StampAgrees, Alike
<1>2. ASSUME NEW r \in Rows, Bare(r)' PROVE Recent(r)'
  BY <1>2 DEF StampInv, Bare, Recent, Alike
<1> QED BY <1>1, <1>2 DEF StampInv, Paired

\* A maker goes on while urls and stamps stay: its copies are taken from the row.
LEMMA StampsCopied ==
  ASSUME StampInv, make \in [Makers -> MakeType],
         \A r \in Rows : Alike(rows'[r], rows[r]),
         NEW p \in Makers, NEW m, make' = [make EXCEPT ![p] = m],
         m.row \in Rows =>
           /\ Alike(m.copy, rows[m.row]) \/ (make[p].row = m.row /\ Alike(m.copy, make[p].copy))
           /\ m.at = "write" => Alike(m.seen, rows[m.row])
  PROVE  StampInv'
<1>1. make'[p] = m /\ \A o \in Makers : o # p => make'[o] = make[o]
  OBVIOUS
<1>2. StampAgrees'
  BY DEF StampInv, StampAgrees, Alike
<1>3. ASSUME NEW o \in Makers, make'[o].row \in Rows
      PROVE  Paired(make'[o].copy) /\ (make'[o].at = "write" => Paired(make'[o].seen))
  BY <1>1, <1>3 DEF StampInv, StampAgrees, Paired, Alike
<1>4. ASSUME NEW r \in Rows, Bare(r)' PROVE Recent(r)'
  <2>1. Bare(r)
    BY <1>1, <1>4 DEF Bare, Alike
  <2>2. Recent(r)
    BY <2>1 DEF StampInv
  <2> QED BY <1>1, <2>2 DEF Recent, Alike
<1> QED BY <1>2, <1>3, <1>4 DEF StampInv, Paired

\* A save writes the url with its stamp, or leaves both.
LEMMA StampsSaved ==
  ASSUME MediaInv, StampInv, NEW p \in Makers, SaveWrite(p)
  PROVE  StampInv'
<1> DEFINE w == make[p]
           r == w.row
           d == Diffed(rows[r], w.seen, w.copy)
<1>1. /\ w # Idle /\ w \in MakeType /\ r \in Rows /\ w.at = "write"
      /\ rows \in [Rows -> RowType] /\ make \in [Makers -> MakeType] /\ Null \notin Rows
  <2>1. w # Idle
    BY IdleMaker DEF SaveWrite
  <2> QED BY <2>1, MediaAssumption DEF SaveWrite, MediaInv, MediaTypes, MakeInv, Holds, There
<1>2. rows[r] \in RowType /\ w.seen \in RowType /\ w.copy \in RowType
  BY <1>1 DEF MakeType
<1>3. /\ d.url = IF w.copy.url # w.seen.url THEN w.copy.url ELSE rows[r].url
      /\ d.stamp = IF w.copy.stamp # w.seen.stamp THEN w.copy.stamp ELSE rows[r].stamp
  BY <1>2 DEF Diffed, Columns, RowType
<1>4. rows' = [rows EXCEPT ![r] = d]
  BY <1>1 DEF SaveWrite
<1>5. PICK m : /\ make' = [make EXCEPT ![p] = m]
               /\ m = Idle \/ (m.row = r /\ m.copy = w.copy /\ m.at # "write")
  <2>1. CASE w.next = "idle"
    BY <2>1 DEF SaveWrite
  <2>2. CASE w.next # "idle"
    <3>1. PICK n : n = [w EXCEPT !.at = w.next, !.seen = Absent]
      OBVIOUS
    <3>2. n.row = r /\ n.copy = w.copy /\ n.at # "write"
      BY <1>1, <3>1 DEF MakeType
    <3>3. make' = [make EXCEPT ![p] = n]
      BY <2>2, <3>1 DEF SaveWrite
    <3> QED BY <3>2, <3>3
  <2> QED BY <2>1, <2>2
<1>6. /\ Paired(w.copy) /\ Paired(w.seen) /\ Paired(rows[r])
      /\ Bare(r) => Recent(r)
  BY <1>1 DEF StampInv, StampAgrees, Paired
<1> HIDE DEF d, r, w
<1>7. /\ w.copy.url \in BOOLEAN /\ w.seen.url \in BOOLEAN /\ rows[r].url \in BOOLEAN
      /\ w.copy.stamp \in {"none", "fresh", "old"} /\ w.seen.stamp \in {"none", "fresh", "old"}
  BY <1>2 DEF RowType
<1>8. Bare(r) => w.copy.stamp # "old" /\ w.seen.stamp # "old"
  BY <1>1, <1>6 DEF Recent, r, w
<1>9. Paired(d)
  BY <1>3, <1>6, <1>7, <1>8 DEF Paired, Bare
<1>10. ~d.url => Bare(r)
  BY <1>1, <1>3, <1>7 DEF Bare, r, w
<1>11. /\ rows'[r] = d /\ \A s \in Rows : s # r => rows'[s] = rows[s]
       /\ make'[p] = m /\ \A o \in Makers : o # p => make'[o] = make[o]
  BY <1>1, <1>4, <1>5
<1>12. StampAgrees'
  BY <1>9, <1>11 DEF StampInv, StampAgrees, Paired
<1>13. Idle.row = Null /\ Null \notin Rows
  BY <1>1, IdleMaker
<1>14. ASSUME NEW o \in Makers, make'[o].row \in Rows
       PROVE  Paired(make'[o].copy) /\ (make'[o].at = "write" => Paired(make'[o].seen))
  BY <1>5, <1>6, <1>11, <1>13, <1>14 DEF StampInv, Paired
<1>15. ASSUME NEW s \in Rows, Bare(s)' PROVE Recent(s)'
  <2>1. Bare(s)
    <3>1. CASE ~rows'[s].url
      BY <1>10, <1>11, <3>1 DEF Bare
    <3>2. ASSUME NEW o \in Makers, make'[o].row = s, ~make'[o].copy.url PROVE Bare(s)
      <4>1. CASE o = p
        BY <1>5, <1>11, <1>13, <3>2, <4>1 DEF Bare, r, w
      <4> QED BY <1>11, <3>2, <4>1 DEF Bare
    <3> QED BY <1>15, <3>1, <3>2 DEF Bare
  <2>2. Recent(s)
    BY <2>1 DEF StampInv
  <2>3. rows'[s].stamp # "old"
    BY <1>3, <1>8, <1>11, <2>1, <2>2 DEF Recent
  <2>4. ASSUME NEW o \in Makers, make'[o].row = s
        PROVE  make'[o].copy.stamp # "old" /\ (make'[o].at = "write" => make'[o].seen.stamp # "old")
    <3>1. CASE o = p
      <4>1. s = r /\ make'[o].copy = w.copy /\ make'[o].at # "write"
        BY <1>5, <1>11, <1>13, <2>4, <3>1
      <4> QED BY <1>8, <2>1, <4>1
    <3>2. CASE o # p
      BY <1>11, <2>2, <2>4, <3>2 DEF Recent
    <3> QED BY <3>1, <3>2
  <2> QED BY <2>3, <2>4 DEF Recent
<1> QED BY <1>12, <1>14, <1>15 DEF StampInv, Paired

\* What jobs and time do to a row's url and stamp: they stay, or both are written.
LEMMA JobStamps ==
  ASSUME MediaInv, StampInv, NEW r \in Rows, JobStep(r) \/ GrowOld(r) \/ Expire(r)
  PROVE  StampInv'
<1>1. rows \in [Rows -> RowType] /\ Null \notin Rows
  BY MediaAssumption DEF MediaInv, MediaTypes
<1>2. rows[r].stamp = "fresh" => rows[r].url
  BY DEF StampInv, StampAgrees
<1>3. UNCHANGED make
  BY DEF JobStep, Speak, Render, NotGenerated, Callback, Webhook, AddPreload, PreloadRead,
         NotUploaded, Uploaded, Uncache, GrowOld, Expire
<1>4. CASE \/ rows' = rows \/ rows' = Failed(r) \/ rows' = Stored(r)
           \/ rows' = [rows EXCEPT ![r].status = "queued", ![r].sendable = TRUE]
           \/ rows' = [rows EXCEPT ![r].young = FALSE]
  <2>1. \A s \in Rows : s # r => rows'[s] = rows[s]
    BY <1>1, <1>4 DEF Failed, Stored
  <2>2. rows'[r].url = rows[r].url /\ rows'[r].stamp = rows[r].stamp
    <3>1. rows[r] \in RowType
      BY <1>1
    <3>2. CASE rows' = rows \/ rows' = Failed(r)
      BY <1>1, <3>1, <3>2 DEF Failed, RowType
    <3>3. CASE rows' = Stored(r)
      BY <1>1, <3>1, <3>3 DEF Stored, RowType
    <3>4. CASE rows' = [rows EXCEPT ![r].status = "queued", ![r].sendable = TRUE]
      BY <1>1, <3>1, <3>4 DEF RowType
    <3>5. CASE rows' = [rows EXCEPT ![r].young = FALSE]
      BY <1>1, <3>1, <3>5 DEF RowType
    <3> QED BY <1>4, <3>2, <3>3, <3>4, <3>5
  <2>3. \A s \in Rows : Alike(rows'[s], rows[s])
    BY <2>1, <2>2 DEF Alike
  <2> QED BY <1>1, <1>3, <2>3, StampsKept
<1>5. CASE \E q \in Queues : Uploaded(r, q)
  <2>1. rows'[r].url = TRUE /\ rows'[r].stamp = "fresh"
        /\ \A s \in Rows : s # r => rows'[s] = rows[s]
    BY <1>1, <1>5 DEF Uploaded, Recorded, RowType
  <2>2. \A s \in Rows : Alike(rows'[s], rows[s]) \/ (rows'[s].url = TRUE /\ rows'[s].stamp = "fresh")
    BY <2>1 DEF Alike
  <2> QED BY <1>1, <1>3, <2>2, StampsKept
<1>6. CASE Expire(r)
  <2>1. /\ rows'[r].url = rows[r].url /\ rows'[r].stamp = "old" /\ rows[r].url
        /\ \A p \in Makers : make[p].row # r
        /\ \A s \in Rows : s # r => rows'[s] = rows[s]
    BY <1>1, <1>2, <1>6 DEF Expire, Quiet, RowType
  <2>2. rows[r].url \in BOOLEAN
    BY <1>1 DEF RowType
  <2>3. \A s \in Rows : \/ Alike(rows'[s], rows[s])
                        \/ /\ rows'[s].url = TRUE /\ rows[s].url /\ rows'[s].stamp = "old"
                           /\ \A p \in Makers : make[p].row # s
    BY <2>1, <2>2 DEF Alike
  <2> QED BY <1>1, <1>3, <2>3, StampsKept
<1>7. JobStep(r) \/ GrowOld(r) =>
        \/ rows' = rows \/ rows' = Failed(r) \/ rows' = Stored(r)
        \/ rows' = [rows EXCEPT ![r].status = "queued", ![r].sendable = TRUE]
        \/ rows' = [rows EXCEPT ![r].young = FALSE]
        \/ \E q \in Queues : Uploaded(r, q)
  BY DEF JobStep, Speak, Render, NotGenerated, Callback, Webhook, AddPreload, PreloadRead,
         NotUploaded, Uncache, GrowOld
<1> QED BY <1>4, <1>5, <1>6, <1>7

\* A row that is inserted has neither, and no maker is at it yet.
LEMMA FreshIsBare ==
  ASSUME NEW st, NEW f PROVE Fresh(st, f).url = FALSE /\ Fresh(st, f).stamp = "none"
BY DEF Fresh, Absent

\* The sweep, the dashboard and the readers leave urls and stamps.
LEMMA OthersStamps ==
  ASSUME MediaInv, StampInv,
         \/ Sweep \/ AdminStep \/ \E p \in Readers : LookStep(p)
         \/ \E r \in Rows : UploadText(r)
  PROVE  StampInv'
<1>1. rows \in [Rows -> RowType] /\ Null \notin Rows
  BY MediaAssumption DEF MediaInv, MediaTypes
<1>2. UNCHANGED make
  BY DEF Sweep, AdminStep, Flag, Drop, Delete, BeginRollback, SetSendable, LookStep, Lookup,
         Ensure, Fill, UploadText
<1>3. CASE \/ rows' = rows
           \/ rows' = [rows EXCEPT ![admin.row].rolled = TRUE]
           \/ \E r \in Rows : rows' = [rows EXCEPT ![r].sendable = ~@]
  <2>1. \A s \in Rows : Alike(rows'[s], rows[s])
    BY <1>1, <1>3 DEF Alike, RowType
  <2> QED BY <1>1, <1>2, <2>1, StampsKept
<1>4. CASE \E r \in Rows : rows[r] = Absent /\ rows' = [rows EXCEPT ![r] = Fresh("ready", FALSE)]
  <2>1. PICK r \in Rows : rows[r] = Absent /\ rows' = [rows EXCEPT ![r] = Fresh("ready", FALSE)]
    BY <1>4
  <2>2. rows'[r] = Fresh("ready", FALSE) /\ \A s \in Rows : s # r => rows'[s] = rows[s]
    BY <1>1, <2>1
  <2>3. rows[r].url = FALSE /\ rows[r].stamp = "none"
    BY <2>1 DEF Absent
  <2>4. Fresh("ready", FALSE).url = FALSE /\ Fresh("ready", FALSE).stamp = "none"
    BY FreshIsBare
  <2>5. \A s \in Rows : Alike(rows'[s], rows[s])
    BY <2>2, <2>3, <2>4 DEF Alike
  <2> QED BY <1>1, <1>2, <2>5, StampsKept
<1>5. AutoRows \subseteq Rows
  BY DEF AutoRows
<1> QED
  BY <1>3, <1>4, <1>5
  DEF Sweep, AdminStep, Flag, Drop, Delete, BeginRollback, SetSendable, LookStep, Lookup,
      Ensure, EnsureInsert, EnsureWinner, EnsureFails, Fill, UploadText

\* A row that is inserted changes no url or stamp.
LEMMA InsertedAlike ==
  ASSUME rows \in [Rows -> RowType], NEW r \in Rows, rows[r] = Absent, NEW st, NEW f,
         rows' = [rows EXCEPT ![r] = Fresh(st, f)]
  PROVE  /\ \A s \in Rows : Alike(rows'[s], rows[s])
         /\ Alike(rows'[r], rows[r]) /\ rows'[r] = Fresh(st, f)
<1>1. rows'[r] = Fresh(st, f) /\ \A s \in Rows : s # r => rows'[s] = rows[s]
  OBVIOUS
<1>2. rows[r].url = FALSE /\ rows[r].stamp = "none"
  BY DEF Absent
<1> QED BY <1>1, <1>2, FreshIsBare DEF Alike

\* A request that begins takes its copy from the row.
LEMMA BeginStamps ==
  ASSUME MediaInv, StampInv, NEW p \in Makers, NEW r \in Rows, UploadFile(p, r) \/ InsertRow(p, r)
  PROVE  StampInv'
<1>1. rows \in [Rows -> RowType] /\ make \in [Makers -> MakeType] /\ rows[r] \in RowType
  BY DEF MediaInv, MediaTypes
<1>2. Idle.row = Null /\ Idle.at = "idle" /\ Idle \in MakeType
  BY IdleMaker
<1>3. CASE UploadFile(p, r) /\ rows[r] = Absent
  <2>1. rows[r].status # "failed"
    BY <1>3 DEF Absent
  <2>2. PICK m : m = [Idle EXCEPT !.at = "enqueue", !.row = r, !.copy = rows'[r]]
    OBVIOUS
  <2>3. make' = [make EXCEPT ![p] = m] /\ rows' = [rows EXCEPT ![r] = Fresh("created", TRUE)]
    BY <1>3, <2>1, <2>2 DEF UploadFile
  <2>4. m.row = r /\ m.copy = rows'[r] /\ m.at = "enqueue"
    BY <1>2, <2>2 DEF MakeType
  <2>5. Alike(m.copy, rows[m.row]) /\ \A s \in Rows : Alike(rows'[s], rows[s])
    BY <1>1, <1>3, <2>3, <2>4, InsertedAlike
  <2> QED BY <1>1, <2>3, <2>4, <2>5, StampsCopied
<1>4. CASE UploadFile(p, r) /\ rows[r] # Absent
  <2>1. PICK c : c = [rows[r] EXCEPT !.status = "created", !.file = TRUE,
                                     !.rolled = FALSE, !.sendable = TRUE]
    OBVIOUS
  <2>2. PICK m : m = [Idle EXCEPT !.at = "select", !.row = r, !.next = "enqueue", !.copy = c]
    OBVIOUS
  <2>3. make' = [make EXCEPT ![p] = m] /\ rows' = rows
    BY <1>4, <2>1, <2>2 DEF UploadFile
  <2>4. m.row = r /\ m.copy = c /\ m.at = "select"
    BY <1>2, <2>2 DEF MakeType
  <2>5. Alike(m.copy, rows[m.row])
    BY <1>1, <2>1, <2>4 DEF Alike, RowType
  <2>6. \A s \in Rows : Alike(rows'[s], rows[s])
    BY <2>3 DEF Alike
  <2> QED BY <1>1, <2>3, <2>4, <2>5, <2>6, StampsCopied
<1>5. CASE InsertRow(p, r)
  <2>1. PICK m : m = [Idle EXCEPT !.row = r, !.copy = rows'[r],
                        !.at = IF kind[r] = "report" THEN "store" ELSE "enqueue"]
    OBVIOUS
  <2>2. make' = [make EXCEPT ![p] = m] /\ rows' = [rows EXCEPT ![r] = Fresh("created", FALSE)]
        /\ rows[r] = Absent
    BY <1>5, <2>1 DEF InsertRow
  <2>3. m.row = r /\ m.copy = rows'[r] /\ m.at # "write"
    BY <1>2, <2>1 DEF MakeType
  <2>4. Alike(m.copy, rows[m.row]) /\ \A s \in Rows : Alike(rows'[s], rows[s])
    BY <1>1, <2>2, <2>3, InsertedAlike
  <2> QED BY <1>1, <2>2, <2>3, <2>4, StampsCopied
<1> QED BY <1>3, <1>4, <1>5

\* A request that goes on keeps its copy, or reads the row beside it.
LEMMA MakerStamps ==
  ASSUME MediaInv, StampInv, NEW p \in Makers, MakerStep(p)
  PROVE  StampInv'
<1> DEFINE w == make[p]
<1>1. rows \in [Rows -> RowType] /\ make \in [Makers -> MakeType] /\ w \in MakeType
      /\ Null \notin Rows
  BY MediaAssumption DEF MediaInv, MediaTypes
<1>2. Idle.row = Null /\ Idle.at = "idle"
  BY IdleMaker
<1>3. w.copy \in RowType
  BY <1>1 DEF MakeType
<1>4. ASSUME NEW m, make' = [make EXCEPT ![p] = m],
             \A s \in Rows : Alike(rows'[s], rows[s]),
             m.row \in Rows => /\ m.row = w.row /\ Alike(m.copy, w.copy)
                               /\ m.at = "write" => Alike(m.seen, rows[m.row])
      PROVE  StampInv'
  BY <1>1, <1>4, StampsCopied
<1> HIDE DEF w
<1>5. /\ Alike([w.copy EXCEPT !.file = TRUE], w.copy)
      /\ \A st : Alike([w.copy EXCEPT !.status = st], w.copy)
  BY <1>3 DEF Alike, RowType
<1>6. CASE StoreImage(p)
  <2>1. PICK m : /\ make' = [make EXCEPT ![p] = m]
                 /\ \/ m = [w EXCEPT !.at = "select", !.next = "enqueue", !.copy.file = TRUE]
                    \/ m = [w EXCEPT !.at = "select", !.next = "thrown", !.copy.status = "failed"]
    BY <1>6 DEF StoreImage, w
  <2>2. m.row = w.row /\ m.at = "select"
    BY <1>1, <2>1 DEF MakeType
  <2>3. m.copy = [w.copy EXCEPT !.file = TRUE] \/ m.copy = [w.copy EXCEPT !.status = "failed"]
    BY <1>1, <2>1 DEF MakeType
  <2>4. Alike(m.copy, w.copy)
    BY <1>5, <2>3
  <2>5. \A s \in Rows : Alike(rows'[s], rows[s])
    BY <1>6 DEF StoreImage, Alike
  <2> QED BY <1>4, <2>1, <2>2, <2>4, <2>5
<1>7. CASE Enqueue(p)
  <2>1. \A s \in Rows : Alike(rows'[s], rows[s])
    <3>1. rows' = rows \/ rows' = [rows EXCEPT ![w.row].status = "failed"]
      BY <1>7 DEF Enqueue, w
    <3> QED BY <1>1, <3>1 DEF Alike, RowType
  <2>2. \/ make' = [make EXCEPT ![p] = Idle]
        \/ make' = [make EXCEPT ![p] = [w EXCEPT !.at = "mark"]]
        \/ \E n \in {"done", "thrown", "idle"} :
             make' = [make EXCEPT ![p] = [w EXCEPT !.at = "select", !.copy.status = "queued",
                                                    !.next = n]]
    <3> DEFINE q == IF kind[w.row] \in {"tts", "video"} THEN "generate" ELSE "preload"
    <3>1. \/ q = "generate" /\ make' = [make EXCEPT ![p] = [w EXCEPT !.at = "mark"]]
          \/ make' = [make EXCEPT ![p] =
                        [w EXCEPT !.at = "select", !.copy.status = "queued",
                                  !.next = IF kind[w.row] = "report" THEN "done" ELSE "idle"]]
          \/ make' = [make EXCEPT ![p] =
                        [w EXCEPT !.at = "select", !.copy.status = "queued",
                                  !.next = IF kind[w.row] = "report" THEN "thrown" ELSE "idle"]]
          \/ make' = [make EXCEPT ![p] = Idle]
      BY <1>7 DEF Enqueue, w
    <3> QED BY <3>1
  <2>3. CASE make' = [make EXCEPT ![p] = Idle]
    BY <1>1, <1>2, <1>4, <2>1, <2>3
  <2>4. CASE make' = [make EXCEPT ![p] = [w EXCEPT !.at = "mark"]]
    <3>1. PICK m : m = [w EXCEPT !.at = "mark"]
      OBVIOUS
    <3>2. m.row = w.row /\ m.at = "mark" /\ m.copy = w.copy
      BY <1>1, <3>1 DEF MakeType
    <3>3. Alike(m.copy, w.copy)
      BY <3>2 DEF Alike
    <3> QED BY <1>4, <2>1, <2>4, <3>1, <3>2, <3>3
  <2>5. ASSUME NEW n \in {"done", "thrown", "idle"},
               make' = [make EXCEPT ![p] = [w EXCEPT !.at = "select", !.copy.status = "queued",
                                                      !.next = n]]
        PROVE  StampInv'
    <3>1. PICK m : m = [w EXCEPT !.at = "select", !.copy.status = "queued", !.next = n]
      OBVIOUS
    <3>2. m.row = w.row /\ m.at = "select" /\ m.copy = [w.copy EXCEPT !.status = "queued"]
      BY <1>1, <3>1 DEF MakeType
    <3>3. Alike(m.copy, w.copy)
      BY <1>5, <3>2
    <3> QED BY <1>4, <2>1, <2>5, <3>1, <3>2, <3>3
  <2> QED BY <2>2, <2>3, <2>4, <2>5
<1>8. CASE Mark(p)
  <2>1. make' = [make EXCEPT ![p] = Idle]
        /\ rows' = [rows EXCEPT ![w.row].status = "queued"]
    BY <1>8 DEF Mark, w
  <2>2. \A s \in Rows : Alike(rows'[s], rows[s])
    BY <1>1, <2>1 DEF Alike, RowType
  <2> QED BY <1>1, <1>2, <1>4, <2>1, <2>2
<1>9. CASE SaveSelect(p)
  <2>1. PICK m : m = [w EXCEPT !.at = "write", !.seen = rows[w.row]]
    OBVIOUS
  <2>2. make' = [make EXCEPT ![p] = m] /\ rows' = rows
    BY <1>9, <2>1 DEF SaveSelect, w
  <2>3. m.row = w.row /\ m.copy = w.copy /\ m.seen = rows[w.row]
    BY <1>1, <2>1 DEF MakeType
  <2>4. \A s \in Rows : Alike(rows'[s], rows[s])
    BY <2>2 DEF Alike
  <2>5. Alike(m.copy, w.copy) /\ Alike(m.seen, rows[m.row])
    BY <2>3 DEF Alike
  <2> QED BY <1>4, <2>2, <2>3, <2>4, <2>5
<1>10. CASE SaveWrite(p)
  BY <1>10, StampsSaved
<1> QED BY <1>6, <1>7, <1>8, <1>9, <1>10 DEF MakerStep

\* However many requests, workers, callbacks and sweeps write the row of a file, each
\* over what it read before, the row has a url exactly if it has the date of its
\* upload: the save of an older copy never takes one without the other
\* (media-meta-data.entity.ts:79, recordWhatsappUpload, repo.save).
THEOREM StampsAgree == MorningSpec => []StampAgrees
<1>1. MorningInit => MediaInv /\ CardInv /\ StampInv
  <2> SUFFICES ASSUME MorningInit PROVE MediaInv /\ CardInv /\ StampInv
    OBVIOUS
  <2>1. \A r \in Rows : rows[r] = Absent
    BY DEF MorningInit, Init
  <2>2. Absent.url = FALSE /\ Absent.stamp = "none"
    BY DEF Absent
  <2>3. \A p \in Makers : make[p].row = Null
    BY IdleMaker DEF MorningInit, Init
  <2>4. StampInv
    BY <2>1, <2>2, <2>3, MediaAssumption DEF StampInv, StampAgrees, Bare, Recent
  <2> QED BY <2>4, MorningBegins
<1>2. MediaInv /\ CardInv /\ StampInv /\ [MorningNext]_allvars => StampInv'
  <2> SUFFICES ASSUME MediaInv, StampInv, [MorningNext]_allvars PROVE StampInv'
    OBVIOUS
  <2>1. rows \in [Rows -> RowType] /\ make \in [Makers -> MakeType] /\ Null \notin Rows
    BY MediaAssumption DEF MediaInv, MediaTypes
  <2>2. ASSUME UNCHANGED <<rows, make>> PROVE StampInv'
    <3>1. \A s \in Rows : Alike(rows'[s], rows[s])
      BY <2>2 DEF Alike
    <3> QED BY <2>1, <2>2, <3>1, StampsKept
  <2>3. ASSUME NEW p \in Senders, SendStep(p) PROVE StampInv'
    <3>1. p \in Makers
      BY MorningAssumption
    <3>2. CASE \E r \in Rows : InsertRow(p, r)
      BY <3>1, <3>2, BeginStamps
    <3>3. CASE Rendered(p)
      <4>1. make' = [make EXCEPT ![p] = Idle] /\ rows' = rows
        BY <3>3 DEF Rendered
      <4>2. \A s \in Rows : Alike(rows'[s], rows[s])
        BY <4>1 DEF Alike
      <4> QED BY <2>1, <3>1, <4>1, <4>2, IdleMaker, StampsCopied
    <3>4. CASE ~Rendered(p) /\ ~\E r \in Rows : InsertRow(p, r)
      <4>1. UNCHANGED <<rows, make>>
        BY <2>3, <3>4 DEF SendStep, FindNone, RenderCard, Look, Send, vars
      <4> QED BY <2>2, <4>1
    <3> QED BY <3>2, <3>3, <3>4
  <2>4. CASE Next /\ UNCHANGED send
    BY <2>4, JobStamps, OthersStamps, BeginStamps, MakerStamps DEF Next, Create
  <2>5. CASE UNCHANGED allvars
    BY <2>2, <2>5 DEF allvars, vars
  <2> QED BY <2>3, <2>4, <2>5 DEF MorningNext
<1>3. StampInv => StampAgrees
  BY DEF StampInv
<1>4. MediaInv /\ CardInv /\ [MorningNext]_allvars => (MediaInv /\ CardInv)'
  BY MorningGoesOn
<1> QED BY <1>1, <1>2, <1>3, <1>4, PTL DEF MorningSpec
===============================================================================
