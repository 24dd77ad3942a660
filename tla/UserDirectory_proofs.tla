------------------------- MODULE UserDirectory_proofs -------------------------
(***************************************************************************)
(* What holds of UserDirectory for any accounts, numbers and processes,    *)
(* failed calls to Redis and dead processes; of the public series for any  *)
(* students, nights, processes and visitors; and of the marks a student is *)
(* told of, for any turns on any days.                                     *)
(***************************************************************************)
EXTENDS UserDirectory, Traction, UsageTime, FoldLemmas

-----------------------------------------------------------------------------
(* What a process is doing is a record of these fields, and a step writes  *)
(* some of them for one process.                                           *)

Fields == {"does", "pc", "key", "from", "names", "change", "user", "held", "seen"}

ActsOK ==
  /\ DOMAIN acts = Actors
  /\ \A a \in Actors : DOMAIN acts[a] = Fields

\* A step of a process.
LEMMA StepMoves ==
  ASSUME ActsOK, NEW a \in Actors, NEW fields, DOMAIN fields \subseteq Fields,
         Step(a, fields)
  PROVE  /\ ActsOK' /\ \A b \in Actors \ {a} : acts'[b] = acts[b]
         /\ fields.pc = "done" => acts'[a] = Done
         /\ fields.pc # "done" =>
              \A x \in Fields :
                acts'[a][x] = IF x \in DOMAIN fields THEN fields[x] ELSE acts[a][x]
<1>1. DOMAIN Done = Fields
  BY DEF Done, Resting, Fields
<1>2. acts' = [acts EXCEPT ![a] =
                 IF fields.pc = "done" THEN Done ELSE Over(fields, acts[a])]
  BY DEF Step
<1>3. /\ DOMAIN Over(fields, acts[a]) = Fields
      /\ \A x \in Fields :
           Over(fields, acts[a])[x] = IF x \in DOMAIN fields THEN fields[x] ELSE acts[a][x]
  <2>1. PICK r : r = acts[a]
    OBVIOUS
  <2>2. DOMAIN r = Fields /\ DOMAIN fields \cup DOMAIN r = Fields
    BY <2>1 DEF ActsOK
  <2>3. /\ DOMAIN Over(fields, r) = DOMAIN fields \cup DOMAIN r
        /\ \A x \in DOMAIN fields \cup DOMAIN r :
             Over(fields, r)[x] = IF x \in DOMAIN fields THEN fields[x] ELSE r[x]
    BY DEF Over
  <2> QED BY <2>1, <2>2, <2>3
<1> QED BY <1>1, <1>2, <1>3 DEF ActsOK

\* What a step leaves of a process, field by field.
LEMMA StepWrites ==
  ASSUME ActsOK, NEW a \in Actors, NEW fields, DOMAIN fields \subseteq Fields,
         "pc" \in DOMAIN fields, Step(a, fields)
  PROVE  /\ ActsOK' /\ \A b \in Actors \ {a} : acts'[b] = acts[b]
         /\ fields.pc = "done" => acts'[a] = Done
         /\ fields.pc # "done" =>
              /\ acts'[a].pc = fields.pc
              /\ acts'[a].does = IF "does" \in DOMAIN fields THEN fields.does ELSE acts[a].does
              /\ acts'[a].key = IF "key" \in DOMAIN fields THEN fields.key ELSE acts[a].key
              /\ acts'[a].from = IF "from" \in DOMAIN fields THEN fields.from ELSE acts[a].from
              /\ acts'[a].names = IF "names" \in DOMAIN fields THEN fields.names ELSE acts[a].names
              /\ acts'[a].change = IF "change" \in DOMAIN fields THEN fields.change ELSE acts[a].change
              /\ acts'[a].user = IF "user" \in DOMAIN fields THEN fields.user ELSE acts[a].user
              /\ acts'[a].held = IF "held" \in DOMAIN fields THEN fields.held ELSE acts[a].held
              /\ acts'[a].seen = IF "seen" \in DOMAIN fields THEN fields.seen ELSE acts[a].seen
BY StepMoves DEF Fields

\* What find returned is never published right away.
LEMMA FoundFields ==
  ASSUME NEW a, NEW row
  PROVE  /\ DOMAIN Found(a, row) \subseteq Fields \ {"held", "seen"}
         /\ "pc" \in DOMAIN Found(a, row)
         /\ Found(a, row).pc \in {"insert", "done", "load", "turn", "look"}
BY DEF Found, Fields

-----------------------------------------------------------------------------
(* What each process is about to write, and which copies it still evicts.  *)

\* The accounts there have been.
Known == {v[1] : v \in past}

\* The points at which a process works on a row it holds.
Holding ==
  {"fill", "seed", "publish", "select", "save", "evict", "commit", "after", "remove", "sweep"}

\* The columns a call of update() sets.
Change(c) ==
  c = [name |-> "second"] \/ c = Consent \/ \E q \in Phones : c = [phone |-> q]

Says(act, r, known) ==
  /\ act.does \in {"message", "referrer", "create"} => act.from \in Phones
  /\ act.does \in Finders => act.key \in Keys
  /\ act.does = "message" => act.names \in Phones \cup {Null}
  /\ act.does = "rename" => act.change = [name |-> "second"]
  /\ act.held # Null => act.held \in RowType /\ act.held.id \in known
  /\ act.seen # Null =>
       /\ act.seen \in RowType /\ act.seen.id = act.held.id
       /\ \/ act.does = "update" /\ act.pc = "save"
          \/ act.does = "consent" /\ act.pc \in {"save", "evict", "commit"}
  /\ act.user # Null => act.user \in RowType /\ act.user.id \in known
  /\ act.pc \in Holding => act.held # Null
  /\ act.pc = "evict" => act.does \in {"update", "consent", "delete"}
  /\ act.does = "update" => Change(act.change) /\ act.key \in Keys
  /\ act.does = "update" /\ act.pc \in {"select", "save"} /\ act.key \in Phones =>
       act.held.phone = act.key
  /\ act.does = "turn" => act.user # Null
  /\ act.does = "consent" =>
       /\ act.pc \in InTransaction \cup {"after"} /\ act.change = Consent
       /\ act.key \in Ids /\ act.user # Null /\ act.user.id = act.key
       /\ act.pc # "load" => act.held.id = act.key
       /\ act.pc # "after" => r[act.key] # Null
       /\ act.pc \in {"select", "save", "evict", "commit"} => act.held.phone = r[act.key].phone
       /\ act.pc \in {"save", "evict", "commit"} =>
            act.seen # Null /\ act.seen.phone = r[act.key].phone
  /\ act.does = "delete" => act.held # Null /\ act.held.id = act.key

\* The process will still evict the copy of u under k.
Covers(act, k, u) ==
  /\ act.held # Null /\ act.held.id = u
  /\ \/ /\ act.does = "update" /\ act.pc = "evict"
        /\ \/ k \in {act.held.id, act.held.phone}
           \/ "phone" \in DOMAIN act.change /\ act.key \in Phones /\ k = act.key
     \/ /\ act.does = "consent" /\ act.pc = "after"
        /\ k \in {act.user.id, act.user.phone} \/ act.user.phone # act.held.phone
     \/ /\ act.does = "delete" /\ act.pc = "sweep"
        /\ k \in {act.held.id, act.held.phone}

Excused == doubt \cup left

Covered ==
  \A k \in Keys : Stale(k) /\ k \notin Excused =>
                    \E a \in Actors : Covers(acts[a], k, cache[k].id)

DataOK ==
  /\ DOMAIN rows = Ids
  /\ \A u \in Living : rows[u] \in RowType /\ rows[u].id = u /\ u \in Known

CopiesOK ==
  /\ cache = [k \in Keys |-> cache[k]]
  /\ \A k \in Keys : cache[k] # Null =>
       /\ cache[k] \in RowType /\ cache[k].id \in Known
       /\ k \in {cache[k].id, cache[k].phone}

WriteInv ==
  /\ ActsOK /\ DataOK /\ CopiesOK
  /\ \A a \in Actors : Says(acts[a], rows, Known)
  /\ Covered

\* Who is done says and covers nothing.
LEMMA DoneIsFree ==
  /\ \A r, known : Says(Done, r, known)
  /\ \A k, u : ~Covers(Done, k, u)
BY DEF Done, Resting, Says, Covers, Finders, Holding

\* Accounts there have been stay known.
LEMMA StayKnown ==
  ASSUME past \subseteq past'
  PROVE  Known \subseteq Known'
BY DEF Known

\* A step keeps every stale copy covered when each copy that is stale after it
\* is covered by the process that took it, or was stale and not its to cover.
LEMMA CoveredStep ==
  ASSUME Covered, NEW a \in Actors, \A b \in Actors \ {a} : acts'[b] = acts[b],
         \A k \in Keys : Stale(k)' /\ k \notin Excused' =>
           \/ Covers(acts'[a], k, cache'[k].id)
           \/ /\ Stale(k) /\ k \notin Excused /\ cache'[k].id = cache[k].id
              /\ ~Covers(acts[a], k, cache[k].id)
  PROVE  Covered'
<1> SUFFICES ASSUME NEW k \in Keys, Stale(k)', k \notin Excused'
             PROVE  \E b \in Actors : Covers(acts'[b], k, cache'[k].id)
  BY DEF Covered, Covers
<1>1. CASE Covers(acts'[a], k, cache'[k].id)
  BY <1>1
<1>2. CASE /\ Stale(k) /\ k \notin Excused /\ cache'[k].id = cache[k].id
           /\ ~Covers(acts[a], k, cache[k].id)
  <2>1. PICK b \in Actors : Covers(acts[b], k, cache[k].id)
    BY <1>2 DEF Covered
  <2> QED BY <1>2, <2>1
<1> QED BY <1>1, <1>2

\* Of the tables, what the other processes say depends on the rows their
\* transactions hold.
LEMMA OthersSay ==
  ASSUME WriteInv, NEW a \in Actors, \A b \in Actors \ {a} : acts'[b] = acts[b],
         past \subseteq past', Says(acts'[a], rows', Known'),
         \A u \in Ids : KeyHeld(a, u) /\ rows[u] # Null =>
                          rows'[u] # Null /\ rows'[u].phone = rows[u].phone
  PROVE  \A b \in Actors : Says(acts'[b], rows', Known')
<1> SUFFICES ASSUME NEW b \in Actors \ {a} PROVE Says(acts[b], rows', Known')
  OBVIOUS
<1>1. Says(acts[b], rows, Known) /\ Known \subseteq Known'
  BY StayKnown DEF WriteInv
<1>2. acts[b].does = "consent" /\ acts[b].pc # "after" =>
        rows'[acts[b].key] # Null /\ rows'[acts[b].key].phone = rows[acts[b].key].phone
  BY <1>1 DEF Says, KeyHeld
<1> QED BY <1>1, <1>2 DEF Says, InTransaction

\* A step that leaves the tables and the copies, and takes nothing from what
\* the process covers.
LEMMA PlainStep ==
  ASSUME WriteInv, ActsOK', NEW a \in Actors, \A b \in Actors \ {a} : acts'[b] = acts[b],
         Says(acts'[a], rows, Known), UNCHANGED <<rows, cache, past>>,
         doubt \subseteq doubt', left \subseteq left',
         \/ \A k, u : ~Covers(acts[a], k, u)
         \/ CopiesOf(acts[a].held.id) \subseteq doubt'
  PROVE  WriteInv'
<1>1. \A b \in Actors : Says(acts'[b], rows', Known')
  BY OthersSay DEF Known
<1>2. \A k \in Keys : Stale(k)' => Stale(k) /\ k \in CopiesOf(cache[k].id)
  BY DEF Stale, CopiesOf
<1>3. ASSUME NEW k \in Keys, k \notin doubt', Stale(k) PROVE ~Covers(acts[a], k, cache[k].id)
  BY <1>2, <1>3 DEF Covers, CopiesOf, Stale
<1>4. Covered'
  BY <1>2, <1>3, CoveredStep DEF WriteInv, Excused
<1> QED BY <1>1, <1>4 DEF WriteInv, DataOK, CopiesOK, Living, Known

\* Publishing a row: its copies are those of the row, or in doubt.
LEMMA PublishStep ==
  ASSUME WriteInv, ActsOK', NEW a \in Actors, \A b \in Actors \ {a} : acts'[b] = acts[b],
         Says(acts'[a], rows, Known), NEW row \in RowType, row.id \in Known, Publish(row),
         UNCHANGED <<rows, past>>, \A k, u : ~Covers(acts[a], k, u)
  PROVE  WriteInv'
<1>1. \A b \in Actors : Says(acts'[b], rows', Known')
  BY OthersSay DEF Known
<1>2. ASSUME NEW k \in Keys, Stale(k)', k \notin Excused'
      PROVE  Stale(k) /\ k \notin Excused /\ cache'[k].id = cache[k].id
  <2>1. CASE k \in {row.id, row.phone}
    <3>1. cache'[k] = row
      BY <2>1 DEF Publish
    <3>2. rows[row.id] = row
      BY <1>2, <2>1 DEF Publish, Excused
    <3>3. rows' = rows /\ row # Null
      BY UserAssumption
    <3> QED BY <1>2, <3>1, <3>2, <3>3 DEF Stale
  <2>2. CASE k \notin {row.id, row.phone}
    <3>1. cache'[k] = cache[k] /\ k \notin Excused
      BY <1>2, <2>2 DEF Publish, Excused
    <3> QED BY <1>2, <3>1 DEF Stale
  <2> QED BY <2>1, <2>2
<1>3. Covered'
  BY <1>2, CoveredStep DEF WriteInv
<1>4. CopiesOK'
  BY DEF Publish, WriteInv, CopiesOK, Known
<1> QED BY <1>1, <1>3, <1>4 DEF WriteInv, DataOK, Living, Known

\* Evicting: what the process covered goes, or comes into doubt.
LEMMA EvictStep ==
  ASSUME WriteInv, ActsOK', NEW a \in Actors, \A b \in Actors \ {a} : acts'[b] = acts[b],
         Says(acts'[a], rows, Known), NEW keys, NEW missed, Evict(keys, missed),
         UNCHANGED <<rows, past>>,
         \A k \in Keys : cache[k] # Null /\ Covers(acts[a], k, cache[k].id) =>
                           k \in keys \cup missed
  PROVE  WriteInv'
<1>1. \A b \in Actors : Says(acts'[b], rows', Known')
  BY OthersSay DEF Known
<1>2. ASSUME NEW k \in Keys, Stale(k)', k \notin Excused'
      PROVE  /\ Stale(k) /\ k \notin Excused /\ cache'[k].id = cache[k].id
             /\ ~Covers(acts[a], k, cache[k].id)
  <2>1. cache'[k] # Null
    BY <1>2 DEF Stale
  <2>2. k \notin keys /\ cache'[k] = cache[k]
    BY <2>1 DEF Evict
  <2>3. k \notin Excused /\ k \notin missed
    BY <1>2, <2>2 DEF Evict, Excused
  <2>4. Stale(k)
    BY <1>2, <2>2 DEF Stale
  <2> QED BY <2>1, <2>2, <2>3, <2>4
<1>3. Covered'
  BY <1>2, CoveredStep DEF WriteInv
<1>4. CopiesOK'
  BY DEF Evict, WriteInv, CopiesOK, Known
<1> QED BY <1>1, <1>3, <1>4 DEF WriteInv, DataOK, Living, Known

\* Writing rows: the copies that become stale are the process's to evict.
LEMMA RowsStep ==
  ASSUME WriteInv, ActsOK', NEW a \in Actors, \A b \in Actors \ {a} : acts'[b] = acts[b],
         past \subseteq past', Says(acts'[a], rows', Known'), DataOK',
         \A u \in Ids : KeyHeld(a, u) /\ rows[u] # Null =>
                          rows'[u] # Null /\ rows'[u].phone = rows[u].phone,
         UNCHANGED cache, doubt \subseteq doubt', left \subseteq left',
         \A k, u : ~Covers(acts[a], k, u),
         \A k \in Keys : Stale(k)' /\ k \notin Excused' =>
                           Stale(k) \/ Covers(acts'[a], k, cache[k].id)
  PROVE  WriteInv'
<1>1. \A b \in Actors : Says(acts'[b], rows', Known')
  BY OthersSay
<1>2. Covered'
  BY CoveredStep DEF WriteInv, Excused
<1>3. CopiesOK'
  BY StayKnown DEF WriteInv, CopiesOK
<1> QED BY <1>1, <1>2, <1>3 DEF WriteInv

-----------------------------------------------------------------------------
(* The rows save() writes.                                                 *)

Columns == {"id", "phone", "name", "consent", "by"}

\* A row, column by column.
LEMMA RowColumns ==
  /\ \A r \in RowType :
       /\ r = [x \in Columns |-> r[x]] /\ r # Null
       /\ r.id \in Ids /\ r.phone \in Phones /\ r.name \in Names
       /\ r.consent \in BOOLEAN /\ r.by \in Ids \cup {Null}
  /\ \A r : /\ r = [x \in Columns |-> r[x]]
            /\ r.id \in Ids /\ r.phone \in Phones /\ r.name \in Names
            /\ r.consent \in BOOLEAN /\ r.by \in Ids \cup {Null}
            => r \in RowType
<1>1. ASSUME NEW r \in RowType
      PROVE  /\ r = [x \in Columns |-> r[x]] /\ r # Null
             /\ r.id \in Ids /\ r.phone \in Phones /\ r.name \in Names
             /\ r.consent \in BOOLEAN /\ r.by \in Ids \cup {Null}
  BY UserAssumption DEF RowType, Columns
<1>2. ASSUME NEW r, r = [x \in Columns |-> r[x]],
             r.id \in Ids, r.phone \in Phones, r.name \in Names,
             r.consent \in BOOLEAN, r.by \in Ids \cup {Null}
      PROVE  r \in RowType
  <2>1. r = [id |-> r.id, phone |-> r.phone, name |-> r.name,
             consent |-> r.consent, by |-> r.by]
    BY <1>2 DEF Columns
  <2> QED BY <1>2, <2>1 DEF RowType
<1> QED BY <1>1, <1>2

\* A row made of the columns of rows of one account is a row of it.
LEMMA MixedRow ==
  ASSUME NEW r, NEW p \in RowType, NEW q \in RowType, r = [x \in Columns |-> r[x]],
         \A x \in Columns : r[x] = p[x] \/ r[x] = q[x], p.id = q.id
  PROVE  r \in RowType /\ r.id = p.id
BY RowColumns DEF Columns

\* What a process says it writes leaves the key of the row as it was, and the
\* number too unless it changes the number.
LEMMA AssignedRow ==
  ASSUME NEW a \in Actors, acts[a].held \in RowType, Change(acts[a].change)
  PROVE  /\ Assigned(a) \in RowType /\ Assigned(a).id = acts[a].held.id
         /\ "phone" \notin DOMAIN acts[a].change =>
              Assigned(a).phone = acts[a].held.phone
<1>1. PICK r \in RowType : r = acts[a].held
  OBVIOUS
<1>2. PICK c : c = acts[a].change
  OBVIOUS
<1>3. DOMAIN c \subseteq {"phone", "name", "consent"}
  BY <1>2 DEF Consent, Change
<1>4. /\ "phone" \in DOMAIN c => c.phone \in Phones
      /\ "name" \in DOMAIN c => c.name \in Names
      /\ "consent" \in DOMAIN c => c.consent \in BOOLEAN
  <2>1. CASE c = [name |-> "second"]
    BY <2>1 DEF Names
  <2>2. CASE c = Consent
    BY <2>2 DEF Consent
  <2>3. ASSUME NEW q \in Phones, c = [phone |-> q]
        PROVE  <1>4!:
    BY <2>3
  <2> QED BY <1>2, <2>1, <2>2, <2>3 DEF Change
<1> DEFINE f == Over(c, r)
<1>5. f = [x \in Columns |-> IF x \in DOMAIN c THEN c[x] ELSE r[x]]
  <2>1. DOMAIN r = Columns
    BY DEF RowType, Columns
  <2>2. DOMAIN c \cup DOMAIN r = Columns
    BY <1>3, <2>1 DEF Columns
  <2> QED BY <2>2 DEF Over
<1>6. /\ r.id \in Ids /\ r.phone \in Phones /\ r.name \in Names /\ r.consent \in BOOLEAN
      /\ r.by \in Ids \cup {Null}
  BY RowColumns
<1>7. f = [x \in Columns |-> f[x]]
  BY <1>5
<1>8. /\ f.id = r.id /\ f.by = r.by
      /\ f.phone \in Phones /\ f.name \in Names /\ f.consent \in BOOLEAN
      /\ "phone" \notin DOMAIN c => f.phone = r.phone
  BY <1>3, <1>4, <1>5, <1>6 DEF Columns
<1>9. f = Assigned(a)
  BY <1>1, <1>2 DEF Assigned
<1> HIDE DEF f
<1>10. f \in RowType
  BY <1>6, <1>7, <1>8, RowColumns
<1> QED BY <1>1, <1>2, <1>8, <1>9, <1>10

\* The row u after save()'s statement: none if the row has gone, else one
\* whose columns are the entity's or the row's.
LEMMA SavedRow ==
  ASSUME WriteInv, NEW a \in Actors, acts[a].held # Null, Change(acts[a].change),
         NEW u, u = acts[a].held.id
  PROVE  /\ acts[a].held \in RowType /\ u \in Ids /\ u \in Known
         /\ Assigned(a) \in RowType /\ Assigned(a).id = u
         /\ Saved(a, u) = Null <=> (acts[a].seen # Null /\ rows[u] = Null)
         /\ Saved(a, u) # Null => Saved(a, u) \in RowType /\ Saved(a, u).id = u
         /\ acts[a].seen # Null /\ Assigned(a).phone = acts[a].seen.phone /\ rows[u] # Null =>
              Saved(a, u).phone = rows[u].phone
         /\ acts[a].seen # Null /\ rows[u] # Null =>
              /\ rows[u] = [x \in Columns |-> rows[u][x]]
              /\ \A x \in Columns :
                   Saved(a, u)[x] = IF Assigned(a)[x] # acts[a].seen[x]
                                    THEN Assigned(a)[x] ELSE rows[u][x]
<1>1. Says(acts[a], rows, Known)
  BY DEF WriteInv
<1>2. acts[a].held \in RowType /\ u \in Known /\ u \in Ids
  BY <1>1, RowColumns DEF Says
<1>3. PICK e : e = Assigned(a) /\ e \in RowType /\ e.id = u /\ e # Null
  BY <1>2, AssignedRow, RowColumns
<1>4. CASE acts[a].seen = Null
  BY <1>2, <1>3, <1>4 DEF Saved
<1>5. CASE acts[a].seen # Null /\ rows[u] = Null
  BY <1>2, <1>3, <1>5 DEF Saved
<1>6. CASE acts[a].seen # Null /\ rows[u] # Null
  <2>1. PICK r \in RowType : r = rows[u] /\ r.id = u /\ r = [x \in Columns |-> r[x]]
    BY <1>2, <1>6, RowColumns DEF WriteInv, DataOK, Living
  <2>2. PICK s : s = acts[a].seen
    OBVIOUS
  <2>3. PICK n : n = Saved(a, u)
    OBVIOUS
  <2>4. n = [x \in Columns |-> IF e[x] # s[x] THEN e[x] ELSE r[x]]
    <3>1. n = [x \in DOMAIN r |-> IF e[x] # s[x] THEN e[x] ELSE r[x]]
      BY <1>3, <1>6, <2>1, <2>2, <2>3 DEF Saved
    <3> QED BY <2>1, <3>1
  <2>5. n \in RowType /\ n.id = u
    BY <1>3, <2>1, <2>4, MixedRow
  <2>6. e.phone = s.phone => n.phone = r.phone
    BY <2>4 DEF Columns
  <2>7. n # Null
    BY <2>5, RowColumns
  <2>8. \A x \in Columns :
          Saved(a, u)[x] = IF Assigned(a)[x] # acts[a].seen[x]
                           THEN Assigned(a)[x] ELSE rows[u][x]
    <3> SUFFICES ASSUME NEW x \in Columns
                 PROVE  n[x] = IF e[x] # s[x] THEN e[x] ELSE r[x]
      BY <1>3, <2>1, <2>2, <2>3
    <3> QED BY <2>4
  <2>9. /\ Assigned(a).phone = acts[a].seen.phone => Saved(a, u).phone = rows[u].phone
        /\ Saved(a, u) # Null /\ Saved(a, u) \in RowType /\ Saved(a, u).id = u
        /\ rows[u] = [x \in Columns |-> rows[u][x]]
    BY <1>3, <2>1, <2>2, <2>3, <2>5, <2>6, <2>7
  <2> QED BY <1>2, <1>3, <1>6, <2>8, <2>9
<1> QED BY <1>4, <1>5, <1>6

-----------------------------------------------------------------------------
(* The steps.                                                              *)

\* A copy that agrees with its row is kept under the row's id or number.
LEMMA FreshCopy ==
  ASSUME WriteInv, NEW k \in Keys, cache[k] # Null, ~Stale(k)
  PROVE  /\ rows[cache[k].id] # Null /\ cache[k].id \in Ids
         /\ k \in {cache[k].id, rows[cache[k].id].phone}
<1>1. PICK c \in RowType : c = cache[k] /\ c.id \in Ids
  BY RowColumns DEF WriteInv, CopiesOK
<1>2. PICK r : r = rows[c.id] /\ r # Null /\ [r EXCEPT !.by = Null] = [c EXCEPT !.by = Null]
  BY <1>1 DEF Stale
<1>3. r \in RowType
  BY <1>1, <1>2 DEF WriteInv, DataOK, Living
<1>4. [r EXCEPT !.by = Null].phone = r.phone /\ [c EXCEPT !.by = Null].phone = c.phone
  BY <1>3 DEF RowType
<1>5. r.phone = c.phone
  BY <1>2, <1>4
<1> QED BY <1>1, <1>2, <1>5 DEF WriteInv, CopiesOK

\* The row under a key.
LEMMA StoredRow ==
  ASSUME WriteInv, NEW k, Stored(k) # Null
  PROVE  /\ Stored(k) \in RowType /\ Stored(k).id \in Living /\ Stored(k).id \in Known
         /\ rows[Stored(k).id] = Stored(k)
         /\ k \in Phones => Stored(k).phone = k
         /\ k \in Ids => Stored(k).id = k
<1>1. PICK u \in WithKey(k) : Stored(k) = rows[u]
  BY DEF Stored
<1>2. u \in Living /\ (u = k \/ rows[u].phone = k)
  BY <1>1 DEF WithKey
<1>3. rows[u].id = u /\ rows[u] \in RowType /\ u \in Known /\ u \in Ids
  BY <1>2 DEF WriteInv, DataOK, Living
<1>4. rows[u].phone \in Phones
  BY <1>3, RowColumns
<1> QED BY <1>1, <1>2, <1>3, <1>4, UserAssumption

\* Asking a process to do something.
LEMMA AskedWrites ==
  ASSUME WriteInv, NEW a \in Actors,
         Message(a) \/ NumberChange(a) \/ Patch(a) \/ DeleteUser(a)
  PROVE  WriteInv'
<1>1. /\ UNCHANGED <<rows, cache, past>> /\ doubt \subseteq doubt' /\ left \subseteq left'
      /\ acts[a].pc = "rest"
  BY DEF Message, NumberChange, Patch, DeleteUser, history
<1>2. ActsOK /\ Says(acts[a], rows, Known) /\ acts[a].seen = Null
      /\ \A k, u : ~Covers(acts[a], k, u)
  <2>1. ActsOK /\ Says(acts[a], rows, Known) /\ \A k, u : ~Covers(acts[a], k, u)
    BY <1>1 DEF WriteInv, Covers
  <2> QED BY <1>1, <2>1 DEF Says
<1>3. CASE Message(a)
  <2>1. PICK p, r, f :
          /\ p \in Phones /\ r \in Phones \cup {Null}
          /\ f = [does |-> "message", pc |-> "look", key |-> p, from |-> p, names |-> r]
          /\ Step(a, f)
    BY <1>3 DEF Message
  <2>2. DOMAIN f = {"pc", "does", "from", "key", "names"} /\ DOMAIN f \subseteq Fields
        /\ f.pc = "look" /\ f.does = "message" /\ f.from = p /\ f.key = p /\ f.names = r
    BY <2>1 DEF Fields
  <2>3. /\ ActsOK' /\ \A b \in Actors \ {a} : acts'[b] = acts[b]
        /\ acts'[a].does = "message" /\ acts'[a].pc = "look" /\ acts'[a].from = p
        /\ acts'[a].key = p /\ acts'[a].names = r /\ acts'[a].user = acts[a].user
        /\ acts'[a].held = acts[a].held /\ acts'[a].seen = acts[a].seen
    BY <1>2, <2>1, <2>2, StepWrites
  <2>4. Says(acts'[a], rows, Known)
    BY <1>2, <2>1, <2>3 DEF Says, Keys, Holding
  <2> QED BY <1>1, <1>2, <2>3, <2>4, PlainStep
<1>4. CASE NumberChange(a)
  <2>1. PICK p, q, f :
          /\ p \in Phones /\ q \in Phones
          /\ f = [does |-> "update", pc |-> "load", key |-> p, change |-> [phone |-> q]]
          /\ Step(a, f)
    BY <1>4 DEF NumberChange, Renumber
  <2>2. DOMAIN f = {"pc", "does", "key", "change"} /\ DOMAIN f \subseteq Fields
        /\ f.pc = "load" /\ f.does = "update" /\ f.key = p /\ f.change = [phone |-> q]
    BY <2>1 DEF Fields
  <2>3. /\ ActsOK' /\ \A b \in Actors \ {a} : acts'[b] = acts[b]
        /\ acts'[a].does = "update" /\ acts'[a].pc = "load" /\ acts'[a].key = p
        /\ acts'[a].change = [phone |-> q] /\ acts'[a].user = acts[a].user
        /\ acts'[a].held = acts[a].held /\ acts'[a].seen = acts[a].seen
    BY <1>2, <2>1, <2>2, StepWrites
  <2>4. Says(acts'[a], rows, Known)
    BY <1>2, <2>1, <2>3 DEF Says, Finders, Keys, Holding, Change
  <2> QED BY <1>1, <1>2, <2>3, <2>4, PlainStep
<1>5. CASE Patch(a)
  <2>1. PICK u, d, c, f :
          /\ u \in Ids /\ d \in {"rename", "update"} /\ Change(c)
          /\ d = "rename" => c = [name |-> "second"]
          /\ f = [does |-> d, pc |-> IF d = "rename" THEN "look" ELSE "load",
                  key |-> u, change |-> c]
          /\ Step(a, f)
    <3>1. PICK u \in Ids :
            \/ \E c \in Rename :
                 Step(a, [does |-> "rename", pc |-> "look", key |-> u, change |-> c])
            \/ \E c \in Rename \cup Renumber :
                 Step(a, [does |-> "update", pc |-> "load", key |-> u, change |-> c])
      BY <1>5 DEF Patch
    <3>2. CASE \E c \in Rename :
                 Step(a, [does |-> "rename", pc |-> "look", key |-> u, change |-> c])
      <4>1. PICK c \in Rename :
                 Step(a, [does |-> "rename", pc |-> "look", key |-> u, change |-> c])
        BY <3>2
      <4>2. c = [name |-> "second"] /\ Change(c)
        BY <4>1 DEF Rename, Change
      <4> WITNESS u, "rename", c,
                  [does |-> "rename", pc |-> IF "rename" = "rename" THEN "look" ELSE "load",
                   key |-> u, change |-> c]
      <4> QED BY <4>1, <4>2
    <3>3. CASE \E c \in Rename \cup Renumber :
                 Step(a, [does |-> "update", pc |-> "load", key |-> u, change |-> c])
      <4>1. PICK c \in Rename \cup Renumber :
                 Step(a, [does |-> "update", pc |-> "load", key |-> u, change |-> c])
        BY <3>3
      <4>2. Change(c)
        BY <4>1 DEF Rename, Renumber, Change
      <4> WITNESS u, "update", c,
                  [does |-> "update", pc |-> IF "update" = "rename" THEN "look" ELSE "load",
                   key |-> u, change |-> c]
      <4> QED BY <4>1, <4>2
    <3> QED BY <3>1, <3>2, <3>3
  <2>2. /\ DOMAIN f = {"pc", "does", "key", "change"} /\ DOMAIN f \subseteq Fields
        /\ f.pc \in {"look", "load"} /\ f.does = d /\ f.change = c /\ f.key = u
        /\ f.pc = "look" => d = "rename"
    BY <2>1 DEF Fields
  <2>3. /\ ActsOK' /\ \A b \in Actors \ {a} : acts'[b] = acts[b]
        /\ acts'[a].does = d /\ acts'[a].pc \in {"look", "load"}
        /\ acts'[a].pc = "look" => d = "rename"
        /\ acts'[a].change = c /\ acts'[a].key = u /\ acts'[a].user = acts[a].user
        /\ acts'[a].held = acts[a].held /\ acts'[a].seen = acts[a].seen
    BY <1>2, <2>1, <2>2, StepWrites
  <2>4. Says(acts'[a], rows, Known)
    BY <1>2, <2>1, <2>3 DEF Says, Keys, Finders, Holding
  <2> QED BY <1>1, <1>2, <2>3, <2>4, PlainStep
<1>6. CASE DeleteUser(a)
  <2>1. PICK k, row, f :
          /\ k \in Keys /\ row = Stored(k) /\ row # Null
          /\ f = [does |-> "delete", pc |-> "evict", key |-> row.id, held |-> row]
          /\ Step(a, f)
    BY <1>6 DEF DeleteUser
  <2>2. DOMAIN f = {"pc", "does", "key", "held"} /\ DOMAIN f \subseteq Fields
        /\ f.pc = "evict" /\ f.does = "delete" /\ f.key = row.id /\ f.held = row
    BY <2>1 DEF Fields
  <2>3. /\ ActsOK' /\ \A b \in Actors \ {a} : acts'[b] = acts[b]
        /\ acts'[a].does = "delete" /\ acts'[a].pc = "evict" /\ acts'[a].key = row.id
        /\ acts'[a].held = row /\ acts'[a].user = acts[a].user /\ acts'[a].seen = acts[a].seen
    BY <1>2, <2>1, <2>2, StepWrites
  <2>4. row \in RowType /\ row.id \in Known
    BY <2>1, StoredRow
  <2>5. Says(acts'[a], rows, Known)
    BY <1>2, <2>1, <2>3, <2>4 DEF Says, Finders, Holding
  <2> QED BY <1>1, <1>2, <2>3, <2>5, PlainStep
<1> QED BY <1>3, <1>4, <1>5, <1>6

\* What find's callers go on to.
LEMMA FoundSays ==
  ASSUME WriteInv, NEW a \in Actors, acts[a].does \in Finders,
         NEW row, row # Null => row \in RowType /\ row.id \in Known,
         NEW f, \A x \in DOMAIN Found(a, row) : f[x] = Found(a, row)[x],
         DOMAIN f \subseteq DOMAIN Found(a, row) \cup {"held"},
         DOMAIN Found(a, row) \subseteq DOMAIN f,
         "held" \in DOMAIN f => f.held = Null, Step(a, f)
  PROVE  /\ Says(acts'[a], rows, Known) /\ ActsOK'
         /\ \A b \in Actors \ {a} : acts'[b] = acts[b]
<1>1. PICK g : g = Found(a, row)
  OBVIOUS
<1>2. /\ DOMAIN g \subseteq Fields \ {"held", "seen"} /\ "pc" \in DOMAIN g
      /\ g.pc \in {"insert", "done", "load", "turn", "look"}
  BY <1>1, FoundFields
<1>3. /\ DOMAIN f \subseteq Fields /\ "pc" \in DOMAIN f /\ f.pc = g.pc
      /\ \A x \in DOMAIN g : x \in DOMAIN f /\ f[x] = g[x]
      /\ \A x \in DOMAIN f \ {"held"} : x \in DOMAIN g
      /\ "seen" \notin DOMAIN f
  BY <1>1, <1>2 DEF Fields
<1>4. ActsOK /\ Says(acts[a], rows, Known) /\ acts[a].seen = Null
  <2>1. ActsOK /\ Says(acts[a], rows, Known)
    BY DEF WriteInv
  <2> QED BY <2>1 DEF Says, Finders
<1>5. /\ ActsOK' /\ \A b \in Actors \ {a} : acts'[b] = acts[b]
      /\ g.pc = "done" => acts'[a] = Done
      /\ g.pc # "done" =>
              /\ acts'[a].pc = g.pc
              /\ acts'[a].does = IF "does" \in DOMAIN g THEN g.does ELSE acts[a].does
              /\ acts'[a].key = IF "key" \in DOMAIN g THEN g.key ELSE acts[a].key
              /\ acts'[a].from = IF "from" \in DOMAIN g THEN g.from ELSE acts[a].from
              /\ acts'[a].names = IF "names" \in DOMAIN g THEN g.names ELSE acts[a].names
              /\ acts'[a].change = IF "change" \in DOMAIN g THEN g.change ELSE acts[a].change
              /\ acts'[a].user = IF "user" \in DOMAIN g THEN g.user ELSE acts[a].user
              /\ acts'[a].held = Null \/ acts'[a].held = acts[a].held
              /\ acts'[a].seen = Null
  BY <1>3, <1>4, StepWrites
<1>6. CASE g.pc = "done"
  BY <1>5, <1>6, DoneIsFree
<1>7. CASE g.pc # "done"
  <2>0. /\ acts'[a].held # Null => acts'[a].held \in RowType /\ acts'[a].held.id \in Known
        /\ acts[a].user # Null => acts[a].user \in RowType /\ acts[a].user.id \in Known
        /\ acts'[a].pc \notin Holding
    BY <1>2, <1>4, <1>5, <1>7 DEF Says, Holding
  <2>1. CASE acts[a].does = "referrer"
    <3>1. /\ "does" \in DOMAIN g /\ g.does = "create" /\ g.pc = "insert" /\ "from" \notin DOMAIN g
          /\ "user" \notin DOMAIN g
      BY <1>1, <2>1 DEF Found
    <3> QED BY <1>4, <1>5, <2>0, <2>1, <3>1 DEF Says, Finders
  <2>2. CASE acts[a].does = "rename"
    <3>1. /\ "does" \in DOMAIN g /\ g.does = "update" /\ g.pc = "load"
          /\ "change" \notin DOMAIN g /\ "user" \notin DOMAIN g
          /\ "key" \in DOMAIN g /\ g.key = row.id /\ row # Null
      BY <1>1, <1>7, <2>2 DEF Found
    <3>2. row.id \in Keys
      BY <3>1, RowColumns DEF Keys
    <3> QED BY <1>4, <1>5, <2>0, <2>2, <3>1, <3>2 DEF Says, Finders, Change
  <2>3. CASE acts[a].does = "message" /\ row # Null
    <3>1. /\ "does" \in DOMAIN g /\ g.does = "turn" /\ g.pc = "turn"
          /\ "user" \in DOMAIN g /\ g.user = row
      BY <1>1, <2>3 DEF Found
    <3> QED BY <1>5, <2>0, <2>3, <3>1 DEF Says, Finders
  <2>4. CASE acts[a].does = "message" /\ row = Null
    <3>1. CASE acts[a].names = Null
      <4>1. /\ "does" \in DOMAIN g /\ g.does = "create"
            /\ g.pc = "insert" /\ "from" \notin DOMAIN g /\ "user" \notin DOMAIN g
        BY <1>1, <2>4, <3>1 DEF Found
      <4> QED BY <1>4, <1>5, <2>0, <2>4, <4>1 DEF Says, Finders
    <3>2. CASE acts[a].names # Null
      <4>1. /\ "does" \in DOMAIN g /\ g.does = "referrer" /\ g.pc = "look"
            /\ "key" \in DOMAIN g /\ g.key = acts[a].names /\ "from" \notin DOMAIN g
            /\ "user" \notin DOMAIN g
        BY <1>1, <2>4, <3>2 DEF Found
      <4> QED BY <1>4, <1>5, <2>0, <2>4, <3>2, <4>1 DEF Says, Finders, Keys
    <3> QED BY <3>1, <3>2
  <2> QED BY <1>5, <2>1, <2>2, <2>3, <2>4 DEF Finders
<1> QED BY <1>5, <1>6, <1>7

\* find.
LEMMA FindWrites ==
  ASSUME WriteInv, NEW a \in Actors, Look(a) \/ Read(a) \/ Fill(a)
  PROVE  WriteInv'
<1>1. /\ \A k, u : ~Covers(acts[a], k, u)
      /\ acts[a].does \in Finders
  BY DEF Look, Read, Fill, At, Covers, Finders
<1>2. ActsOK /\ Says(acts[a], rows, Known) /\ acts[a].seen = Null
  <2>1. ActsOK /\ Says(acts[a], rows, Known)
    BY DEF WriteInv
  <2> QED BY <1>1, <2>1 DEF Says, Finders
<1>3. ASSUME NEW f, f = [pc |-> "read"], Step(a, f)
      PROVE  /\ Says(acts'[a], rows, Known) /\ ActsOK'
             /\ \A b \in Actors \ {a} : acts'[b] = acts[b]
  <2>1. DOMAIN f = {"pc"} /\ f.pc = "read" /\ DOMAIN f \subseteq Fields
    BY <1>3 DEF Fields
  <2>2. /\ ActsOK' /\ \A b \in Actors \ {a} : acts'[b] = acts[b]
        /\ acts'[a].pc = "read" /\ acts'[a].does = acts[a].does
        /\ acts'[a].from = acts[a].from /\ acts'[a].change = acts[a].change
        /\ acts'[a].names = acts[a].names /\ acts'[a].key = acts[a].key
        /\ acts'[a].held = acts[a].held /\ acts'[a].user = acts[a].user
        /\ acts'[a].seen = acts[a].seen
    BY <1>2, <1>3, <2>1, StepWrites
  <2> QED BY <1>1, <1>2, <2>2 DEF Says, Finders, Holding
<1>4. CASE Look(a)
  <2>1. UNCHANGED <<rows, cache, past>> /\ doubt \subseteq doubt' /\ left \subseteq left'
    BY <1>4 DEF Look, history
  <2>2. CASE cache[acts[a].key] # Null /\ Step(a, Found(a, cache[acts[a].key]))
    <3>1. PICK row : row = cache[acts[a].key] /\ row # Null /\ Step(a, Found(a, row))
      BY <2>2
    <3>2. row \in RowType /\ row.id \in Known
      <4>1. acts[a].key \in Keys
        BY <1>1, <1>2 DEF Says
      <4> QED BY <3>1, <4>1 DEF WriteInv, CopiesOK
    <3>3. "held" \notin DOMAIN Found(a, row)
      BY FoundFields
    <3>4. /\ Says(acts'[a], rows, Known) /\ ActsOK'
          /\ \A b \in Actors \ {a} : acts'[b] = acts[b]
      BY <1>1, <3>1, <3>2, <3>3, FoundSays
    <3> QED BY <1>1, <2>1, <3>4, PlainStep
  <2>3. CASE Step(a, [pc |-> "read"])
    BY <1>1, <1>3, <2>1, <2>3, PlainStep
  <2> QED BY <1>4, <2>2, <2>3 DEF Look
<1>5. CASE Read(a)
  <2>1. UNCHANGED <<rows, cache, past>> /\ doubt \subseteq doubt' /\ left \subseteq left'
    BY <1>5 DEF Read, history
  <2>2. PICK row : row = Stored(acts[a].key)
    OBVIOUS
  <2>3. CASE row = Null
    <3>1. Step(a, Found(a, row)) /\ "held" \notin DOMAIN Found(a, row)
      BY <1>5, <2>2, <2>3, FoundFields DEF Read
    <3>2. /\ Says(acts'[a], rows, Known) /\ ActsOK'
          /\ \A b \in Actors \ {a} : acts'[b] = acts[b]
      BY <1>1, <2>3, <3>1, FoundSays
    <3> QED BY <1>1, <2>1, <3>2, PlainStep
  <2>4. CASE row # Null
    <3>1. PICK f : f = [pc |-> "fill", held |-> row] /\ Step(a, f)
      BY <1>5, <2>2, <2>4 DEF Read
    <3>2. DOMAIN f = {"pc", "held"} /\ f.pc = "fill" /\ f.held = row /\ DOMAIN f \subseteq Fields
      BY <3>1 DEF Fields
    <3>3. /\ ActsOK' /\ \A b \in Actors \ {a} : acts'[b] = acts[b]
          /\ acts'[a].pc = "fill" /\ acts'[a].does = acts[a].does
          /\ acts'[a].from = acts[a].from /\ acts'[a].change = acts[a].change
          /\ acts'[a].names = acts[a].names /\ acts'[a].key = acts[a].key
          /\ acts'[a].held = row /\ acts'[a].user = acts[a].user
          /\ acts'[a].seen = acts[a].seen
      BY <1>2, <3>1, <3>2, StepWrites
    <3>4. row \in RowType /\ row.id \in Known
      BY <2>2, <2>4, StoredRow
    <3>5. Says(acts'[a], rows, Known)
      BY <1>1, <1>2, <2>4, <3>3, <3>4 DEF Says, Finders
    <3> QED BY <1>1, <2>1, <3>3, <3>5, PlainStep
  <2> QED BY <2>3, <2>4
<1>6. CASE Fill(a)
  <2>1. PICK row : row = acts[a].held
    OBVIOUS
  <2>2. row \in RowType /\ row.id \in Known
    BY <1>2, <1>6, <2>1 DEF Fill, At, Says, Holding
  <2>3. PICK f : f = Over([held |-> Null], Found(a, row)) /\ Step(a, f)
    BY <1>6, <2>1 DEF Fill
  <2>4. /\ DOMAIN f \subseteq DOMAIN Found(a, row) \cup {"held"}
        /\ DOMAIN Found(a, row) \subseteq DOMAIN f /\ f.held = Null
        /\ \A x \in DOMAIN Found(a, row) : f[x] = Found(a, row)[x]
    <3>1. PICK g : g = Found(a, row)
      OBVIOUS
    <3>2. "held" \notin DOMAIN g
      BY <3>1, FoundFields
    <3>3. f = [x \in {"held"} \cup DOMAIN g |->
                 IF x \in {"held"} THEN [held |-> Null][x] ELSE g[x]]
      BY <2>3, <3>1 DEF Over
    <3> QED BY <3>1, <3>2, <3>3
  <2>5. /\ Says(acts'[a], rows, Known) /\ ActsOK'
        /\ \A b \in Actors \ {a} : acts'[b] = acts[b]
    BY <1>1, <2>2, <2>3, <2>4, FoundSays
  <2>6. Publish(row) /\ UNCHANGED <<rows, past>>
    BY <1>6, <2>1 DEF Fill
  <2> QED BY <1>1, <2>2, <2>5, <2>6, PublishStep
<1> QED BY <1>4, <1>5, <1>6

\* The end of a process: it says nothing more.
LEMMA RestSays ==
  ASSUME ActsOK, NEW a \in Actors, Rest(a)
  PROVE  /\ acts'[a] = Done /\ ActsOK' /\ \A b \in Actors \ {a} : acts'[b] = acts[b]
         /\ \A r, known : Says(acts'[a], r, known)
<1>1. PICK f : f = [pc |-> "done"] /\ Step(a, f)
  BY DEF Rest
<1>2. DOMAIN f = {"pc"} /\ f.pc = "done" /\ DOMAIN f \subseteq Fields
  BY <1>1 DEF Fields
<1>3. acts'[a] = Done /\ ActsOK' /\ \A b \in Actors \ {a} : acts'[b] = acts[b]
  BY <1>1, <1>2, StepWrites
<1> QED BY <1>3, DoneIsFree

\* create: nothing was ever copied of a new account.
LEMMA CreateWrites ==
  ASSUME WriteInv, NEW a \in Actors, Insert(a) \/ Seed(a) \/ Populate(a)
  PROVE  WriteInv'
<1>1. /\ \A k, u : ~Covers(acts[a], k, u)
      /\ acts[a].does = "create"
  BY DEF Insert, Seed, Populate, At, Covers
<1>2. /\ ActsOK /\ Says(acts[a], rows, Known) /\ acts[a].from \in Phones
      /\ acts[a].seen = Null
  <2>1. ActsOK /\ Says(acts[a], rows, Known)
    BY DEF WriteInv
  <2> QED BY <1>1, <2>1 DEF Says
<1>3. CASE Insert(a)
  <2>1. UNCHANGED cache /\ doubt' = doubt /\ left' = left
    BY <1>3 DEF Insert
  <2>2. CASE WithKey(acts[a].from) # {}
    <3>1. Rest(a) /\ UNCHANGED <<rows, past>>
      BY <1>3, <2>2 DEF Insert
    <3> QED BY <1>1, <1>2, <2>1, <3>1, RestSays, PlainStep
  <2>3. CASE WithKey(acts[a].from) = {}
    <3>1. PICK u, ref, row, f :
            /\ u \in Ids \ Known
            /\ ref = IF acts[a].names = Null THEN Null ELSE Stored(acts[a].names)
            /\ row = [id |-> u, phone |-> acts[a].from, name |-> "first",
                      consent |-> FALSE, by |-> IF ref = Null THEN Null ELSE ref.id]
            /\ rows' = [rows EXCEPT ![u] = row]
            /\ past' = past \cup Values(row)
            /\ f = [pc |-> "seed", held |-> row] /\ Step(a, f)
      BY <1>3, <2>3 DEF Insert, Known
    <3>2. DOMAIN f = {"pc", "held"} /\ f.pc = "seed" /\ f.held = row /\ DOMAIN f \subseteq Fields
      BY <3>1 DEF Fields
    <3>3. /\ ActsOK' /\ \A b \in Actors \ {a} : acts'[b] = acts[b]
          /\ acts'[a].pc = "seed" /\ acts'[a].does = "create"
          /\ acts'[a].from = acts[a].from /\ acts'[a].user = acts[a].user
          /\ acts'[a].held = row /\ acts'[a].seen = acts[a].seen
      BY <1>1, <1>2, <3>1, <3>2, StepWrites
    <3>4. row \in RowType /\ row.id = u /\ row # Null
      <4>1. ref # Null => ref \in RowType
        BY <3>1, StoredRow
      <4>2. (IF ref = Null THEN Null ELSE ref.id) \in Ids \cup {Null}
        BY <4>1, RowColumns
      <4>3. row \in RowType /\ row.id = u
        BY <1>2, <3>1, <4>2 DEF RowType, Names
      <4> QED BY <4>3, RowColumns
    <3>5. past \subseteq past' /\ Known \subseteq Known' /\ u \in Known'
      <4>1. <<u, "id", row["id"]>> \in Values(row)
        BY <3>1 DEF Values
      <4>2. <<u, "id", row["id"]>> \in past'
        BY <3>1, <4>1
      <4>3. <<u, "id", row["id"]>>[1] \in Known'
        BY <4>2 DEF Known
      <4> QED BY <3>1, <4>3, StayKnown
    <3>6. Says(acts'[a], rows', Known')
      BY <1>2, <3>3, <3>4, <3>5 DEF Says, Finders
    <3>7. rows[u] = Null /\ DOMAIN rows = Ids /\ \A v \in Ids : v # u => rows'[v] = rows[v]
      BY <3>1 DEF WriteInv, DataOK, Living
    <3>8. \A k \in Keys : cache[k] # Null => cache[k].id # u /\ cache[k].id \in Ids
      BY <3>1, RowColumns DEF WriteInv, CopiesOK
    <3>9. \A k \in Keys : Stale(k)' => Stale(k)
      <4> SUFFICES ASSUME NEW k \in Keys, Stale(k)' PROVE Stale(k)
        OBVIOUS
      <4>1. cache[k] # Null /\ cache[k].id # u /\ cache[k].id \in Ids
        BY <2>1, <3>8 DEF Stale
      <4>2. rows'[cache[k].id] = rows[cache[k].id]
        BY <3>7, <4>1
      <4> QED BY <2>1, <4>1, <4>2 DEF Stale
    <3>10. \A v \in Ids : KeyHeld(a, v) /\ rows[v] # Null =>
                            rows'[v] # Null /\ rows'[v].phone = rows[v].phone
      BY <3>7
    <3>11. DataOK'
      <4>1. DOMAIN rows' = Ids /\ rows'[u] = row
        BY <3>1, <3>7
      <4>2. ASSUME NEW v \in Ids, rows'[v] # Null
            PROVE  rows'[v] \in RowType /\ rows'[v].id = v /\ v \in Known'
        <5>1. CASE v = u
          BY <3>4, <3>5, <4>1, <5>1
        <5>2. CASE v # u
          BY <3>5, <3>7, <4>2, <5>2 DEF WriteInv, DataOK, Living
        <5> QED BY <5>1, <5>2
      <4> QED BY <4>1, <4>2 DEF DataOK, Living
    <3> QED BY <1>1, <2>1, <3>3, <3>5, <3>6, <3>9, <3>10, <3>11, RowsStep
  <2> QED BY <2>2, <2>3
<1>4. CASE Seed(a)
  <2>1. PICK f : f = [pc |-> IF rows[acts[a].held.id] = Null THEN "done" ELSE "publish"]
                 /\ Step(a, f)
    BY <1>4 DEF Seed
  <2>2. DOMAIN f = {"pc"} /\ f.pc \in {"done", "publish"} /\ DOMAIN f \subseteq Fields
    BY <2>1 DEF Fields
  <2>3. /\ ActsOK' /\ \A b \in Actors \ {a} : acts'[b] = acts[b]
        /\ f.pc = "done" => acts'[a] = Done
        /\ f.pc = "publish" =>
             /\ acts'[a].pc = "publish" /\ acts'[a].does = "create"
             /\ acts'[a].from = acts[a].from /\ acts'[a].user = acts[a].user
             /\ acts'[a].held = acts[a].held /\ acts'[a].seen = acts[a].seen
    BY <1>1, <1>2, <2>1, <2>2, StepWrites
  <2>4. Says(acts'[a], rows, Known)
    <3>1. CASE f.pc = "done"
      BY <2>3, <3>1, DoneIsFree
    <3>2. CASE f.pc = "publish"
      <4>1. acts[a].held # Null
        BY <1>2, <1>4 DEF Says, Seed, At, Holding
      <4> QED BY <1>2, <2>3, <3>2, <4>1 DEF Says, Finders
    <3> QED BY <2>2, <3>1, <3>2
  <2>5. UNCHANGED <<rows, cache, past>> /\ doubt \subseteq doubt' /\ left \subseteq left'
    BY <1>4 DEF Seed, history
  <2> QED BY <1>1, <2>3, <2>4, <2>5, PlainStep
<1>5. CASE Populate(a)
  <2>1. acts[a].held \in RowType /\ acts[a].held.id \in Known
    BY <1>2, <1>5 DEF Populate, At, Says, Holding
  <2>2. Publish(acts[a].held) /\ Rest(a) /\ UNCHANGED <<rows, past>>
    BY <1>5 DEF Populate
  <2>3. PICK row \in RowType : Publish(row) /\ row.id \in Known
    BY <2>1, <2>2
  <2> QED BY <1>1, <1>2, <2>2, <2>3, RestSays, PublishStep
<1> QED BY <1>3, <1>4, <1>5

\* update and the turn's transaction load the row and select it again.
LEMMA LoadWrites ==
  ASSUME WriteInv, NEW a \in Actors, Load(a) \/ Select(a)
  PROVE  WriteInv'
<1>1. /\ ActsOK /\ Says(acts[a], rows, Known)
      /\ UNCHANGED <<rows, cache, past>> /\ doubt \subseteq doubt' /\ left \subseteq left'
      /\ \A k, u : ~Covers(acts[a], k, u)
      /\ acts[a].does \in {"update", "consent"} /\ acts[a].pc \in {"load", "select"}
  BY DEF WriteInv, Load, Select, At, Covers, history
<1>2. acts[a].seen = Null
  BY <1>1 DEF Says
<1>3. CASE Load(a)
  <2>1. PICK row : row = Stored(acts[a].key)
    OBVIOUS
  <2>2. CASE row = Null
    <3>1. Rest(a)
      BY <1>3, <2>1, <2>2 DEF Load, Rest
    <3> QED BY <1>1, <3>1, RestSays, PlainStep
  <2>3. CASE row # Null
    <3>1. PICK f : f = [pc |-> "select", held |-> row] /\ Step(a, f)
      BY <1>3, <2>1, <2>3 DEF Load
    <3>2. DOMAIN f = {"pc", "held"} /\ f.pc = "select" /\ f.held = row
          /\ DOMAIN f \subseteq Fields
      BY <3>1 DEF Fields
    <3>3. /\ ActsOK' /\ \A b \in Actors \ {a} : acts'[b] = acts[b]
          /\ acts'[a].pc = "select" /\ acts'[a].held = row /\ acts'[a].does = acts[a].does
          /\ acts'[a].key = acts[a].key /\ acts'[a].change = acts[a].change
          /\ acts'[a].user = acts[a].user /\ acts'[a].seen = acts[a].seen
      BY <1>1, <3>1, <3>2, StepWrites
    <3>4. /\ row \in RowType /\ row.id \in Known /\ rows[row.id] = row
          /\ acts[a].key \in Phones => row.phone = acts[a].key
          /\ acts[a].key \in Ids => row.id = acts[a].key
      BY <2>1, <2>3, StoredRow
    <3>5. Says(acts'[a], rows, Known)
      BY <1>1, <1>2, <2>3, <3>3, <3>4 DEF Says, Finders, InTransaction
    <3> QED BY <1>1, <3>3, <3>5, PlainStep
  <2> QED BY <2>2, <2>3
<1>4. CASE Select(a)
  <2>1. acts[a].pc = "select" /\ acts[a].held # Null
    BY <1>1, <1>4 DEF Select, At, Says, Holding
  <2>2. PICK u, row : u = acts[a].held.id /\ row = rows[u]
    OBVIOUS
  <2>3. PICK f : f = [pc |-> "save", seen |-> row] /\ Step(a, f)
    BY <1>4, <2>2 DEF Select
  <2>4. DOMAIN f = {"pc", "seen"} /\ f.pc = "save" /\ f.seen = row /\ DOMAIN f \subseteq Fields
    BY <2>3 DEF Fields
  <2>5. /\ ActsOK' /\ \A b \in Actors \ {a} : acts'[b] = acts[b]
        /\ acts'[a].pc = "save" /\ acts'[a].held = acts[a].held /\ acts'[a].does = acts[a].does
        /\ acts'[a].key = acts[a].key /\ acts'[a].change = acts[a].change
        /\ acts'[a].user = acts[a].user /\ acts'[a].seen = row
    BY <1>1, <2>3, <2>4, StepWrites
  <2>6. u \in Ids
    BY <1>1, <2>1, <2>2, RowColumns DEF Says
  <2>7. row # Null => row \in RowType /\ row.id = u
    BY <2>2, <2>6 DEF WriteInv, DataOK, Living
  <2>8. Says(acts'[a], rows, Known)
    BY <1>1, <2>1, <2>2, <2>5, <2>7 DEF Says, Finders, InTransaction
  <2> QED BY <1>1, <2>5, <2>8, PlainStep
<1> QED BY <1>3, <1>4

\* What a row's writing changes: nothing of the other rows.
LEMMA OneRow ==
  ASSUME WriteInv, NEW a \in Actors, NEW u \in Ids, NEW row, u \in Known,
         row # Null => row \in RowType /\ row.id = u,
         rows' = [rows EXCEPT ![u] = row], past \subseteq past',
         KeyHeld(a, u) /\ rows[u] # Null => row # Null /\ row.phone = rows[u].phone,
         UNCHANGED cache
  PROVE  /\ DataOK' /\ Known \subseteq Known'
         /\ \A v \in Ids : KeyHeld(a, v) /\ rows[v] # Null =>
                             rows'[v] # Null /\ rows'[v].phone = rows[v].phone
         /\ \A k \in Keys : Stale(k)' /\ ~Stale(k) =>
              /\ cache[k] # Null /\ cache[k].id = u /\ rows[u] # Null
              /\ k \in {u, rows[u].phone}
<1>1. Known \subseteq Known' /\ u \in Known'
  BY StayKnown
<1>2. DOMAIN rows = Ids /\ rows'[u] = row /\ \A v \in Ids : v # u => rows'[v] = rows[v]
  BY DEF WriteInv, DataOK
<1>3. DataOK'
  <2>1. ASSUME NEW v \in Ids, rows'[v] # Null
        PROVE  rows'[v] \in RowType /\ rows'[v].id = v /\ v \in Known'
    <3>1. CASE v = u
      BY <1>1, <1>2, <2>1, <3>1
    <3>2. CASE v # u
      BY <1>1, <1>2, <2>1, <3>2 DEF WriteInv, DataOK, Living
    <3> QED BY <3>1, <3>2
  <2> QED BY <1>2, <2>1 DEF DataOK, Living
<1>4. ASSUME NEW k \in Keys, Stale(k)', ~Stale(k)
      PROVE  /\ cache[k] # Null /\ cache[k].id = u /\ rows[u] # Null
             /\ k \in {u, rows[u].phone}
  <2>1. cache[k] # Null
    BY <1>4 DEF Stale
  <2>2. /\ cache[k].id \in Ids /\ rows[cache[k].id] # Null
        /\ k \in {cache[k].id, rows[cache[k].id].phone}
    BY <1>4, <2>1, FreshCopy
  <2>3. cache[k].id = u
    <3>1. ASSUME cache[k].id # u PROVE FALSE
      <4>1. rows'[cache[k].id] = rows[cache[k].id]
        BY <1>2, <2>2, <3>1
      <4> QED BY <1>4, <4>1 DEF Stale
    <3> QED BY <3>1
  <2> QED BY <2>1, <2>2, <2>3
<1> QED BY <1>1, <1>2, <1>3, <1>4

\* update: a copy that was true of the row it loaded is kept under a key that
\* it evicts, or under the number a PATCH by id took away.
LEMMA SaveWrites ==
  ASSUME WriteInv, NEW a \in Actors, Save(a)
  PROVE  WriteInv'
<1>1. /\ ActsOK /\ Says(acts[a], rows, Known)
      /\ UNCHANGED cache /\ \A k, v : ~Covers(acts[a], k, v)
      /\ acts[a].does = "update" /\ acts[a].pc = "save"
  BY DEF WriteInv, Save, At, Covers
<1>2. /\ acts[a].held # Null /\ Change(acts[a].change) /\ acts[a].key \in Keys
      /\ acts[a].key \in Phones => acts[a].held.phone = acts[a].key
  BY <1>1 DEF Says, Holding
<1>3. PICK e, u, row : e = Assigned(a) /\ u = acts[a].held.id /\ row = Saved(a, u)
  OBVIOUS
<1>4. /\ acts[a].held \in RowType /\ u \in Ids /\ u \in Known
      /\ e \in RowType /\ e.id = u
      /\ rows[u] # Null => row # Null
      /\ row # Null => row \in RowType /\ row.id = u
  BY <1>2, <1>3, SavedRow
<1>5. CASE row # Null /\ ~Legal(a, row)
  <2>1. Rest(a) /\ UNCHANGED <<rows, history>>
    BY <1>3, <1>5 DEF Save
  <2>2. UNCHANGED <<rows, past>> /\ doubt \subseteq doubt' /\ left \subseteq left'
    BY <2>1 DEF history
  <2> QED BY <1>1, <2>1, <2>2, RestSays, PlainStep
<1>6. CASE ~(row # Null /\ ~Legal(a, row))
  <2>1. /\ rows' = [rows EXCEPT ![u] = row]
        /\ past' = past \cup (IF row = Null THEN {} ELSE Values(row))
        /\ doubt' = IF Overtaken(a) THEN doubt \cup CopiesOf(u) ELSE doubt
        /\ left' = IF "phone" \in DOMAIN acts[a].change /\ acts[a].key \in Ids
                   THEN left \cup (CopiesOf(u) \cap {acts[a].held.phone}) ELSE left
        /\ Step(a, [pc |-> "evict", held |-> e, seen |-> Null])
        /\ rows[u] # Null /\ row # Null /\ rows[u].phone # row.phone => ~KeyHeld(a, u)
    BY <1>3, <1>6 DEF Save
  <2>2. PICK f : f = [pc |-> "evict", held |-> e, seen |-> Null] /\ Step(a, f)
    BY <2>1
  <2>3. DOMAIN f = {"pc", "held", "seen"} /\ f.pc = "evict" /\ f.held = e /\ f.seen = Null
        /\ DOMAIN f \subseteq Fields
    BY <2>2 DEF Fields
  <2>4. /\ ActsOK' /\ \A b \in Actors \ {a} : acts'[b] = acts[b]
        /\ acts'[a].pc = "evict" /\ acts'[a].held = e /\ acts'[a].does = "update"
        /\ acts'[a].key = acts[a].key /\ acts'[a].change = acts[a].change
        /\ acts'[a].user = acts[a].user /\ acts'[a].seen = Null
    BY <1>1, <2>2, <2>3, StepWrites
  <2>5. past \subseteq past' /\ doubt \subseteq doubt' /\ left \subseteq left'
    BY <2>1
  <2>6. /\ DataOK' /\ Known \subseteq Known'
        /\ \A v \in Ids : KeyHeld(a, v) /\ rows[v] # Null =>
                            rows'[v] # Null /\ rows'[v].phone = rows[v].phone
        /\ \A k \in Keys : Stale(k)' /\ ~Stale(k) =>
             /\ cache[k] # Null /\ cache[k].id = u /\ rows[u] # Null
             /\ k \in {u, rows[u].phone}
    BY <1>1, <1>4, <2>1, <2>5, OneRow
  <2>7. e # Null
    BY <1>4, RowColumns
  <2>8. Says(acts'[a], rows', Known')
    BY <1>1, <1>2, <1>4, <2>4, <2>6, <2>7 DEF Says, Finders, Holding
  <2>9. ASSUME NEW k \in Keys, Stale(k)', k \notin Excused', ~Stale(k)
        PROVE  Covers(acts'[a], k, cache[k].id)
    <3>1. /\ cache[k] # Null /\ cache[k].id = u /\ k \in CopiesOf(u)
          /\ k \in {u, rows[u].phone} /\ k \notin doubt' /\ k \notin left'
      BY <2>6, <2>9 DEF CopiesOf, Excused
    <3>2. rows[u] = acts[a].held
      BY <1>3, <2>1, <3>1 DEF Overtaken
    <3>3. \/ k \in {e.id, e.phone}
          \/ "phone" \in DOMAIN acts[a].change /\ acts[a].key \in Phones /\ k = acts[a].key
      <4>1. CASE "phone" \notin DOMAIN acts[a].change
        BY <1>2, <1>3, <1>4, <3>1, <3>2, <4>1, AssignedRow
      <4>2. CASE "phone" \in DOMAIN acts[a].change /\ acts[a].key \in Phones
        BY <1>2, <1>4, <3>1, <3>2, <4>2
      <4>3. CASE "phone" \in DOMAIN acts[a].change /\ acts[a].key \notin Phones
        <5>1. acts[a].key \in Ids
          BY <1>2, <4>3 DEF Keys
        <5>2. k # acts[a].held.phone
          BY <2>1, <3>1, <4>3, <5>1
        <5> QED BY <1>4, <3>1, <3>2, <5>2
      <4> QED BY <4>1, <4>2, <4>3
    <3> QED BY <1>4, <2>4, <2>7, <3>1, <3>3 DEF Covers
  <2> QED BY <1>1, <2>4, <2>5, <2>6, <2>8, <2>9, RowsStep
<1> QED BY <1>5, <1>6

\* What update() evicts is what it covered, and what it publishes is a row.
LEMMA UpdateWrites ==
  ASSUME WriteInv, NEW a \in Actors, EvictUpdated(a) \/ PublishUpdated(a)
  PROVE  WriteInv'
<1>1. /\ ActsOK /\ Says(acts[a], rows, Known) /\ acts[a].does = "update"
      /\ acts[a].pc \in {"evict", "publish"}
  BY DEF WriteInv, EvictUpdated, PublishUpdated, At
<1>2. acts[a].held \in RowType /\ acts[a].held.id \in Known /\ acts[a].held # Null
      /\ acts[a].seen = Null
  BY <1>1 DEF Says, Holding
<1>3. CASE EvictUpdated(a)
  <2>1. /\ UNCHANGED <<rows, past>> /\ Evict(Evicted(a), {}) /\ acts[a].pc = "evict"
    BY <1>3 DEF EvictUpdated, At
  <2>2. PICK f : f = [pc |-> "publish"] /\ Step(a, f)
    BY <1>3 DEF EvictUpdated
  <2>3. DOMAIN f = {"pc"} /\ f.pc = "publish" /\ DOMAIN f \subseteq Fields
    BY <2>2 DEF Fields
  <2>4. /\ ActsOK' /\ \A b \in Actors \ {a} : acts'[b] = acts[b]
        /\ acts'[a].pc = "publish" /\ acts'[a].does = "update"
        /\ acts'[a].key = acts[a].key /\ acts'[a].change = acts[a].change
        /\ acts'[a].held = acts[a].held /\ acts'[a].user = acts[a].user
        /\ acts'[a].seen = acts[a].seen
    BY <1>1, <2>2, <2>3, StepWrites
  <2>5. Says(acts'[a], rows, Known)
    BY <1>1, <1>2, <2>4 DEF Says, Finders
  <2>6. \A k \in Keys : cache[k] # Null /\ Covers(acts[a], k, cache[k].id) =>
                          k \in Evicted(a) \cup {}
    BY <1>1 DEF Covers, Evicted
  <2> QED BY <2>1, <2>4, <2>5, <2>6, EvictStep
<1>4. CASE PublishUpdated(a)
  <2>1. \A k, u : ~Covers(acts[a], k, u)
    BY <1>4 DEF PublishUpdated, At, Covers
  <2>2. Publish(acts[a].held) /\ Rest(a) /\ UNCHANGED <<rows, past>>
    BY <1>4 DEF PublishUpdated
  <2>3. PICK row \in RowType : Publish(row) /\ row.id \in Known
    BY <1>2, <2>2
  <2> QED BY <1>1, <2>1, <2>2, <2>3, RestSays, PublishStep
<1> QED BY <1>3, <1>4

\* The turn's transaction keeps the account's number from changing, so what it
\* commits makes stale only copies under the account's id and number.
LEMMA ConsentWrites ==
  ASSUME WriteInv, NEW a \in Actors,
         \/ Turn(a) \/ SaveUncommitted(a) \/ EvictUncommitted(a)
         \/ Commit(a) \/ Invalidate(a)
  PROVE  WriteInv'
<1>1. ActsOK /\ Says(acts[a], rows, Known)
  BY DEF WriteInv
<1>2. CASE Turn(a)
  <2>1. /\ UNCHANGED <<rows, cache, past>> /\ doubt \subseteq doubt' /\ left \subseteq left'
        /\ \A k, u : ~Covers(acts[a], k, u) /\ acts[a].user # Null
        /\ acts[a].user \in RowType /\ acts[a].user.id \in Known /\ acts[a].seen = Null
    BY <1>1, <1>2 DEF Turn, At, Covers, Says, history
  <2>2. CASE Rest(a)
    BY <1>1, <2>1, <2>2, RestSays, PlainStep
  <2>3. CASE ~Rest(a)
    <3>1. PICK f : /\ f = [does |-> "consent", pc |-> "load",
                           key |-> acts[a].user.id, change |-> Consent]
                   /\ Step(a, f) /\ acts[a].user.id \in Living
      BY <1>2, <2>3 DEF Turn, Rest
    <3>2. DOMAIN f = {"does", "pc", "key", "change"} /\ f.pc = "load" /\ f.does = "consent"
          /\ f.key = acts[a].user.id /\ f.change = Consent /\ DOMAIN f \subseteq Fields
      BY <3>1 DEF Fields
    <3>3. /\ ActsOK' /\ \A b \in Actors \ {a} : acts'[b] = acts[b]
          /\ acts'[a].pc = "load" /\ acts'[a].does = "consent"
          /\ acts'[a].key = acts[a].user.id /\ acts'[a].user = acts[a].user
          /\ acts'[a].change = Consent
          /\ acts'[a].held = acts[a].held /\ acts'[a].seen = acts[a].seen
      BY <1>1, <3>1, <3>2, StepWrites
    <3>4. acts[a].user.id \in Ids /\ rows[acts[a].user.id] # Null
      BY <3>1 DEF Living
    <3>5. Says(acts'[a], rows, Known)
      BY <1>1, <2>1, <3>3, <3>4 DEF Says, Finders, InTransaction, Holding
    <3> QED BY <2>1, <3>3, <3>5, PlainStep
  <2> QED BY <2>2, <2>3
<1>3. CASE SaveUncommitted(a)
  <2>1. /\ UNCHANGED <<rows, cache, past>> /\ doubt \subseteq doubt' /\ left \subseteq left'
        /\ \A k, u : ~Covers(acts[a], k, u)
        /\ acts[a].does = "consent" /\ acts[a].pc = "save"
    BY <1>3 DEF SaveUncommitted, At, Covers
  <2>2. CASE Rest(a)
    BY <1>1, <2>1, <2>2, RestSays, PlainStep
  <2>3. CASE ~Rest(a)
    <3>1. PICK row : row = Assigned(a)
      OBVIOUS
    <3>2. PICK f : f = [pc |-> "evict", held |-> row] /\ Step(a, f)
      BY <1>3, <2>3, <3>1 DEF SaveUncommitted
    <3>3. DOMAIN f = {"pc", "held"} /\ f.pc = "evict" /\ f.held = row
          /\ DOMAIN f \subseteq Fields
      BY <3>2 DEF Fields
    <3>4. /\ ActsOK' /\ \A b \in Actors \ {a} : acts'[b] = acts[b]
          /\ acts'[a].pc = "evict" /\ acts'[a].does = "consent" /\ acts'[a].held = row
          /\ acts'[a].key = acts[a].key /\ acts'[a].user = acts[a].user
          /\ acts'[a].change = acts[a].change /\ acts'[a].seen = acts[a].seen
      BY <1>1, <2>1, <3>2, <3>3, StepWrites
    <3>5. /\ acts[a].held \in RowType /\ acts[a].change = Consent /\ Change(acts[a].change)
          /\ acts[a].held.id \in Known /\ "phone" \notin DOMAIN Consent
      BY <1>1, <2>1 DEF Says, Holding, Change, Consent
    <3>6. /\ row \in RowType /\ row.id = acts[a].held.id
          /\ row.phone = acts[a].held.phone
      BY <3>1, <3>5, AssignedRow
    <3>7. row # Null
      BY <3>6, RowColumns
    <3>8. Says(acts'[a], rows, Known)
      BY <1>1, <2>1, <3>4, <3>5, <3>6, <3>7 DEF Says, Finders, InTransaction
    <3> QED BY <2>1, <3>4, <3>8, PlainStep
  <2> QED BY <2>2, <2>3
<1>4. CASE EvictUncommitted(a)
  <2>1. /\ UNCHANGED <<rows, past>> /\ Evict(Evicted(a), {})
        /\ \A k, u : ~Covers(acts[a], k, u)
        /\ acts[a].does = "consent" /\ acts[a].pc = "evict"
    BY <1>4 DEF EvictUncommitted, At, Covers
  <2>2. PICK f : f = [pc |-> "commit"] /\ Step(a, f)
    BY <1>4 DEF EvictUncommitted
  <2>3. DOMAIN f = {"pc"} /\ f.pc = "commit" /\ DOMAIN f \subseteq Fields
    BY <2>2 DEF Fields
  <2>4. /\ ActsOK' /\ \A b \in Actors \ {a} : acts'[b] = acts[b]
        /\ acts'[a].pc = "commit" /\ acts'[a].does = "consent"
        /\ acts'[a].key = acts[a].key /\ acts'[a].user = acts[a].user
        /\ acts'[a].change = acts[a].change /\ acts'[a].held = acts[a].held
        /\ acts'[a].seen = acts[a].seen
    BY <1>1, <2>1, <2>2, <2>3, StepWrites
  <2>5. Says(acts'[a], rows, Known)
    BY <1>1, <2>1, <2>4 DEF Says, Finders, InTransaction, Holding
  <2> QED BY <2>1, <2>4, <2>5, EvictStep
<1>5. CASE Commit(a)
  <2>1. /\ UNCHANGED cache /\ doubt \subseteq doubt' /\ left \subseteq left'
        /\ \A k, v : ~Covers(acts[a], k, v)
        /\ acts[a].does = "consent" /\ acts[a].pc = "commit"
    BY <1>5 DEF Commit, At, Covers
  <2>2. CASE Rest(a) /\ UNCHANGED <<rows, past>>
    BY <1>1, <2>1, <2>2, RestSays, PlainStep
  <2>3. CASE ~(Rest(a) /\ UNCHANGED <<rows, past>>)
    <3>1. PICK u, row : u = acts[a].held.id /\ row = Saved(a, u)
      OBVIOUS
    <3>2. /\ acts[a].held # Null /\ acts[a].held.id \in Known /\ Change(acts[a].change)
          /\ acts[a].change = Consent /\ u = acts[a].key /\ acts[a].user.id = u
          /\ rows[u] # Null /\ acts[a].seen # Null
          /\ acts[a].held.phone = rows[u].phone /\ acts[a].seen.phone = rows[u].phone
      BY <1>1, <2>1, <3>1 DEF Says, Holding, InTransaction, Change
    <3>3. Assigned(a).phone = acts[a].held.phone
      <4>1. "phone" \notin DOMAIN acts[a].change /\ acts[a].held \in RowType
        BY <1>1, <3>2 DEF Consent, Says
      <4> QED BY <3>2, <4>1, AssignedRow
    <3>4. /\ row # Null /\ row \in RowType /\ row.id = u /\ row.phone = rows[u].phone
          /\ u \in Ids /\ u \in Known
      <4>1. /\ u \in Ids /\ u \in Known
            /\ Saved(a, u) = Null <=> (acts[a].seen # Null /\ rows[u] = Null)
            /\ Saved(a, u) # Null => Saved(a, u) \in RowType /\ Saved(a, u).id = u
            /\ acts[a].seen # Null /\ Assigned(a).phone = acts[a].seen.phone /\ rows[u] # Null =>
                 Saved(a, u).phone = rows[u].phone
        <5>1. u = acts[a].held.id /\ acts[a].held # Null /\ Change(acts[a].change)
          BY <3>1, <3>2
        <5> QED BY <5>1, SavedRow
      <4>2. Saved(a, u) # Null /\ Saved(a, u).phone = rows[u].phone
        BY <3>2, <3>3, <4>1
      <4> QED BY <3>1, <4>1, <4>2
    <3>5. /\ rows' = [rows EXCEPT ![u] = row] /\ past' = past \cup Values(row)
          /\ Step(a, [pc |-> "after", seen |-> Null])
      BY <1>5, <2>3, <3>1, <3>4 DEF Commit
    <3>6. PICK f : f = [pc |-> "after", seen |-> Null] /\ Step(a, f)
      BY <3>5
    <3>7. DOMAIN f = {"pc", "seen"} /\ f.pc = "after" /\ f.seen = Null /\ DOMAIN f \subseteq Fields
      BY <3>6 DEF Fields
    <3>8. /\ ActsOK' /\ \A b \in Actors \ {a} : acts'[b] = acts[b]
          /\ acts'[a].pc = "after" /\ acts'[a].does = "consent"
          /\ acts'[a].key = acts[a].key /\ acts'[a].user = acts[a].user
          /\ acts'[a].change = acts[a].change /\ acts'[a].held = acts[a].held
          /\ acts'[a].seen = Null
      BY <1>1, <2>1, <3>6, <3>7, StepWrites
    <3>9. past \subseteq past'
      BY <3>5
    <3>10. /\ DataOK' /\ Known \subseteq Known'
           /\ \A v \in Ids : KeyHeld(a, v) /\ rows[v] # Null =>
                               rows'[v] # Null /\ rows'[v].phone = rows[v].phone
           /\ \A k \in Keys : Stale(k)' /\ ~Stale(k) =>
                /\ cache[k] # Null /\ cache[k].id = u /\ rows[u] # Null
                /\ k \in {u, rows[u].phone}
      BY <2>1, <3>4, <3>5, <3>9, OneRow
    <3>11. Says(acts'[a], rows', Known')
      BY <1>1, <2>1, <3>2, <3>8, <3>10 DEF Says, Finders
    <3>12. ASSUME NEW k \in Keys, Stale(k)', k \notin Excused', ~Stale(k)
           PROVE  Covers(acts'[a], k, cache[k].id)
      <4>1. cache[k].id = u /\ k \in {u, rows[u].phone}
        BY <3>10, <3>12
      <4> QED BY <3>1, <3>2, <3>8, <4>1 DEF Covers
    <3> QED BY <2>1, <3>8, <3>9, <3>10, <3>11, <3>12, RowsStep
  <2> QED BY <2>2, <2>3
<1>6. CASE Invalidate(a)
  <2>1. PICK keys, missed :
          /\ keys = {acts[a].user.id, acts[a].user.phone}
          /\ missed = IF acts[a].user.phone # acts[a].held.phone
                      THEN CopiesOf(acts[a].user.id) ELSE {}
          /\ Evict(keys, missed) /\ Rest(a) /\ UNCHANGED <<rows, past>>
          /\ acts[a].does = "consent" /\ acts[a].pc = "after"
    BY <1>6 DEF Invalidate, At
  <2>2. acts[a].held.id = acts[a].user.id
    BY <1>1, <2>1 DEF Says
  <2>3. \A k \in Keys : cache[k] # Null /\ Covers(acts[a], k, cache[k].id) =>
                          k \in keys \cup missed
    BY <2>1, <2>2 DEF Covers, CopiesOf
  <2> QED BY <1>1, <2>1, <2>3, RestSays, EvictStep
<1> QED BY <1>2, <1>3, <1>4, <1>5, <1>6

\* delete: what it removes makes stale only copies it evicts again, and the
\* accounts it forgets as referred keep all that a turn reads.
LEMMA DeleteWrites ==
  ASSUME WriteInv, NEW a \in Actors,
         EvictFirst(a) \/ RemoveRow(a) \/ EvictAgain(a)
  PROVE  WriteInv'
<1>1. /\ ActsOK /\ Says(acts[a], rows, Known) /\ acts[a].does = "delete"
      /\ acts[a].held \in RowType /\ acts[a].held.id = acts[a].key /\ acts[a].held # Null
      /\ acts[a].held.id \in Known /\ acts[a].seen = Null
  BY DEF WriteInv, EvictFirst, RemoveRow, EvictAgain, At, Says
<1>2. ASSUME NEW pc, NEW f, f = [pc |-> pc], pc \notin {"done", "evict"}, Step(a, f)
      PROVE  /\ ActsOK' /\ \A b \in Actors \ {a} : acts'[b] = acts[b]
             /\ acts'[a].pc = pc /\ acts'[a].does = "delete" /\ acts'[a].held = acts[a].held
             /\ \A r, known : Known \subseteq known => Says(acts'[a], r, known)
  <2>1. DOMAIN f = {"pc"} /\ f.pc = pc /\ DOMAIN f \subseteq Fields
    BY <1>2 DEF Fields
  <2>2. /\ ActsOK' /\ \A b \in Actors \ {a} : acts'[b] = acts[b]
        /\ acts'[a].pc = pc /\ acts'[a].does = "delete" /\ acts'[a].held = acts[a].held
        /\ acts'[a].key = acts[a].key /\ acts'[a].user = acts[a].user
        /\ acts'[a].seen = acts[a].seen
    BY <1>1, <1>2, <2>1, StepWrites
  <2>3. acts[a].user # Null => acts[a].user \in RowType /\ acts[a].user.id \in Known
    BY <1>1 DEF Says
  <2>4. ASSUME NEW r, NEW known, Known \subseteq known PROVE Says(acts'[a], r, known)
    BY <1>1, <1>2, <2>2, <2>3, <2>4 DEF Says, Finders
  <2> QED BY <2>2, <2>4
<1>3. CASE EvictFirst(a)
  <2>1. /\ UNCHANGED <<rows, past>> /\ Evict(ResolvedKeys(a), {})
        /\ \A k, u : ~Covers(acts[a], k, u)
        /\ Step(a, [pc |-> "remove"])
    BY <1>3 DEF EvictFirst, At, Covers
  <2>2. /\ ActsOK' /\ \A b \in Actors \ {a} : acts'[b] = acts[b]
        /\ Says(acts'[a], rows, Known)
    BY <1>2, <2>1
  <2> QED BY <2>1, <2>2, EvictStep
<1>4. CASE RemoveRow(a)
  <2>1. PICK u : u = acts[a].key
    OBVIOUS
  <2> DEFINE by(v) == IF rows[v].by = u THEN Null ELSE rows[v].by
             forget == [v \in Ids |-> IF v = u \/ rows[v] = Null THEN Null
                                      ELSE [rows[v] EXCEPT !.by = by(v)]]
  <2>2. /\ rows' = forget /\ ~KeyHeld(a, u) /\ past \subseteq past'
        /\ doubt' = IF Overtaken(a) THEN doubt \cup CopiesOf(u) ELSE doubt
        /\ Step(a, [pc |-> "sweep"]) /\ UNCHANGED cache /\ left \subseteq left'
        /\ \A k, v : ~Covers(acts[a], k, v)
    BY <1>4, <2>1 DEF RemoveRow, At, Covers
  <2>3. /\ ActsOK' /\ \A b \in Actors \ {a} : acts'[b] = acts[b]
        /\ Says(acts'[a], rows', Known') /\ doubt \subseteq doubt' /\ Known \subseteq Known'
        /\ acts'[a].pc = "sweep" /\ acts'[a].does = "delete" /\ acts'[a].held = acts[a].held
    <3>1. Known \subseteq Known'
      BY <2>2, StayKnown
    <3> QED BY <1>2, <2>2, <3>1
  <2>4. ASSUME NEW v \in Ids, rows[v] # Null, v # u
        PROVE  /\ rows'[v] \in RowType /\ v \in Known
               /\ rows'[v].id = v /\ rows'[v].phone = rows[v].phone
               /\ [rows'[v] EXCEPT !.by = Null] = [rows[v] EXCEPT !.by = Null]
    <3>1. PICK r \in RowType : r = rows[v] /\ r.id = v /\ v \in Known
      BY <2>4 DEF WriteInv, DataOK, Living
    <3>2. PICK b \in Ids \cup {Null} : b = by(v)
      BY <3>1 DEF RowType
    <3>3. rows'[v] = [r EXCEPT !.by = b]
      BY <2>2, <2>4, <3>1, <3>2
    <3>4. [r EXCEPT !.by = b] \in RowType /\ [r EXCEPT !.by = b].id = r.id
          /\ [r EXCEPT !.by = b].phone = r.phone
      BY DEF RowType
    <3>5. [[r EXCEPT !.by = b] EXCEPT !.by = Null] = [r EXCEPT !.by = Null]
      BY DEF RowType
    <3> QED BY <3>1, <3>3, <3>4, <3>5
  <2>5. /\ \A v \in Ids : v = u \/ rows[v] = Null => rows'[v] = Null
        /\ DOMAIN rows' = Ids
    BY <2>2
  <2> HIDE DEF forget
  <2>6. \A v \in Ids : v # u /\ rows[v] # Null => rows'[v] # Null
    BY <2>4, RowColumns
  <2>7. \A v \in Ids : KeyHeld(a, v) /\ rows[v] # Null =>
                            rows'[v] # Null /\ rows'[v].phone = rows[v].phone
    BY <2>2, <2>4, <2>6
  <2>8. DataOK'
    BY <2>3, <2>4, <2>5 DEF DataOK, Living
  <2>9. ASSUME NEW k \in Keys, Stale(k)', k \notin Excused', ~Stale(k)
        PROVE  Covers(acts'[a], k, cache[k].id)
    <3>1. cache[k] # Null
      BY <2>2, <2>9 DEF Stale
    <3>2. /\ cache[k].id \in Ids /\ rows[cache[k].id] # Null
          /\ k \in {cache[k].id, rows[cache[k].id].phone}
      BY <2>9, <3>1, FreshCopy
    <3>3. cache[k].id = u
      <4>1. ASSUME cache[k].id # u PROVE FALSE
        <5>1. PICK v \in Ids : v = cache[k].id
          BY <3>2
        <5>2. /\ rows'[v] # Null
              /\ [rows'[v] EXCEPT !.by = Null] = [rows[v] EXCEPT !.by = Null]
          BY <2>4, <2>6, <3>2, <4>1, <5>1
        <5> QED BY <2>2, <2>9, <3>1, <5>1, <5>2 DEF Stale
      <4> QED BY <4>1
    <3>4. rows[u] = acts[a].held
      BY <1>1, <2>1, <2>2, <2>9, <3>1, <3>3 DEF Overtaken, CopiesOf, Excused
    <3> QED BY <1>1, <2>1, <2>3, <3>2, <3>3, <3>4 DEF Covers
  <2> QED BY <2>2, <2>3, <2>7, <2>8, <2>9, RowsStep
<1>5. CASE EvictAgain(a)
  <2>1. /\ UNCHANGED <<rows, past>> /\ Evict(ResolvedKeys(a), {}) /\ Rest(a)
    BY <1>5 DEF EvictAgain
  <2>2. \A k \in Keys : cache[k] # Null /\ Covers(acts[a], k, cache[k].id) =>
                          k \in ResolvedKeys(a) \cup {}
    BY <1>1 DEF Covers, ResolvedKeys
  <2> QED BY <1>1, <2>1, <2>2, RestSays, EvictStep
<1> QED BY <1>3, <1>4, <1>5

\* A failed call and a dead process leave the copies in doubt.
LEMMA MishapWrites ==
  ASSUME WriteInv, NEW a \in Actors, MissedEvict(a) \/ Die(a)
  PROVE  WriteInv'
<1>1. ActsOK /\ Says(acts[a], rows, Known)
  BY DEF WriteInv
<1>2. CASE MissedEvict(a)
  <2>1. /\ UNCHANGED <<rows, cache, past>> /\ doubt \subseteq doubt' /\ left \subseteq left'
        /\ acts[a].pc = "evict" /\ acts[a].held # Null
        /\ acts[a].does \in {"update", "consent", "delete"}
        /\ \/ \A k, u : ~Covers(acts[a], k, u)
           \/ CopiesOf(acts[a].held.id) \subseteq doubt'
    BY <1>1, <1>2 DEF MissedEvict, Says, Covers, Holding
  <2>2. PICK f : f = [pc |-> AfterEvict[acts[a].does]] /\ Step(a, f)
    BY <1>2 DEF MissedEvict
  <2>3. DOMAIN f = {"pc"} /\ DOMAIN f \subseteq Fields
    BY <2>2 DEF Fields
  <2>4. /\ acts[a].does = "update" => f.pc = "publish"
        /\ acts[a].does = "consent" => f.pc = "commit"
        /\ acts[a].does = "delete" => f.pc = "done"
    BY <2>2 DEF AfterEvict
  <2>5. /\ ActsOK' /\ \A b \in Actors \ {a} : acts'[b] = acts[b]
        /\ f.pc = "done" => acts'[a] = Done
        /\ f.pc # "done" =>
             /\ acts'[a].pc = f.pc /\ acts'[a].does = acts[a].does
             /\ acts'[a].key = acts[a].key /\ acts'[a].user = acts[a].user
             /\ acts'[a].change = acts[a].change /\ acts'[a].held = acts[a].held
             /\ acts'[a].seen = acts[a].seen
    BY <1>1, <2>2, <2>3, StepWrites
  <2>6. Says(acts'[a], rows, Known)
    <3>1. CASE acts[a].does = "update"
      <4>1. acts[a].seen = Null
        BY <1>1, <2>1, <3>1 DEF Says
      <4> QED BY <1>1, <2>1, <2>4, <2>5, <3>1, <4>1 DEF Says, Finders
    <3>2. CASE acts[a].does = "consent"
      BY <1>1, <2>1, <2>4, <2>5, <3>2 DEF Says, Finders, InTransaction
    <3>3. CASE acts[a].does = "delete"
      BY <2>4, <2>5, <3>3, DoneIsFree
    <3> QED BY <2>1, <3>1, <3>2, <3>3
  <2> QED BY <2>1, <2>5, <2>6, PlainStep
<1>3. CASE Die(a)
  <2>1. /\ UNCHANGED <<rows, cache, past>> /\ doubt \subseteq doubt' /\ Rest(a)
        /\ left \subseteq left'
        /\ acts[a].held # Null => CopiesOf(acts[a].held.id) \subseteq doubt'
    BY <1>3 DEF Die
  <2>2. \/ \A k, u : ~Covers(acts[a], k, u)
        \/ CopiesOf(acts[a].held.id) \subseteq doubt'
    BY <2>1 DEF Covers
  <2> QED BY <1>1, <2>1, <2>2, RestSays, PlainStep
<1> QED BY <1>2, <1>3

\* A copy that expires is neither stale nor anyone's to evict.
LEMMA ExpireWrites ==
  ASSUME WriteInv, NEW k \in Keys, Expire(k)
  PROVE  WriteInv'
<1>1. /\ UNCHANGED <<rows, acts, past>> /\ doubt' = doubt \ {k} /\ left' = left \ {k}
      /\ cache' = [cache EXCEPT ![k] = Null] /\ DOMAIN cache = Keys
  BY DEF Expire, WriteInv, CopiesOK
<1>2. \A j \in Keys : Stale(j)' => Stale(j) /\ j # k /\ cache'[j] = cache[j]
  BY <1>1 DEF Stale
<1>3. Covered'
  BY <1>1, <1>2 DEF Covered, WriteInv, Covers, Excused
<1>4. CopiesOK' /\ DataOK'
  BY <1>1 DEF WriteInv, CopiesOK, DataOK, Known, Living
<1>5. \A a \in Actors : Says(acts'[a], rows', Known')
  BY <1>1 DEF WriteInv, Known
<1> QED BY <1>1, <1>3, <1>4, <1>5 DEF WriteInv, ActsOK

-----------------------------------------------------------------------------
\* Nothing is cached and nobody does anything at first.
LEMMA InitWrites == Init => WriteInv
<1> SUFFICES ASSUME Init PROVE WriteInv
  OBVIOUS
<1>1. ActsOK
  BY DEF Init, ActsOK, Resting, Fields
<1>2. CopiesOK /\ Covered
  BY DEF Init, CopiesOK, Covered, Stale
<1>3. DataOK
  <2>1. ASSUME NEW u \in Living PROVE rows[u] \in RowType /\ rows[u].id = u /\ u \in Known
    <3>1. PICK r \in RowType : r = rows[u] /\ r.id = u /\ Values(r) \subseteq past
      BY DEF Init, Living
    <3>2. <<r.id, "id", r["id"]>> \in Values(r)
      BY DEF Values, RowType
    <3>3. <<r.id, "id", r["id"]>>[1] \in Known
      BY <3>1, <3>2 DEF Known
    <3> QED BY <3>1, <3>3
  <2> QED BY <2>1 DEF DataOK, Init
<1>4. \A a \in Actors : Says(acts[a], rows, Known)
  BY DEF Init, Resting, Says, Finders, Holding
<1> QED BY <1>1, <1>2, <1>3, <1>4 DEF WriteInv

\* Every step of every process.
LEMMA NextWrites == WriteInv /\ [Next]_vars => WriteInv'
<1> SUFFICES ASSUME WriteInv, [Next]_vars PROVE WriteInv'
  OBVIOUS
<1>1. ASSUME NEW a \in Actors,
             Message(a) \/ NumberChange(a) \/ Patch(a) \/ DeleteUser(a)
      PROVE  WriteInv'
  BY <1>1, AskedWrites
<1>2. ASSUME NEW a \in Actors, Work(a) PROVE WriteInv'
  BY <1>2, FindWrites, CreateWrites, LoadWrites, SaveWrites, UpdateWrites, ConsentWrites,
     DeleteWrites DEF Work
<1>3. ASSUME NEW a \in Actors, MissedEvict(a) \/ Die(a) PROVE WriteInv'
  BY <1>3, MishapWrites
<1>4. ASSUME NEW k \in Keys, Expire(k) PROVE WriteInv'
  BY <1>4, ExpireWrites
<1>5. CASE UNCHANGED vars
  <2>1. Covered'
    BY <1>5 DEF vars, history, WriteInv, Covered, Covers, Stale, Excused
  <2>2. ActsOK' /\ DataOK' /\ CopiesOK'
    BY <1>5 DEF vars, history, WriteInv, ActsOK, DataOK, CopiesOK, Living, Known
  <2>3. \A a \in Actors : Says(acts'[a], rows', Known')
    BY <1>5 DEF vars, history, WriteInv, Known
  <2> QED BY <2>1, <2>2, <2>3 DEF WriteInv
<1> QED BY <1>1, <1>2, <1>3, <1>4, <1>5 DEF Next

(* Every write ends in the eviction of every copy it made stale, for any     *)
(* processes in any interleaving: a copy that differs from its row while     *)
(* nobody is still writing the row is one a slower process put there or      *)
(* missed, one a mishap left, or the one under the number that a PATCH by id *)
(* took from the account.                                                    *)
THEOREM EveryWriteEvicts == Spec => []WritesEvict
<1>1. WriteInv => WritesEvict
  <2> SUFFICES ASSUME WriteInv, NEW k \in Keys, Stale(k), k \notin doubt \cup left
               PROVE  Writing(cache[k].id)
    BY DEF WritesEvict
  <2>1. PICK a \in Actors : Covers(acts[a], k, cache[k].id)
    BY DEF WriteInv, Covered, Excused
  <2> QED BY <2>1 DEF Covers, Writing
<1> QED BY <1>1, InitWrites, NextWrites, PTL DEF Spec

-----------------------------------------------------------------------------
(* What is read from the cache was committed, column by column.            *)

\* Every column was committed, or the account is one of those whose update
\* found no row.
Vouched(row, p, un) == Values(row) \subseteq p \/ row.id \in un

\* Who is about to publish what it holds, in the end.  A transaction's update
\* holds values that were not committed, and never becomes one of these.
Publishing(act) ==
  \/ act.does \in Finders /\ act.pc = "fill"
  \/ act.does = "create" /\ act.pc \in {"seed", "publish"}
  \/ act.does = "update" /\ act.pc \in {"evict", "publish"}

Holds(act, p, un) ==
  /\ Publishing(act) => Vouched(act.held, p, un)
  /\ act.does = "update" /\ act.pc \in {"select", "save"} =>
       Values(act.held) \subseteq p
  /\ act.does = "update" /\ act.pc = "save" /\ act.seen # Null =>
       Values(act.seen) \subseteq p

RowsCommitted == \A u \in Ids : rows[u] # Null => Values(rows[u]) \subseteq past

CommittedInv ==
  /\ RowsCommitted
  /\ CopiesWereCommitted
  /\ \A a \in Actors : Holds(acts[a], past, unsaved)

\* Who is done holds nothing.
LEMMA DoneHoldsNothing == \A p, un : Holds(Done, p, un)
BY DEF Done, Resting, Publishing, Holds, Finders

\* The values of a row, column by column.
LEMMA ValuesOf ==
  ASSUME NEW r \in RowType
  PROVE  Values(r) = {<<r.id, x, r[x]>> : x \in Columns}
<1>1. DOMAIN r = Columns
  BY DEF RowType, Columns
<1> QED BY <1>1 DEF Values

\* A step of one process that leaves the tables and the copies committed, and
\* it holding what was.
LEMMA CommittedStep ==
  ASSUME CommittedInv, NEW a \in Actors, \A b \in Actors \ {a} : acts'[b] = acts[b],
         past \subseteq past', unsaved \subseteq unsaved',
         Holds(acts'[a], past', unsaved'), RowsCommitted', CopiesWereCommitted'
  PROVE  CommittedInv'
<1> SUFFICES ASSUME NEW b \in Actors \ {a} PROVE Holds(acts[b], past', unsaved')
  BY DEF CommittedInv
<1>1. Holds(acts[b], past, unsaved)
  BY DEF CommittedInv
<1> QED BY <1>1 DEF Holds, Vouched

\* The tables stay so when the row is not written, the copies when none is put.
LEMMA TablesKept ==
  ASSUME CommittedInv, past \subseteq past', unsaved \subseteq unsaved'
  PROVE  /\ UNCHANGED rows => RowsCommitted'
         /\ UNCHANGED cache => CopiesWereCommitted'
BY DEF CommittedInv, RowsCommitted, CopiesWereCommitted

\* Publishing vouched values.
LEMMA PublishCommitted ==
  ASSUME CommittedInv, NEW row, Vouched(row, past, unsaved), Publish(row),
         UNCHANGED <<past, unsaved>>
  PROVE  CopiesWereCommitted'
BY DEF Publish, CommittedInv, CopiesWereCommitted, Vouched

\* Evicting leaves fewer copies.
LEMMA EvictCommitted ==
  ASSUME CommittedInv, NEW keys, NEW missed, Evict(keys, missed), UNCHANGED <<past, unsaved>>
  PROVE  CopiesWereCommitted'
BY DEF Evict, CommittedInv, CopiesWereCommitted

\* Fields that leave a process where it has nothing to publish.
Quiet(fields) ==
  /\ DOMAIN fields \subseteq Fields /\ "pc" \in DOMAIN fields
  /\ fields.pc \notin {"fill", "seed", "publish", "evict", "select", "save"}

\* Such a step leaves it holding nothing.
LEMMA QuietStep ==
  ASSUME ActsOK, NEW a \in Actors, NEW fields, Quiet(fields), Step(a, fields)
  PROVE  /\ \A b \in Actors \ {a} : acts'[b] = acts[b]
         /\ \A p, un : Holds(acts'[a], p, un)
<1>1. /\ \A b \in Actors \ {a} : acts'[b] = acts[b]
      /\ acts'[a] = Done \/ acts'[a].pc = fields.pc
  BY StepWrites DEF Quiet
<1> QED BY <1>1, DoneHoldsNothing DEF Holds, Publishing, Quiet

\* The end of a process is quiet, and so is what find's callers go on to.
LEMMA QuietFields ==
  /\ Quiet([pc |-> "done"]) /\ Quiet([pc |-> "read"])
  /\ \A a, row : Quiet(Found(a, row))
  /\ \A a, row : Quiet(Over([held |-> Null], Found(a, row)))
<1>1. Quiet([pc |-> "done"]) /\ Quiet([pc |-> "read"])
  BY DEF Quiet, Fields
<1>2. ASSUME NEW a, NEW row PROVE Quiet(Found(a, row))
  BY FoundFields DEF Quiet
<1>3. ASSUME NEW a, NEW row PROVE Quiet(Over([held |-> Null], Found(a, row)))
  <2>1. PICK g : g = Found(a, row)
    OBVIOUS
  <2>2. PICK f : f = Over([held |-> Null], g)
    OBVIOUS
  <2>3. DOMAIN g \subseteq Fields /\ "pc" \in DOMAIN g
        /\ g.pc \in {"insert", "done", "load", "turn", "look"}
    BY <2>1, FoundFields
  <2>4. DOMAIN f = {"held"} \cup DOMAIN g /\ f.pc = g.pc
    BY <2>2, <2>3 DEF Over
  <2> QED BY <2>1, <2>2, <2>3, <2>4 DEF Quiet, Fields
<1> QED BY <1>1, <1>2, <1>3

\* The steps that only end or go on, and leave the tables alone.
LEMMA QuietCommitted ==
  ASSUME WriteInv, CommittedInv, NEW a \in Actors, NEW fields, Quiet(fields), Step(a, fields),
         UNCHANGED <<rows, past, unsaved>>, CopiesWereCommitted'
  PROVE  CommittedInv'
BY QuietStep, TablesKept, CommittedStep DEF WriteInv

\* Asking a process to do something.
LEMMA AskedCommitted ==
  ASSUME WriteInv, CommittedInv, NEW a \in Actors,
         Message(a) \/ NumberChange(a) \/ Patch(a) \/ DeleteUser(a)
  PROVE  CommittedInv'
<1>1. UNCHANGED <<rows, cache, past, unsaved>> /\ ActsOK
  BY DEF Message, NumberChange, Patch, DeleteUser, history, WriteInv
<1>2. CopiesWereCommitted' /\ RowsCommitted'
  BY <1>1, TablesKept
<1>3. CASE \E f : Quiet(f) /\ Step(a, f)
  BY <1>1, <1>2, <1>3, QuietCommitted
<1>4. CASE DeleteUser(a)
  <2>1. PICK f, row : /\ f = [does |-> "delete", pc |-> "evict", key |-> row.id, held |-> row]
                      /\ Step(a, f)
    BY <1>4 DEF DeleteUser
  <2>2. /\ DOMAIN f = {"does", "pc", "key", "held"} /\ DOMAIN f \subseteq Fields
        /\ f.pc = "evict" /\ f.does = "delete"
    BY <2>1 DEF Fields
  <2>3. /\ \A b \in Actors \ {a} : acts'[b] = acts[b]
        /\ acts'[a].pc = "evict" /\ acts'[a].does = "delete"
    BY <1>1, <2>1, <2>2, StepWrites
  <2>4. Holds(acts'[a], past', unsaved')
    BY <2>3 DEF Holds, Publishing, Finders
  <2> QED BY <1>1, <1>2, <2>3, <2>4, CommittedStep
<1>5. CASE Message(a)
  BY <1>3, <1>5 DEF Message, Quiet, Fields
<1>6. CASE NumberChange(a)
  BY <1>3, <1>6 DEF NumberChange, Quiet, Fields
<1>7. CASE Patch(a)
  BY <1>3, <1>7 DEF Patch, Quiet, Fields
<1> QED BY <1>4, <1>5, <1>6, <1>7

\* find: what it publishes it has read from the table.
LEMMA FindCommitted ==
  ASSUME WriteInv, CommittedInv, NEW a \in Actors, Look(a) \/ Read(a) \/ Fill(a)
  PROVE  CommittedInv'
<1>1. ActsOK /\ UNCHANGED <<rows, past, unsaved>>
  BY DEF WriteInv, Look, Read, Fill, history
<1>2. CASE Look(a)
  <2>1. PICK f : Quiet(f) /\ Step(a, f)
    BY <1>2, QuietFields DEF Look
  <2>2. CopiesWereCommitted'
    BY <1>1, <1>2, TablesKept DEF Look
  <2> QED BY <1>1, <2>1, <2>2, QuietCommitted
<1>3. CASE Read(a)
  <2>1. PICK row : row = Stored(acts[a].key)
    OBVIOUS
  <2>2. CopiesWereCommitted' /\ RowsCommitted'
    BY <1>1, <1>3, TablesKept DEF Read
  <2>3. CASE row = Null
    <3>1. PICK f : Quiet(f) /\ Step(a, f)
      BY <1>3, <2>1, <2>3, QuietFields DEF Read
    <3> QED BY <1>1, <2>2, <3>1, QuietCommitted
  <2>4. CASE row # Null
    <3>1. PICK f : f = [pc |-> "fill", held |-> row] /\ Step(a, f)
      BY <1>3, <2>1, <2>4 DEF Read
    <3>2. DOMAIN f = {"pc", "held"} /\ DOMAIN f \subseteq Fields /\ f.pc = "fill" /\ f.held = row
      BY <3>1 DEF Fields
    <3>3. /\ \A b \in Actors \ {a} : acts'[b] = acts[b]
          /\ acts'[a].pc = "fill" /\ acts'[a].held = row
      BY <1>1, <3>1, <3>2, StepWrites
    <3>4. Values(row) \subseteq past
      <4>1. rows[row.id] = row /\ row.id \in Ids
        BY <2>1, <2>4, StoredRow DEF Living
      <4> QED BY <2>4, <4>1 DEF CommittedInv, RowsCommitted
    <3>5. Holds(acts'[a], past', unsaved')
      BY <1>1, <3>3, <3>4 DEF Holds, Vouched
    <3> QED BY <1>1, <2>2, <3>3, <3>5, CommittedStep
  <2> QED BY <2>3, <2>4
<1>4. CASE Fill(a)
  <2>1. PICK row : row = acts[a].held
    OBVIOUS
  <2>2. Vouched(row, past, unsaved)
    BY <1>4, <2>1 DEF Fill, At, CommittedInv, Holds, Publishing
  <2>3. PICK f : Quiet(f) /\ Step(a, f)
    BY <1>4, QuietFields DEF Fill
  <2>4. CopiesWereCommitted'
    BY <1>1, <1>4, <2>1, <2>2, PublishCommitted DEF Fill
  <2> QED BY <1>1, <2>3, <2>4, QuietCommitted
<1> QED BY <1>2, <1>3, <1>4

\* A row written with its values noted.
LEMMA RowNoted ==
  ASSUME WriteInv, CommittedInv, NEW u, NEW row, rows' = [rows EXCEPT ![u] = row],
         past \subseteq past', row # Null => Values(row) \subseteq past'
  PROVE  RowsCommitted'
BY DEF CommittedInv, RowsCommitted, WriteInv, DataOK

\* create: the row it holds is in the history from the insert on.
LEMMA CreateCommitted ==
  ASSUME WriteInv, CommittedInv, NEW a \in Actors, Insert(a) \/ Seed(a) \/ Populate(a)
  PROVE  CommittedInv'
<1>1. ActsOK /\ UNCHANGED unsaved /\ acts[a].does = "create"
  BY DEF WriteInv, Insert, Seed, Populate, history, At
<1>2. CASE Insert(a)
  <2>1. CASE WithKey(acts[a].from) # {}
    <3>1. Rest(a) /\ UNCHANGED <<rows, cache, past>>
      BY <1>2, <2>1 DEF Insert
    <3>2. PICK f : Quiet(f) /\ Step(a, f)
      BY <3>1, QuietFields DEF Rest
    <3> QED BY <1>1, <3>1, <3>2, TablesKept, QuietCommitted
  <2>2. CASE WithKey(acts[a].from) = {}
    <3>1. PICK u, row, f : /\ rows' = [rows EXCEPT ![u] = row]
                           /\ past' = past \cup Values(row) /\ UNCHANGED cache
                           /\ f = [pc |-> "seed", held |-> row] /\ Step(a, f)
      BY <1>2, <2>2 DEF Insert
    <3>2. DOMAIN f = {"pc", "held"} /\ DOMAIN f \subseteq Fields /\ f.pc = "seed" /\ f.held = row
      BY <3>1 DEF Fields
    <3>3. /\ \A b \in Actors \ {a} : acts'[b] = acts[b]
          /\ acts'[a].pc = "seed" /\ acts'[a].held = row /\ acts'[a].does = "create"
      BY <1>1, <3>1, <3>2, StepWrites
    <3>4. past \subseteq past' /\ Values(row) \subseteq past' /\ unsaved \subseteq unsaved'
      BY <1>1, <3>1
    <3>5. RowsCommitted' /\ CopiesWereCommitted'
      BY <3>1, <3>4, RowNoted, TablesKept
    <3>6. Holds(acts'[a], past', unsaved')
      BY <3>3, <3>4 DEF Holds, Vouched
    <3> QED BY <3>3, <3>4, <3>5, <3>6, CommittedStep
  <2> QED BY <2>1, <2>2
<1>3. CASE Seed(a)
  <2>1. PICK f : f = [pc |-> IF rows[acts[a].held.id] = Null THEN "done" ELSE "publish"]
                 /\ Step(a, f)
    BY <1>3 DEF Seed
  <2>2. DOMAIN f = {"pc"} /\ f.pc \in {"done", "publish"} /\ DOMAIN f \subseteq Fields
    BY <2>1 DEF Fields
  <2>3. /\ \A b \in Actors \ {a} : acts'[b] = acts[b]
        /\ f.pc = "done" => acts'[a] = Done
        /\ f.pc = "publish" =>
             /\ acts'[a].pc = "publish" /\ acts'[a].does = "create"
             /\ acts'[a].held = acts[a].held
    BY <1>1, <2>1, <2>2, StepWrites
  <2>4. Vouched(acts[a].held, past, unsaved) /\ UNCHANGED <<rows, cache, past, unsaved>>
    BY <1>3 DEF Seed, At, CommittedInv, Holds, Publishing, history
  <2>5. Holds(acts'[a], past', unsaved')
    <3>1. CASE f.pc = "done"
      BY <2>3, <3>1, DoneHoldsNothing
    <3>2. CASE f.pc = "publish"
      BY <2>3, <2>4, <3>2 DEF Holds
    <3> QED BY <2>2, <3>1, <3>2
  <2> QED BY <2>3, <2>4, <2>5, TablesKept, CommittedStep
<1>4. CASE Populate(a)
  <2>1. Vouched(acts[a].held, past, unsaved)
    BY <1>4 DEF Populate, At, CommittedInv, Holds, Publishing
  <2>2. PICK f : Quiet(f) /\ Step(a, f)
    BY <1>4, QuietFields DEF Populate, Rest
  <2>3. UNCHANGED <<rows, past, unsaved>> /\ Publish(acts[a].held)
    BY <1>4 DEF Populate
  <2> QED BY <2>1, <2>2, <2>3, PublishCommitted, QuietCommitted
<1> QED BY <1>2, <1>3, <1>4

\* update and the turn's transaction hold a committed row, and select one.
LEMMA LoadCommitted ==
  ASSUME WriteInv, CommittedInv, NEW a \in Actors, Load(a) \/ Select(a)
  PROVE  CommittedInv'
<1>1. ActsOK /\ UNCHANGED <<rows, cache, past, unsaved>>
  BY DEF WriteInv, Load, Select, history
<1>2. RowsCommitted' /\ CopiesWereCommitted'
  BY <1>1, TablesKept
<1>3. CASE Load(a)
  <2>1. PICK row : row = Stored(acts[a].key)
    OBVIOUS
  <2>2. CASE row = Null
    <3>1. PICK f : Quiet(f) /\ Step(a, f)
      BY <1>3, <2>1, <2>2, QuietFields DEF Load
    <3> QED BY <1>1, <1>2, <3>1, QuietCommitted
  <2>3. CASE row # Null
    <3>1. PICK f : f = [pc |-> "select", held |-> row] /\ Step(a, f)
      BY <1>3, <2>1, <2>3 DEF Load
    <3>2. DOMAIN f = {"pc", "held"} /\ DOMAIN f \subseteq Fields /\ f.pc = "select" /\ f.held = row
      BY <3>1 DEF Fields
    <3>3. /\ \A b \in Actors \ {a} : acts'[b] = acts[b]
          /\ acts'[a].pc = "select" /\ acts'[a].held = row
      BY <1>1, <3>1, <3>2, StepWrites
    <3>4. rows[row.id] = row /\ row.id \in Ids
      BY <2>1, <2>3, StoredRow DEF Living
    <3>5. Values(row) \subseteq past
      BY <2>3, <3>4 DEF CommittedInv, RowsCommitted
    <3>6. Holds(acts'[a], past', unsaved')
      BY <1>1, <3>3, <3>5 DEF Holds, Publishing
    <3> QED BY <1>1, <1>2, <3>3, <3>6, CommittedStep
  <2> QED BY <2>2, <2>3
<1>4. CASE Select(a)
  <2>1. PICK u, row : u = acts[a].held.id /\ row = rows[u]
    OBVIOUS
  <2>2. PICK f : f = [pc |-> "save", seen |-> row] /\ Step(a, f)
    BY <1>4, <2>1 DEF Select
  <2>3. DOMAIN f = {"pc", "seen"} /\ f.pc = "save" /\ f.seen = row /\ DOMAIN f \subseteq Fields
    BY <2>2 DEF Fields
  <2>4. /\ \A b \in Actors \ {a} : acts'[b] = acts[b]
        /\ acts'[a].pc = "save" /\ acts'[a].held = acts[a].held /\ acts'[a].does = acts[a].does
        /\ acts'[a].seen = row
    BY <1>1, <2>2, <2>3, StepWrites
  <2>5. u \in Ids
    <3>1. Says(acts[a], rows, Known) /\ acts[a].pc = "select"
      BY <1>4 DEF WriteInv, Select, At
    <3> QED BY <2>1, <3>1, RowColumns DEF Says, Holding
  <2>6. row # Null => Values(row) \subseteq past
    BY <2>1, <2>5 DEF CommittedInv, RowsCommitted
  <2>7. Holds(acts[a], past, unsaved) /\ acts[a].pc = "select"
    BY <1>4 DEF CommittedInv, Select, At
  <2>8. Holds(acts'[a], past', unsaved')
    BY <1>1, <2>4, <2>6, <2>7 DEF Holds, Publishing
  <2> QED BY <1>1, <1>2, <2>4, <2>8, CommittedStep
<1> QED BY <1>3, <1>4

\* save(): what update() goes on to publish is, column by column, what its
\* entity had in common with the row it selected, or what it wrote.
LEMMA SaveCommitted ==
  ASSUME WriteInv, CommittedInv, NEW a \in Actors, Save(a)
  PROVE  CommittedInv'
<1>1. /\ ActsOK /\ Says(acts[a], rows, Known) /\ UNCHANGED cache
      /\ acts[a].does = "update" /\ acts[a].pc = "save" /\ Holds(acts[a], past, unsaved)
  BY DEF WriteInv, Save, At, CommittedInv
<1>2. PICK e, s, u, row :
        e = Assigned(a) /\ s = acts[a].seen /\ u = acts[a].held.id /\ row = Saved(a, u)
  OBVIOUS
<1>3. acts[a].held # Null /\ Change(acts[a].change)
  BY <1>1 DEF Says, Holding
<1>4. /\ u \in Ids /\ e \in RowType /\ e.id = u
      /\ row = Null <=> (s # Null /\ rows[u] = Null)
      /\ row # Null => row \in RowType /\ row.id = u
      /\ s # Null /\ rows[u] # Null =>
           \A x \in Columns : row[x] = IF e[x] # s[x] THEN e[x] ELSE rows[u][x]
  BY <1>2, <1>3, SavedRow
<1>5. s # Null => s \in RowType /\ s.id = u /\ Values(s) \subseteq past
  BY <1>1, <1>2 DEF Says, Holds
<1>6. CASE row # Null /\ ~Legal(a, row)
  <2>1. Rest(a) /\ UNCHANGED <<rows, past, unsaved>>
    BY <1>2, <1>6 DEF Save, history
  <2>2. PICK f : Quiet(f) /\ Step(a, f)
    BY <2>1, QuietFields DEF Rest
  <2> QED BY <1>1, <2>1, <2>2, TablesKept, QuietCommitted
<1>7. CASE ~(row # Null /\ ~Legal(a, row))
  <2>1. /\ rows' = [rows EXCEPT ![u] = row]
        /\ past' = past \cup (IF row = Null THEN {} ELSE Values(row))
        /\ unsaved' = IF row = Null /\ e # s THEN unsaved \cup {u} ELSE unsaved
        /\ Step(a, [pc |-> "evict", held |-> e, seen |-> Null])
    BY <1>2, <1>7 DEF Save
  <2>2. PICK f : f = [pc |-> "evict", held |-> e, seen |-> Null] /\ Step(a, f)
    BY <2>1
  <2>3. DOMAIN f = {"pc", "held", "seen"} /\ f.pc = "evict" /\ f.held = e
        /\ DOMAIN f \subseteq Fields
    BY <2>2 DEF Fields
  <2>4. /\ \A b \in Actors \ {a} : acts'[b] = acts[b]
        /\ acts'[a].pc = "evict" /\ acts'[a].held = e /\ acts'[a].does = "update"
    BY <1>1, <2>2, <2>3, StepWrites
  <2>5. /\ past \subseteq past' /\ unsaved \subseteq unsaved'
        /\ row # Null => Values(row) \subseteq past'
    BY <2>1
  <2>6. Vouched(e, past', unsaved')
    <3>1. CASE row = Null /\ e # s
      BY <1>4, <2>1, <3>1 DEF Vouched
    <3>2. CASE row = Null /\ e = s
      BY <1>4, <1>5, <2>5, <3>2 DEF Vouched
    <3>3. CASE row # Null /\ s = Null
      <4>1. row = e
        BY <1>2, <3>3 DEF Saved
      <4> QED BY <2>5, <3>3, <4>1 DEF Vouched
    <3>4. CASE row # Null /\ s # Null
      <4>1. ASSUME NEW x \in Columns PROVE <<u, x, e[x]>> \in past'
        <5>1. CASE e[x] = s[x]
          <6>1. <<u, x, s[x]>> \in Values(s)
            BY <1>5, <3>4, ValuesOf
          <6> QED BY <1>5, <2>5, <3>4, <5>1, <6>1
        <5>2. CASE e[x] # s[x]
          <6>1. row[x] = e[x]
            BY <1>4, <3>4, <5>2
          <6>2. <<u, x, row[x]>> \in Values(row)
            BY <1>4, <3>4, ValuesOf
          <6> QED BY <2>5, <3>4, <6>1, <6>2
        <5> QED BY <5>1, <5>2
      <4>2. Values(e) = {<<u, x, e[x]>> : x \in Columns}
        BY <1>4, ValuesOf
      <4> QED BY <4>1, <4>2 DEF Vouched
    <3> QED BY <3>1, <3>2, <3>3, <3>4
  <2>7. Holds(acts'[a], past', unsaved')
    BY <2>4, <2>6 DEF Holds
  <2>8. RowsCommitted' /\ CopiesWereCommitted'
    BY <1>1, <2>1, <2>5, RowNoted, TablesKept
  <2> QED BY <2>4, <2>5, <2>7, <2>8, CommittedStep
<1> QED BY <1>6, <1>7

\* update() evicts, then publishes what it holds.
LEMMA UpdateCommitted ==
  ASSUME WriteInv, CommittedInv, NEW a \in Actors, EvictUpdated(a) \/ PublishUpdated(a)
  PROVE  CommittedInv'
<1>1. /\ ActsOK /\ UNCHANGED <<rows, past, unsaved>>
      /\ acts[a].does = "update" /\ Vouched(acts[a].held, past, unsaved)
  BY DEF WriteInv, EvictUpdated, PublishUpdated, At, CommittedInv, Holds, Publishing
<1>2. CASE EvictUpdated(a)
  <2>1. PICK f : f = [pc |-> "publish"] /\ Step(a, f)
    BY <1>2 DEF EvictUpdated
  <2>2. DOMAIN f = {"pc"} /\ f.pc = "publish" /\ DOMAIN f \subseteq Fields
    BY <2>1 DEF Fields
  <2>3. /\ \A b \in Actors \ {a} : acts'[b] = acts[b]
        /\ acts'[a].pc = "publish" /\ acts'[a].held = acts[a].held
    BY <1>1, <2>1, <2>2, StepWrites
  <2>4. Holds(acts'[a], past', unsaved')
    BY <1>1, <2>3 DEF Holds
  <2>5. Evict(Evicted(a), {})
    BY <1>2 DEF EvictUpdated
  <2> QED BY <1>1, <2>3, <2>4, <2>5, EvictCommitted, TablesKept, CommittedStep
<1>3. CASE PublishUpdated(a)
  <2>1. PICK f : Quiet(f) /\ Step(a, f)
    BY <1>3, QuietFields DEF PublishUpdated, Rest
  <2>2. Publish(acts[a].held)
    BY <1>3 DEF PublishUpdated
  <2> QED BY <1>1, <2>1, <2>2, PublishCommitted, QuietCommitted
<1> QED BY <1>2, <1>3

\* The turn's transaction never publishes what it holds.
LEMMA ConsentCommitted ==
  ASSUME WriteInv, CommittedInv, NEW a \in Actors,
         \/ Turn(a) \/ SaveUncommitted(a) \/ EvictUncommitted(a)
         \/ Commit(a) \/ Invalidate(a)
  PROVE  CommittedInv'
<1>1. ActsOK /\ UNCHANGED unsaved
  BY DEF WriteInv, Turn, SaveUncommitted, EvictUncommitted, Commit, Invalidate, history
<1>2. CASE Turn(a)
  <2>1. PICK f : Quiet(f) /\ Step(a, f)
    BY <1>2 DEF Turn, Rest, Quiet, Fields
  <2>2. UNCHANGED <<rows, cache, past>>
    BY <1>2 DEF Turn, history
  <2> QED BY <1>1, <2>1, <2>2, TablesKept, QuietCommitted
<1>3. CASE SaveUncommitted(a)
  <2>1. UNCHANGED <<rows, cache, past>> /\ acts[a].does = "consent"
    BY <1>3 DEF SaveUncommitted, At
  <2>2. CASE Rest(a)
    <3>1. PICK f : Quiet(f) /\ Step(a, f)
      BY <2>2, QuietFields DEF Rest
    <3> QED BY <1>1, <2>1, <3>1, TablesKept, QuietCommitted
  <2>3. CASE ~Rest(a)
    <3>1. PICK f : f = [pc |-> "evict", held |-> Assigned(a)] /\ Step(a, f)
      BY <1>3, <2>3 DEF SaveUncommitted
    <3>2. DOMAIN f = {"pc", "held"} /\ DOMAIN f \subseteq Fields /\ f.pc = "evict"
      BY <3>1 DEF Fields
    <3>3. /\ \A b \in Actors \ {a} : acts'[b] = acts[b]
          /\ acts'[a].does = "consent"
      BY <1>1, <2>1, <3>1, <3>2, StepWrites
    <3>4. Holds(acts'[a], past', unsaved')
      BY <3>3 DEF Holds, Publishing, Finders
    <3> QED BY <1>1, <2>1, <3>3, <3>4, TablesKept, CommittedStep
  <2> QED BY <2>2, <2>3
<1>4. CASE EvictUncommitted(a)
  <2>1. PICK f : Quiet(f) /\ Step(a, f)
    BY <1>4 DEF EvictUncommitted, Quiet, Fields
  <2>2. UNCHANGED <<rows, past>> /\ Evict(Evicted(a), {})
    BY <1>4 DEF EvictUncommitted
  <2> QED BY <1>1, <2>1, <2>2, EvictCommitted, QuietCommitted
<1>5. CASE Commit(a)
  <2>1. PICK f : Quiet(f) /\ Step(a, f)
    BY <1>5 DEF Commit, Rest, Quiet, Fields
  <2>2. UNCHANGED cache
    BY <1>5 DEF Commit
  <2>3. CASE UNCHANGED <<rows, past>>
    BY <1>1, <2>1, <2>2, <2>3, TablesKept, QuietCommitted
  <2>4. CASE ~UNCHANGED <<rows, past>>
    <3>1. PICK u, row : rows' = [rows EXCEPT ![u] = row] /\ past' = past \cup Values(row)
      BY <1>5, <2>4 DEF Commit
    <3>2. past \subseteq past' /\ Values(row) \subseteq past'
      BY <3>1
    <3>3. RowsCommitted' /\ CopiesWereCommitted'
      BY <1>1, <2>2, <3>1, <3>2, RowNoted, TablesKept
    <3>4. /\ \A b \in Actors \ {a} : acts'[b] = acts[b]
          /\ Holds(acts'[a], past', unsaved')
      BY <1>1, <2>1, QuietStep
    <3> QED BY <1>1, <3>2, <3>3, <3>4, CommittedStep
  <2> QED BY <2>3, <2>4
<1>6. CASE Invalidate(a)
  <2>1. PICK f : Quiet(f) /\ Step(a, f)
    BY <1>6, QuietFields DEF Invalidate, Rest
  <2>2. UNCHANGED <<rows, past>> /\ \E keys, missed : Evict(keys, missed)
    BY <1>6 DEF Invalidate
  <2> QED BY <1>1, <2>1, <2>2, EvictCommitted, QuietCommitted
<1> QED BY <1>2, <1>3, <1>4, <1>5, <1>6

\* delete only evicts, and its transaction leaves committed rows.
LEMMA DeleteCommitted ==
  ASSUME WriteInv, CommittedInv, NEW a \in Actors,
         EvictFirst(a) \/ RemoveRow(a) \/ EvictAgain(a)
  PROVE  CommittedInv'
<1>1. ActsOK /\ UNCHANGED unsaved
  BY DEF WriteInv, EvictFirst, RemoveRow, EvictAgain
<1>2. CASE EvictFirst(a)
  <2>1. PICK f : Quiet(f) /\ Step(a, f)
    BY <1>2 DEF EvictFirst, Quiet, Fields
  <2>2. UNCHANGED <<rows, past>> /\ Evict(ResolvedKeys(a), {})
    BY <1>2 DEF EvictFirst
  <2> QED BY <1>1, <2>1, <2>2, EvictCommitted, QuietCommitted
<1>3. CASE RemoveRow(a)
  <2>1. PICK f : Quiet(f) /\ Step(a, f)
    BY <1>3 DEF RemoveRow, Quiet, Fields
  <2>2. PICK u : u = acts[a].key
    OBVIOUS
  <2>3. /\ rows' = [v \in Ids |->
                      IF v = u \/ rows[v] = Null THEN Null
                      ELSE [rows[v] EXCEPT !.by = IF rows[v].by = u THEN Null ELSE rows[v].by]]
        /\ past' = past \cup {<<v, "by", Null>> : v \in {w \in Living : rows[w].by = u}}
        /\ UNCHANGED cache
    BY <1>3, <2>2 DEF RemoveRow
  <2>4. past \subseteq past'
    BY <2>3
  <2>5. ASSUME NEW v \in Ids, rows'[v] # Null PROVE Values(rows'[v]) \subseteq past'
    <3>1. v # u /\ rows[v] # Null
      BY <2>3, <2>5
    <3>2. PICK r \in RowType : r = rows[v] /\ r.id = v /\ v \in Living
      BY <3>1 DEF WriteInv, DataOK, Living
    <3>3. PICK b \in Ids \cup {Null} : b = IF r.by = u THEN Null ELSE r.by
      BY <3>2, RowColumns
    <3>4. PICK n : n = [r EXCEPT !.by = b] /\ n = rows'[v]
      BY <2>3, <3>1, <3>2, <3>3
    <3>5. /\ n \in RowType /\ n.id = v /\ n.by = b
          /\ \A x \in Columns : x # "by" => n[x] = r[x]
      BY <3>2, <3>4 DEF RowType, Columns
    <3>6. Values(r) \subseteq past'
      BY <2>4, <3>1, <3>2 DEF CommittedInv, RowsCommitted
    <3>7. ASSUME NEW x \in Columns PROVE <<v, x, n[x]>> \in past'
      <4>1. <<v, x, r[x]>> \in past'
        BY <3>2, <3>6, ValuesOf
      <4>2. CASE x # "by" \/ r.by # u
        BY <3>3, <3>5, <4>1, <4>2
      <4>3. CASE x = "by" /\ r.by = u
        BY <2>3, <3>2, <3>3, <3>5, <4>3
      <4> QED BY <4>2, <4>3
    <3>8. Values(n) = {<<v, x, n[x]>> : x \in Columns}
      BY <3>5, ValuesOf
    <3> QED BY <3>4, <3>7, <3>8
  <2>6. RowsCommitted' /\ CopiesWereCommitted'
    BY <1>1, <2>3, <2>4, <2>5, TablesKept DEF RowsCommitted
  <2>7. /\ \A b \in Actors \ {a} : acts'[b] = acts[b]
        /\ Holds(acts'[a], past', unsaved')
    BY <1>1, <2>1, QuietStep
  <2> QED BY <1>1, <2>4, <2>6, <2>7, CommittedStep
<1>4. CASE EvictAgain(a)
  <2>1. PICK f : Quiet(f) /\ Step(a, f)
    BY <1>4, QuietFields DEF EvictAgain, Rest
  <2>2. UNCHANGED <<rows, past>> /\ Evict(ResolvedKeys(a), {})
    BY <1>4 DEF EvictAgain
  <2> QED BY <1>1, <2>1, <2>2, EvictCommitted, QuietCommitted
<1> QED BY <1>2, <1>3, <1>4

\* A call to Redis that fails changes no copy, and a process that dies is done.
LEMMA MishapCommitted ==
  ASSUME WriteInv, CommittedInv, NEW a \in Actors, MissedEvict(a) \/ Die(a)
  PROVE  CommittedInv'
<1>1. ActsOK /\ UNCHANGED <<rows, cache, past, unsaved>> /\ Says(acts[a], rows, Known)
  BY DEF WriteInv, MissedEvict, Die
<1>2. RowsCommitted' /\ CopiesWereCommitted'
  BY <1>1, TablesKept
<1>3. CASE MissedEvict(a)
  <2>1. acts[a].does \in {"update", "consent", "delete"} /\ acts[a].pc = "evict"
    BY <1>1, <1>3 DEF MissedEvict, Says
  <2>2. PICK f : f = [pc |-> AfterEvict[acts[a].does]] /\ Step(a, f)
    BY <1>3 DEF MissedEvict
  <2>3. DOMAIN f = {"pc"} /\ DOMAIN f \subseteq Fields
    BY <2>2 DEF Fields
  <2>4. /\ acts[a].does = "update" => f.pc = "publish"
        /\ acts[a].does = "consent" => f.pc = "commit"
        /\ acts[a].does = "delete" => f.pc = "done"
    BY <2>2 DEF AfterEvict
  <2>5. CASE acts[a].does = "update"
    <3>1. /\ \A b \in Actors \ {a} : acts'[b] = acts[b]
          /\ acts'[a].pc = "publish" /\ acts'[a].held = acts[a].held
      BY <1>1, <2>2, <2>3, <2>4, <2>5, StepWrites
    <3>2. Vouched(acts[a].held, past, unsaved)
      BY <2>1, <2>5 DEF CommittedInv, Holds, Publishing
    <3>3. Holds(acts'[a], past', unsaved')
      BY <1>1, <3>1, <3>2 DEF Holds
    <3> QED BY <1>1, <1>2, <3>1, <3>3, CommittedStep
  <2>6. CASE acts[a].does # "update"
    <3>1. Quiet(f)
      BY <2>1, <2>3, <2>4, <2>6 DEF Quiet
    <3> QED BY <1>1, <1>2, <2>2, <3>1, QuietCommitted
  <2> QED BY <2>5, <2>6
<1>4. CASE Die(a)
  <2>1. PICK f : Quiet(f) /\ Step(a, f)
    BY <1>4, QuietFields DEF Die, Rest
  <2> QED BY <1>1, <1>2, <2>1, QuietCommitted
<1> QED BY <1>3, <1>4

(* A turn goes by a copy that may be old, and whose columns may even be of   *)
(* different times, but never by a value that was never committed: whatever  *)
(* the processes do at the same time, however many calls to Redis fail and   *)
(* processes die.  But for an account deleted between the two statements of  *)
(* a save().                                                                 *)
THEOREM NothingUncommittedIsRead == Spec => []CopiesWereCommitted
<1>1. Init => CommittedInv
  <2> SUFFICES ASSUME Init PROVE CommittedInv
    OBVIOUS
  <2>1. RowsCommitted
    BY DEF Init, RowsCommitted, Living
  <2>2. CopiesWereCommitted
    BY DEF Init, CopiesWereCommitted
  <2>3. \A a \in Actors : Holds(acts[a], past, unsaved)
    BY DEF Init, Resting, Holds, Publishing
  <2> QED BY <2>1, <2>2, <2>3 DEF CommittedInv
<1>2. WriteInv /\ CommittedInv /\ [Next]_vars => CommittedInv'
  <2> SUFFICES ASSUME WriteInv, CommittedInv, [Next]_vars PROVE CommittedInv'
    OBVIOUS
  <2>1. ASSUME NEW a \in Actors,
               Message(a) \/ NumberChange(a) \/ Patch(a) \/ DeleteUser(a)
        PROVE  CommittedInv'
    BY <2>1, AskedCommitted
  <2>2. ASSUME NEW a \in Actors, Work(a) PROVE CommittedInv'
    BY <2>2, FindCommitted, CreateCommitted, LoadCommitted, SaveCommitted, UpdateCommitted,
       ConsentCommitted, DeleteCommitted DEF Work
  <2>3. ASSUME NEW a \in Actors, MissedEvict(a) \/ Die(a) PROVE CommittedInv'
    BY <2>3, MishapCommitted
  <2>4. ASSUME NEW k \in Keys, Expire(k) PROVE CommittedInv'
    <3>1. UNCHANGED <<rows, acts, past, unsaved>> /\ cache' = [cache EXCEPT ![k] = Null]
      BY <2>4 DEF Expire
    <3>2. DOMAIN cache = Keys
      BY DEF WriteInv, CopiesOK
    <3> QED BY <3>1, <3>2 DEF CommittedInv, RowsCommitted, CopiesWereCommitted
  <2>5. CASE UNCHANGED vars
    BY <2>5 DEF vars, history, CommittedInv, RowsCommitted, CopiesWereCommitted
  <2> QED BY <2>1, <2>2, <2>3, <2>4, <2>5 DEF Next
<1>3. CommittedInv => CopiesWereCommitted
  BY DEF CommittedInv
<1> QED BY <1>1, <1>2, <1>3, InitWrites, NextWrites, PTL DEF Spec

-----------------------------------------------------------------------------
(* The public series.  The sweep of the nightly rows, whatever order rows   *)
(* of one date come in, counts the students whose newest row is a pass.    *)

VerdictRows == [student : Students, for : Nat, passed : BOOLEAN]

\* A student has one row a date.
OneRowADay(rs) ==
  /\ rs \in SUBSET VerdictRows /\ IsFiniteSet(rs)
  /\ \A r, o \in rs : r.student = o.student /\ r.for = o.for => r = o

\* The students whose newest row is a pass.
NewestPassed(rs) ==
  {s \in Students : \E r \in rs :
     r.student = s /\ r.passed /\ \A o \in rs : o.student = s => o.for <= r.for}

\* There is a date order...
LEMMA ByDateIs ==
  ASSUME NEW rs, OneRowADay(rs)
  PROVE  /\ Once(ByDate(rs), rs)
         /\ \A i, j \in 1 .. Cardinality(rs) : i < j => ByDate(rs)[i].for <= ByDate(rs)[j].for
<1> DEFINE w == [r \in rs |-> r.for]
           OK(q) == q \in SetToSeqs(rs) /\ \A i, j \in DOMAIN q : i < j => q[i].for <= q[j].for
<1>1. \A q : Once(q, rs) <=> q \in SetToSeqs(rs)
  BY DEF Once, SetToSeqs
<1>2. \A q : Once(q, rs) => DOMAIN q = 1 .. Cardinality(rs) /\ \A i \in DOMAIN q : q[i] \in rs
  BY DEF Once
<1>3. \A x \in rs : w[x] \in Int
  BY DEF OneRowADay, VerdictRows
<1>4. PICK q : Once(q, rs) /\ \A i, j \in 1 .. Cardinality(rs) : i < j => w[q[i]] <= w[q[j]]
  <2> HIDE DEF w
  <2> QED BY <1>3, InOrder DEF OneRowADay
<1>5. \A r \in rs : w[r] = r.for
  OBVIOUS
<1>6. OK(q)
  <2> HIDE DEF w
  <2> QED BY <1>1, <1>2, <1>4, <1>5
<1>7. ByDate(rs) = CHOOSE p : OK(p)
  BY Zenon DEF ByDate
<1>8. OK(ByDate(rs))
  <2> HIDE DEF OK
  <2> QED BY <1>6, <1>7, Zenon
<1> QED BY <1>1, <1>2, <1>8

\* The students whose last row of the first k is a pass, by q.
PassedBy(q, k) ==
  {s \in Students : \E i \in 1 .. k :
     q[i].student = s /\ q[i].passed /\ \A j \in 1 .. k : q[j].student = s => j <= i}

Verdicts == [latest : [Students -> BOOLEAN], passing : Int]

\* ...and the sweep counts, after each row, who passed last.
LEMMA SweepCounts ==
  ASSUME NEW n \in Nat, NEW q \in [1 .. n -> VerdictRows],
         NEW after, after[0] = NoVerdicts,
         \A k \in 1 .. n : after[k] = WithVerdict(after[k - 1], q[k])
  PROVE  after[n].passing = Cardinality(PassedBy(q, n))
<1> DEFINE Swept1(k) == /\ after[k] \in Verdicts
                        /\ \A s \in Students : after[k].latest[s] <=> s \in PassedBy(q, k)
                        /\ after[k].passing = Cardinality(PassedBy(q, k))
           Q == {k \in Nat : k <= n => Swept1(k)}
<1>1. \A k : PassedBy(q, k) \subseteq Students /\ IsFiniteSet(PassedBy(q, k))
  <2>1. \A k : PassedBy(q, k) \subseteq Students
    BY DEF PassedBy
  <2> QED BY <2>1, TractionAssumption, FS_Subset
<1>2. 0 \in Q
  <2>1. PassedBy(q, 0) = {}
    BY DEF PassedBy
  <2>2. Swept1(0)
    <3>1. NoVerdicts.latest = [s \in Students |-> FALSE] /\ NoVerdicts.passing = 0
      BY DEF NoVerdicts
    <3>2. NoVerdicts \in Verdicts
      BY DEF NoVerdicts, Verdicts
    <3>3. \A s \in Students : ~ NoVerdicts.latest[s]
      BY <3>1
    <3> QED BY <2>1, <3>1, <3>2, <3>3, FS_EmptySet
  <2> QED BY <2>2
<1>3. ASSUME NEW k \in Nat, k \in Q PROVE k + 1 \in Q
  <2> SUFFICES ASSUME k + 1 <= n PROVE Swept1(k + 1)
    OBVIOUS
  <2>1. k + 1 \in 1 .. n /\ k <= n /\ (k + 1) - 1 = k
    OBVIOUS
  <2>2. Swept1(k)
    BY <1>3, <2>1
  <2>3. PICK r \in VerdictRows : r = q[k + 1]
    BY <2>1
  <2>4. r.student \in Students /\ r.passed \in BOOLEAN
    BY DEF VerdictRows
  <2> DEFINE t == r.student
             A == PassedBy(q, k)
             B == PassedBy(q, k + 1)
             old == after[k]
             new == after[k + 1]
  <2>5. B = IF r.passed THEN A \cup {t} ELSE A \ {t}
    <3>1. ASSUME NEW s \in Students, s # t PROVE s \in A <=> s \in B
      <4>1. \A i \in 1 .. (k + 1) : q[i].student = s => i \in 1 .. k
        BY <2>3, <3>1
      <4>2. 1 .. k \subseteq 1 .. (k + 1)
        OBVIOUS
      <4> QED BY <4>1, <4>2 DEF PassedBy
    <3>2. t \in B <=> r.passed
      <4>1. k + 1 \in 1 .. (k + 1) /\ \A j \in 1 .. (k + 1) : j <= k + 1 /\ (k + 1 <= j => j = k + 1)
        OBVIOUS
      <4> QED BY <2>3, <2>4, <4>1 DEF PassedBy
    <3>3. A \subseteq Students /\ B \subseteq Students
      BY <1>1
    <3> QED BY <2>4, <3>1, <3>2, <3>3
  <2>6. new = WithVerdict(old, r)
    BY <2>1, <2>3
  <2>7. /\ new.latest = [old.latest EXCEPT ![t] = r.passed]
        /\ new.passing = old.passing + (IF r.passed THEN 1 ELSE 0) - (IF old.latest[t] THEN 1 ELSE 0)
        /\ new = [latest |-> new.latest, passing |-> new.passing]
    BY <2>6 DEF WithVerdict
  <2>8. /\ old.latest \in [Students -> BOOLEAN] /\ old.passing \in Int
        /\ old.passing = Cardinality(A)
        /\ \A s \in Students : old.latest[s] <=> s \in A
    BY <2>2 DEF Verdicts
  <2> HIDE DEF A, B, old, new, t
  <2>9. /\ new.latest \in [Students -> BOOLEAN]
        /\ \A s \in Students : new.latest[s] = IF s = t THEN r.passed ELSE old.latest[s]
    BY <2>4, <2>7, <2>8 DEF t
  <2>10. \A s \in Students : new.latest[s] <=> s \in B
    BY <2>4, <2>5, <2>8, <2>9 DEF t
  <2>11. new.passing = Cardinality(B) /\ new.passing \in Int
    <3>1. IsFiniteSet(A) /\ Cardinality(A) \in Nat
      BY <1>1, FS_CardinalityType DEF A
    <3>2. Cardinality(A \cup {t}) = IF t \in A THEN Cardinality(A) ELSE Cardinality(A) + 1
      BY <3>1, FS_AddElement
    <3>3. Cardinality(A \ {t}) = IF t \in A THEN Cardinality(A) - 1 ELSE Cardinality(A)
      BY <3>1, FS_RemoveElement
    <3>4. old.latest[t] <=> t \in A
      BY <2>4, <2>8 DEF t
    <3> QED BY <2>4, <2>5, <2>7, <2>8, <3>1, <3>2, <3>3, <3>4
  <2>12. new \in Verdicts
    BY <2>7, <2>9, <2>11 DEF Verdicts
  <2> QED BY <2>10, <2>11, <2>12 DEF new, B
<1>4. \A k \in Nat : k \in Q
  <2> HIDE DEF Q
  <2> QED BY <1>2, <1>3, CountingUp
<1> QED BY <1>4

\* The fold of the rows of q.
Sweeps(iter, q) ==
  iter = [s \in SUBSET DOMAIN q |->
            IF s = {} THEN NoVerdicts ELSE WithVerdict(iter[s \ {Max(s)}], q[Max(s)])]

\* The sweep is a fold over the positions of the rows.
LEMMA SweepIsFold ==
  ASSUME NEW q
  PROVE  FoldLeft(WithVerdict, NoVerdicts, q) = (CHOOSE iter : Sweeps(iter, q))[DOMAIN q]
BY Zenon DEF FoldLeft, MapThenFoldSet, Sweeps

\* There is such a fold...
LEMMA SweepExists ==
  ASSUME NEW n \in Nat, NEW q \in [1 .. n -> VerdictRows]
  PROVE  \E iter : Sweeps(iter, q)
<1> DEFINE g == [p \in (1 .. n) \X Verdicts |-> WithVerdict(p[2], q[p[1]])]
<1>1. \A i \in 1 .. n, a \in Verdicts : g[<<i, a>>] = WithVerdict(a, q[i])
  OBVIOUS
<1>2. \A i \in 1 .. n, a \in Verdicts : WithVerdict(a, q[i]) \in Verdicts
  BY DEF WithVerdict, Verdicts, VerdictRows
<1>3. NoVerdicts \in Verdicts
  BY DEF NoVerdicts, Verdicts
<1>4. PICK iter : LeftFolds(iter, n, g, NoVerdicts) /\ iter \in [SUBSET (1 .. n) -> Verdicts]
  <2> HIDE DEF g
  <2>1. \A i \in 1 .. n, a \in Verdicts : g[<<i, a>>] \in Verdicts
    BY <1>1, <1>2
  <2> QED BY <1>3, <2>1, LeftFoldExists
<1>5. Sweeps(iter, q)
  <2> DEFINE Here(s) == IF s = {} THEN NoVerdicts ELSE g[<<Max(s), iter[s \ {Max(s)}]>>]
             There(s) == IF s = {} THEN NoVerdicts ELSE WithVerdict(iter[s \ {Max(s)}], q[Max(s)])
  <2>1. ASSUME NEW s \in SUBSET (1 .. n), s # {} PROVE Max(s) \in 1 .. n /\ iter[s \ {Max(s)}] \in Verdicts
    <3>1. s \in SUBSET (0 .. n)
      OBVIOUS
    <3>2. Max(s) \in s
      BY <2>1, <3>1, GreatestOf
    <3> QED BY <1>4, <3>2
  <2>2. \A s \in SUBSET (1 .. n) : Here(s) = There(s)
    <3> HIDE DEF g
    <3> QED BY <1>1, <2>1
  <2>3. [s \in SUBSET (1 .. n) |-> Here(s)] = [s \in SUBSET (1 .. n) |-> There(s)]
    <3> HIDE DEF Here, There
    <3> QED BY <2>2
  <2> QED BY <1>4, <2>3 DEF LeftFolds, Sweeps
<1> QED BY <1>5

\* ...so the sweep of a sequence counts those who passed last in it...
LEMMA SweepOf ==
  ASSUME NEW n \in Nat, NEW q \in [1 .. n -> VerdictRows]
  PROVE  FoldLeft(WithVerdict, NoVerdicts, q).passing = Cardinality(PassedBy(q, n))
<1>1. PICK iter : iter = CHOOSE h : Sweeps(h, q)
  OBVIOUS
<1>2. Sweeps(iter, q)
  BY <1>1, SweepExists, Zenon
<1>3. DOMAIN q = 1 .. n
  OBVIOUS
<1> DEFINE after == [k \in 0 .. n |-> iter[1 .. k]]
<1>4. after[0] = NoVerdicts
  <2>1. 1 .. 0 = {} /\ {} \in SUBSET (1 .. n)
    OBVIOUS
  <2> QED BY <1>2, <1>3, <2>1 DEF Sweeps
<1>5. ASSUME NEW k \in 1 .. n PROVE after[k] = WithVerdict(after[k - 1], q[k])
  <2>1. iter[1 .. k] = WithVerdict(iter[(1 .. k) \ {Max(1 .. k)}], q[Max(1 .. k)])
    BY <1>2, <1>3, FirstNumbers DEF Sweeps
  <2>2. iter[1 .. k] = WithVerdict(iter[1 .. (k - 1)], q[k])
    BY <2>1, FirstNumbers
  <2> QED BY <2>2
<1>6. after[n] = FoldLeft(WithVerdict, NoVerdicts, q)
  BY <1>1, <1>3, SweepIsFold
<1> HIDE DEF after
<1> QED BY <1>4, <1>5, <1>6, SweepCounts

\* ...and that of the stored rows the students whose newest row up to then is a pass.
LEMMA SweptIs ==
  ASSUME NEW rs, OneRowADay(rs), NEW x \in Nat
  PROVE  Swept(rs, x) = Cardinality(NewestPassed({r \in rs : r.for <= x + 1}))
<1> DEFINE due == {r \in rs : r.for <= x + 1}
           q == ByDate(due)
           n == Cardinality(due)
<1>1. OneRowADay(due)
  BY FS_Subset DEF OneRowADay
<1>2. IsFiniteSet(due) /\ n \in Nat /\ due \subseteq VerdictRows
  BY <1>1, FS_CardinalityType DEF OneRowADay
<1>3. Once(q, due) /\ \A i, j \in 1 .. n : i < j => q[i].for <= q[j].for
  BY <1>1, ByDateIs
<1>4. q \in [1 .. n -> VerdictRows]
  BY <1>2, <1>3 DEF Once
<1>5. Swept(rs, x) = FoldLeft(WithVerdict, NoVerdicts, q).passing
  BY Zenon DEF Swept, Until
<1>6. \A r \in due : \E i \in 1 .. n : q[i] = r
  <2> HIDE DEF q, due
  <2> QED BY <1>2, <1>3, OnceCovers
<1> HIDE DEF q, due, n
<1>7. PassedBy(q, n) = NewestPassed(due)
  <2>1. \A i \in 1 .. n : q[i] \in due /\ q[i].for \in Nat
    BY <1>2, <1>3 DEF Once, VerdictRows, n
  <2>2. \A i, j \in 1 .. n : q[i].for < q[j].for => i <= j
    BY <1>2, <1>3, <2>1
  <2>3. ASSUME NEW s \in PassedBy(q, n) PROVE s \in NewestPassed(due)
    <3>1. s \in Students
      BY DEF PassedBy
    <3>2. PICK i \in 1 .. n : /\ q[i].student = s /\ q[i].passed
                              /\ \A j \in 1 .. n : q[j].student = s => j <= i
      BY DEF PassedBy
    <3>3. ASSUME NEW o \in due, o.student = s PROVE o.for <= q[i].for
      <4>1. PICK j \in 1 .. n : q[j] = o
        BY <1>6
      <4>2. j <= i
        BY <3>2, <3>3, <4>1
      <4>3. j = i \/ j < i
        BY <1>2, <4>2
      <4> QED BY <1>3, <2>1, <4>1, <4>3
    <3> QED BY <2>1, <3>1, <3>2, <3>3 DEF NewestPassed
  <2>4. ASSUME NEW s \in NewestPassed(due) PROVE s \in PassedBy(q, n)
    <3>1. s \in Students
      BY DEF NewestPassed
    <3>2. PICK r \in due : r.student = s /\ r.passed /\ \A o \in due : o.student = s => o.for <= r.for
      BY DEF NewestPassed
    <3>3. PICK i \in 1 .. n : q[i] = r
      BY <1>6
    <3>4. ASSUME NEW j \in 1 .. n, q[j].student = s PROVE j <= i
      <4>1. q[j].for <= q[i].for
        BY <2>1, <3>2, <3>3, <3>4
      <4>2. CASE q[j].for < q[i].for
        BY <2>2, <4>2
      <4>3. CASE q[j].for = q[i].for
        <5>1. q[j] = q[i]
          BY <1>1, <2>1, <3>2, <3>3, <3>4, <4>3 DEF OneRowADay
        <5> QED BY <1>2, <1>3, <5>1 DEF Once, n
      <4> QED BY <2>1, <4>1, <4>2, <4>3
    <3> QED BY <3>1, <3>2, <3>3, <3>4 DEF PassedBy
  <2> QED BY <2>3, <2>4
<1>8. Swept(rs, x) = Cardinality(PassedBy(q, n))
  BY <1>2, <1>4, <1>5, SweepOf
<1> QED BY <1>7, <1>8 DEF due

-----------------------------------------------------------------------------
(* The day's copies.                                                       *)

\* One row of a student a day, until today; a night that is over is not of a day to come.
RowsOK ==
  /\ today \in 1 .. LastDay /\ OneRowADay(results) /\ \A r \in results : r.for <= today
  /\ nightsOver \in SUBSET (1 .. today)

\* A copy of the day d that has the figure of the night before it.
CopyCounts(c, d) == c # NoCopy /\ (d > 1 => c.passed[d - 1] = Cardinality(PassingAsOf(d)))

\* A computation that began after its day's night was over reads that night's verdicts.
FlightOK(f) ==
  /\ f = [day |-> f.day, after |-> f.after, warm |-> f.warm, read |-> f.read]
  /\ f.after \in BOOLEAN /\ f.warm \in BOOLEAN
  /\ f # NoFlight => f.day \in 1 .. today
  /\ f.after => f # NoFlight /\ f.day \in nightsOver
  /\ f.after /\ f.read # NoCopy => CopyCounts(f.read, f.day)

FlightsOK ==
  /\ flight = [p \in Processes |-> flight[p]] /\ copies = [d \in 1 .. LastDay |-> copies[d]]
  /\ \A p \in Processes : FlightOK(flight[p])

\* A day that was warmed after the night has its copy, or the warm job's computation
\* is under way, and whatever else is under way began after the night, too.
WarmedOK ==
  \A d \in warmed :
    /\ d \in nightsOver
    /\ \A p \in Processes : flight[p].day = d => flight[p].after
    /\ \/ CopyCounts(copies[d], d)
       \/ \E p \in Processes : flight[p].day = d /\ flight[p].warm

WarmInv == RowsOK /\ FlightsOK /\ WarmedOK

NoFlightIs ==
  NoFlight.day = 0 /\ NoFlight.after = FALSE /\ NoFlight.warm = FALSE /\ NoFlight.read = NoCopy

\* A process that computes nothing has no day, no read and no claim.
LEMMA NoFlightIsSo == NoFlightIs
BY DEF NoFlight, NoFlightIs

\* Nothing is warmed at the beginning.
LEMMA InitWarm == TractionInit => WarmInv
<1> SUFFICES ASSUME TractionInit PROVE WarmInv
  OBVIOUS
<1>1. RowsOK
  BY TractionAssumption, FS_EmptySet DEF TractionInit, RowsOK, OneRowADay
<1>2. FlightOK(NoFlight)
  BY DEF FlightOK, NoFlight
<1>3. FlightsOK
  BY <1>2 DEF TractionInit, FlightsOK
<1>4. WarmedOK
  BY DEF TractionInit, WarmedOK
<1> QED BY <1>1, <1>3, <1>4 DEF WarmInv

\* The figure of a night that is over, from the rows.
LEMMA FigureIs ==
  ASSUME RowsOK, NEW d \in nightsOver, d > 1
  PROVE  Swept(results, d - 1) = Cardinality(PassingAsOf(d))
<1>1. d \in Nat /\ d - 1 \in Nat /\ (d - 1) + 1 = d
  BY DEF RowsOK
<1>2. Swept(results, d - 1) = Cardinality(NewestPassed({r \in results : r.for <= d}))
  BY <1>1, SweptIs DEF RowsOK
<1>3. NewestPassed({r \in results : r.for <= d}) = PassingAsOf(d)
  BY DEF NewestPassed, PassingAsOf
<1> QED BY <1>2, <1>3

\* A step that leaves the figures, and lets no night be forgotten, leaves a flight as
\* it was in order.
FiguresStay == \A d \in nightsOver : PassingAsOf(d)' = PassingAsOf(d)

\* A computation under way stays sound when the figures of its nights stay.
LEMMA FlightStays ==
  ASSUME RowsOK, FiguresStay, nightsOver \subseteq nightsOver', today \in Nat, today' \in Nat,
         today <= today', NEW f, FlightOK(f)
  PROVE  FlightOK(f)'
<1>1. 1 .. today \subseteq 1 .. today'
  OBVIOUS
<1> QED BY <1>1 DEF FlightOK, FiguresStay, CopyCounts

\* So do the warmed copies, when nothing is computed or landed.
LEMMA WarmedStays ==
  ASSUME FiguresStay, WarmedOK, nightsOver \subseteq nightsOver', UNCHANGED <<flight, copies, warmed>>
  PROVE  WarmedOK'
BY DEF WarmedOK, FiguresStay, CopyCounts

\* The rows and the days after a step.
LEMMA DaysStep ==
  ASSUME WarmInv, [TractionNext]_tractionVars
  PROVE  RowsOK' /\ FiguresStay /\ nightsOver \subseteq nightsOver' /\ today <= today'
<1>1. RowsOK
  BY DEF WarmInv
<1>2. ASSUME UNCHANGED <<today, results, nightsOver>>
      PROVE  RowsOK' /\ FiguresStay /\ nightsOver \subseteq nightsOver' /\ today <= today'
  <2>1. \A d : PassingAsOf(d)' = PassingAsOf(d)
    BY <1>2 DEF PassingAsOf
  <2> QED BY <1>1, <1>2, <2>1 DEF RowsOK, OneRowADay, FiguresStay
<1>3. CASE NextDay
  <2>1. \A d : PassingAsOf(d)' = PassingAsOf(d)
    BY <1>3 DEF NextDay, PassingAsOf
  <2>2. today' \in 1 .. LastDay /\ today' = today + 1 /\ today \in Nat
    BY <1>1, <1>3, TractionAssumption DEF NextDay, RowsOK
  <2>3. results' = results /\ nightsOver' = nightsOver
    BY <1>3 DEF NextDay
  <2>4. \A r \in results : r.for <= today'
    BY <1>1, <2>2 DEF RowsOK, OneRowADay, VerdictRows
  <2>5. nightsOver \in SUBSET (1 .. today')
    BY <1>1, <2>2 DEF RowsOK
  <2> QED BY <1>1, <2>1, <2>2, <2>3, <2>4, <2>5 DEF RowsOK, OneRowADay, FiguresStay
<1>4. CASE EndNight
  <2>1. \A d : PassingAsOf(d)' = PassingAsOf(d)
    BY <1>4 DEF EndNight, PassingAsOf
  <2>2. today \in 1 .. today
    BY <1>1 DEF RowsOK
  <2> QED BY <1>1, <1>4, <2>1, <2>2 DEF EndNight, RowsOK, OneRowADay, FiguresStay
<1>5. ASSUME NEW s \in Students, StoreResult(s)
      PROVE  RowsOK' /\ FiguresStay /\ nightsOver \subseteq nightsOver' /\ today <= today'
  <2>1. PICK passed \in BOOLEAN :
          results' = results \cup {[student |-> s, for |-> today, passed |-> passed]}
    BY <1>5 DEF StoreResult
  <2> DEFINE new == [student |-> s, for |-> today, passed |-> passed]
  <2>2. /\ today \notin nightsOver /\ UNCHANGED <<today, nightsOver>>
        /\ \A r \in results : r.student = s => r.for # today
    BY <1>5 DEF StoreResult
  <2>3. today \in Nat /\ today <= today
    BY <1>1 DEF RowsOK
  <2>4. new \in VerdictRows /\ new.student = s /\ new.for = today
    BY <2>3 DEF VerdictRows
  <2> HIDE DEF new
  <2>5. results' = results \cup {new}
    BY <2>1 DEF new
  <2>6. OneRowADay(results)'
    <3>1. IsFiniteSet(results \cup {new})
      BY <1>1, FS_AddElement DEF RowsOK, OneRowADay
    <3> QED BY <1>1, <2>2, <2>4, <2>5, <3>1 DEF RowsOK, OneRowADay
  <2>7. \A r \in results' : r.for <= today'
    BY <1>1, <2>2, <2>3, <2>4, <2>5 DEF RowsOK
  <2>8. RowsOK'
    BY <1>1, <2>2, <2>6, <2>7 DEF RowsOK
  <2>9. ASSUME NEW d \in nightsOver PROVE PassingAsOf(d)' = PassingAsOf(d)
    <3>1. d < today
      BY <1>1, <2>2 DEF RowsOK
    <3>2. ~(new.for <= d)
      BY <2>3, <2>4, <3>1, <1>1 DEF RowsOK
    <3>3. \A r : r \in results' /\ r.for <= d <=> r \in results /\ r.for <= d
      BY <2>5, <3>2
    <3>4. ASSUME NEW s1 \in Students PROVE s1 \in PassingAsOf(d)' <=> s1 \in PassingAsOf(d)
      BY <3>3 DEF PassingAsOf
    <3> QED BY <3>4 DEF PassingAsOf
  <2> QED BY <2>2, <2>3, <2>8, <2>9 DEF FiguresStay
<1>6. ASSUME NEW s \in Students, Onboard(s) PROVE UNCHANGED <<today, results, nightsOver>>
  BY <1>6 DEF Onboard
<1>7. ASSUME NEW p \in Processes, Visit(p) \/ Warm(p) \/ ReadInputs(p) \/ Land(p) \/ Crash(p)
      PROVE  UNCHANGED <<today, results, nightsOver>>
  BY <1>7 DEF Visit, Warm, ReadInputs, Land, Crash
<1>8. CASE UNCHANGED tractionVars
  BY <1>2, <1>8 DEF tractionVars
<1> QED BY <1>2, <1>3, <1>4, <1>5, <1>6, <1>7, <1>8 DEF TractionNext

\* A flight that is where it was stays in order.
LEMMA OtherFlights ==
  ASSUME WarmInv, [TractionNext]_tractionVars, NEW p \in Processes, flight'[p] = flight[p]
  PROVE  FlightOK(flight[p])'
<1>1. PICK f : f = flight[p]
  OBVIOUS
<1>2. FlightOK(f)
  BY <1>1 DEF WarmInv, FlightsOK
<1>3. today \in Nat /\ today' \in Nat
  BY DaysStep DEF WarmInv, RowsOK
<1>4. FlightOK(f)'
  BY <1>2, <1>3, DaysStep, FlightStays DEF WarmInv
<1> QED BY <1>1, <1>4 DEF FlightOK, CopyCounts

\* What is asked of a process, for a visitor or by the warm job.
LEMMA SharedFlight ==
  ASSUME WarmInv, NEW p \in Processes, NEW warm \in BOOLEAN, NEW f, f = Shared(p, warm)
  PROVE  /\ FlightOK(f) /\ f # NoFlight /\ (warm => f.warm)
         /\ flight[p] = NoFlight => f.day = today /\ (f.after <=> today \in nightsOver)
         /\ flight[p] # NoFlight => /\ f.day = flight[p].day /\ f.after = flight[p].after
                                    /\ (flight[p].warm => f.warm)
<1>1. FlightOK(flight[p]) /\ RowsOK
  BY DEF WarmInv, FlightsOK
<1>2. CASE flight[p] = NoFlight
  <2>1. f = [day |-> today, after |-> today \in nightsOver, warm |-> warm, read |-> NoCopy]
    BY <1>2 DEF Shared, NoFlight
  <2>2. today \in 1 .. today /\ today # 0 /\ (today \in nightsOver) \in BOOLEAN
    BY <1>1 DEF RowsOK
  <2>3. /\ f.day = today /\ (f.after <=> today \in nightsOver) /\ f.after \in BOOLEAN
        /\ f.warm = warm /\ f.read = NoCopy
    <3>1. PICK b \in BOOLEAN : b <=> today \in nightsOver
      OBVIOUS
    <3>2. f = [day |-> today, after |-> b, warm |-> warm, read |-> NoCopy]
      <4>1. b = (today \in nightsOver)
        BY <3>1
      <4> QED BY <2>1, <4>1
    <3> QED BY <3>1, <3>2
  <2>4. f # NoFlight
    BY <2>2, <2>3, NoFlightIsSo DEF NoFlightIs
  <2> QED BY <1>2, <2>1, <2>2, <2>3, <2>4 DEF FlightOK
<1>3. CASE flight[p] # NoFlight
  <2>1. f = [flight[p] EXCEPT !.warm = flight[p].warm \/ warm]
    BY <1>3 DEF Shared
  <2>2. /\ f = [day |-> f.day, after |-> f.after, warm |-> f.warm, read |-> f.read]
        /\ f.day = flight[p].day /\ f.after = flight[p].after /\ f.read = flight[p].read
        /\ f.warm = (flight[p].warm \/ warm)
    BY <1>1, <2>1 DEF FlightOK
  <2>3. flight[p].day \in 1 .. today
    BY <1>1, <1>3 DEF FlightOK
  <2>4. f # NoFlight
    BY <1>1, <2>2, <2>3, NoFlightIsSo DEF NoFlightIs, RowsOK
  <2> QED BY <1>1, <1>3, <2>2, <2>3, <2>4 DEF FlightOK
<1> QED BY <1>2, <1>3

\* A step that touches the flight of one process, and whether its day is warmed.
LEMMA OneFlight ==
  ASSUME WarmInv, [TractionNext]_tractionVars, NEW p \in Processes, NEW g,
         flight' = [flight EXCEPT ![p] = g], FlightOK(g)', copies' = [d \in 1 .. LastDay |-> copies'[d]]
  PROVE  FlightsOK'
<1>1. flight = [q \in Processes |-> flight[q]]
  BY DEF WarmInv, FlightsOK
<1>2. flight' = [q \in Processes |-> IF q = p THEN g ELSE flight[q]]
  BY <1>1
<1>3. flight'[p] = g /\ \A q \in Processes : q # p => flight'[q] = flight[q]
  BY <1>2
<1>4. \A q \in Processes : q # p => FlightOK(flight[q])'
  BY <1>3, OtherFlights
<1>5. FlightOK(flight[p])'
  BY <1>3 DEF FlightOK, CopyCounts
<1>6. flight' = [q \in Processes |-> flight'[q]]
  BY <1>2
<1> QED BY <1>4, <1>5, <1>6 DEF FlightsOK

\* A visit joins the computation its process is at, or begins one.
LEMMA VisitKeeps ==
  ASSUME WarmInv, [TractionNext]_tractionVars, NEW p \in Processes, Visit(p)
  PROVE  WarmInv'
<1>1. PICK g : g = Shared(p, FALSE)
  OBVIOUS
<1>2. /\ FlightOK(g) /\ g # NoFlight
      /\ flight[p] = NoFlight => g.day = today /\ (g.after <=> today \in nightsOver)
      /\ flight[p] # NoFlight => /\ g.day = flight[p].day /\ g.after = flight[p].after
                                 /\ (flight[p].warm => g.warm)
  <2>1. FALSE \in BOOLEAN
    OBVIOUS
  <2> QED BY <1>1, <2>1, SharedFlight
<1>3. flight' = [flight EXCEPT ![p] = g] /\ UNCHANGED <<today, results, nightsOver, copies, warmed>>
  BY <1>1 DEF Visit
<1>4. RowsOK' /\ FiguresStay
  BY DaysStep
<1>5. FlightOK(g)'
  <2>1. today \in Nat /\ today' \in Nat
    BY <1>3 DEF WarmInv, RowsOK
  <2> QED BY <1>2, <2>1, DaysStep, FlightStays DEF WarmInv
<1>6. FlightsOK'
  <2>1. copies' = [d \in 1 .. LastDay |-> copies'[d]]
    BY <1>3 DEF WarmInv, FlightsOK
  <2> QED BY <1>3, <1>5, <2>1, OneFlight
<1>7. \A q \in Processes : flight'[q] = IF q = p THEN g ELSE flight[q]
  BY <1>3 DEF WarmInv, FlightsOK
<1>8. WarmedOK'
  <2> SUFFICES ASSUME NEW d \in warmed
               PROVE  /\ d \in nightsOver
                      /\ \A q \in Processes : flight'[q].day = d => flight'[q].after
                      /\ \/ CopyCounts(copies[d], d)
                         \/ \E q \in Processes : flight'[q].day = d /\ flight'[q].warm
    BY <1>3, <1>4 DEF WarmedOK, CopyCounts, FiguresStay, WarmInv
  <2>1. /\ d \in nightsOver
        /\ \A q \in Processes : flight[q].day = d => flight[q].after
        /\ \/ CopyCounts(copies[d], d)
           \/ \E q \in Processes : flight[q].day = d /\ flight[q].warm
    BY DEF WarmInv, WarmedOK
  <2>2. d # 0
    BY <2>1 DEF WarmInv, RowsOK
  <2>3. flight[p].day = d => g.day = d /\ (flight[p].warm => g.warm)
    BY <1>2, <2>2, NoFlightIsSo DEF NoFlightIs
  <2>4. g.day = d => g.after
    BY <1>2, <2>1
  <2> QED BY <1>7, <2>1, <2>3, <2>4
<1> QED BY <1>4, <1>6, <1>8 DEF WarmInv

\* The warm job does the same, and claims the night before if it is over.
LEMMA WarmKeeps ==
  ASSUME WarmInv, [TractionNext]_tractionVars, NEW p \in Processes, Warm(p)
  PROVE  WarmInv'
<1>1. PICK g : g = Shared(p, TRUE)
  OBVIOUS
<1>2. /\ FlightOK(g) /\ g # NoFlight /\ g.warm
      /\ flight[p] = NoFlight => g.day = today /\ (g.after <=> today \in nightsOver)
      /\ flight[p] # NoFlight => g.day = flight[p].day /\ g.after = flight[p].after
  <2>1. TRUE \in BOOLEAN
    OBVIOUS
  <2> QED BY <1>1, <2>1, SharedFlight
<1>3. flight' = [flight EXCEPT ![p] = g] /\ UNCHANGED <<today, results, nightsOver, copies>>
  BY <1>1 DEF Warm, Refresh
<1>4. \A d \in warmed' : d \in warmed \/ /\ d = today /\ today \in nightsOver
                                         /\ \A q \in Processes :
                                              flight[q] = NoFlight \/ (flight[q].day = today /\ flight[q].after)
  BY DEF Warm
<1>5. RowsOK' /\ FiguresStay
  BY DaysStep
<1>6. FlightOK(g)'
  <2>1. today \in Nat /\ today' \in Nat
    BY <1>3 DEF WarmInv, RowsOK
  <2> QED BY <1>2, <2>1, DaysStep, FlightStays DEF WarmInv
<1>7. FlightsOK'
  <2>1. copies' = [d \in 1 .. LastDay |-> copies'[d]]
    BY <1>3 DEF WarmInv, FlightsOK
  <2> QED BY <1>3, <1>6, <2>1, OneFlight
<1>8. \A q \in Processes : flight'[q] = IF q = p THEN g ELSE flight[q]
  BY <1>3 DEF WarmInv, FlightsOK
<1>9. WarmedOK'
  <2> SUFFICES ASSUME NEW d, d \in warmed'
               PROVE  /\ d \in nightsOver
                      /\ \A q \in Processes : flight'[q].day = d => flight'[q].after
                      /\ \/ CopyCounts(copies[d], d)
                         \/ \E q \in Processes : flight'[q].day = d /\ flight'[q].warm
    <3>1. \A d \in nightsOver : CopyCounts(copies[d], d) => CopyCounts(copies[d], d)'
      BY <1>3, <1>5 DEF CopyCounts, FiguresStay
    <3> QED BY <1>3, <3>1 DEF WarmedOK, CopyCounts, FiguresStay
  <2>1. CASE d \in warmed
    <3>1. /\ d \in nightsOver
          /\ \A q \in Processes : flight[q].day = d => flight[q].after
          /\ \/ CopyCounts(copies[d], d)
             \/ \E q \in Processes : flight[q].day = d /\ flight[q].warm
      BY <2>1 DEF WarmInv, WarmedOK
    <3>2. d # 0
      BY <3>1 DEF WarmInv, RowsOK
    <3>3. flight[p].day = d => g.day = d
      BY <1>2, <3>2, NoFlightIsSo DEF NoFlightIs
    <3>4. g.day = d => g.after
      BY <1>2, <3>1
    <3> QED BY <1>2, <1>8, <3>1, <3>3, <3>4
  <2>2. CASE d \notin warmed
    <3>1. /\ d = today /\ today \in nightsOver
          /\ \A q \in Processes : flight[q] = NoFlight \/ (flight[q].day = today /\ flight[q].after)
      BY <1>4, <2>2
    <3>2. d # 0
      BY <3>1 DEF WarmInv, RowsOK
    <3>3. g.day = d /\ g.after
      BY <1>2, <3>1
    <3>4. \A q \in Processes : flight[q].day = d => flight[q].after
      BY <3>1, <3>2, NoFlightIsSo DEF NoFlightIs
    <3> QED BY <1>2, <1>8, <3>1, <3>3, <3>4
  <2> QED BY <2>1, <2>2
<1> QED BY <1>5, <1>7, <1>9 DEF WarmInv

\* The queries read the rows of their moment.
LEMMA ReadKeeps ==
  ASSUME WarmInv, [TractionNext]_tractionVars, NEW p \in Processes, ReadInputs(p)
  PROVE  WarmInv'
<1>1. PICK f : f = flight[p]
  OBVIOUS
<1>2. PICK g : g = [f EXCEPT !.read = Series(results, joined, f.day)]
  OBVIOUS
<1>3. /\ flight' = [flight EXCEPT ![p] = g] /\ f # NoFlight
      /\ UNCHANGED <<today, results, nightsOver, copies, warmed>>
  BY <1>1, <1>2 DEF ReadInputs
<1>4. FlightOK(f) /\ RowsOK
  BY <1>1 DEF WarmInv, FlightsOK
<1>5. RowsOK' /\ FiguresStay
  BY DaysStep
<1>6. /\ g = [day |-> g.day, after |-> g.after, warm |-> g.warm, read |-> g.read]
      /\ g.day = f.day /\ g.after = f.after /\ g.warm = f.warm
      /\ g.read = Series(results, joined, f.day)
  BY <1>2, <1>4 DEF FlightOK
<1>7. ASSUME g.after, g.read # NoCopy PROVE CopyCounts(g.read, g.day)
  <2>1. f.day \in nightsOver /\ f.day \in Nat
    BY <1>4, <1>6, <1>7 DEF FlightOK, RowsOK
  <2>2. ASSUME f.day > 1 PROVE g.read.passed[f.day - 1] = Cardinality(PassingAsOf(f.day))
    <3>1. g.read.passed = [x \in 1 .. f.day - 1 |-> Swept(results, x)]
      BY <1>6 DEF Series
    <3>2. f.day - 1 \in 1 .. f.day - 1
      BY <2>1, <2>2
    <3> QED BY <1>4, <2>1, <2>2, <3>1, <3>2, FigureIs
  <2> QED BY <1>6, <1>7, <2>2 DEF CopyCounts
<1>8. FlightOK(g)
  <2>1. g # NoFlight
    BY <1>3, <1>4, <1>6, NoFlightIsSo DEF NoFlightIs, FlightOK, RowsOK
  <2> QED BY <1>3, <1>4, <1>6, <1>7, <2>1 DEF FlightOK
<1>9. FlightOK(g)'
  <2>1. today \in Nat /\ today' \in Nat
    BY <1>3, <1>4 DEF RowsOK
  <2> QED BY <1>4, <1>8, <2>1, DaysStep, FlightStays
<1>10. FlightsOK'
  <2>1. copies' = [d \in 1 .. LastDay |-> copies'[d]]
    BY <1>3 DEF WarmInv, FlightsOK
  <2> QED BY <1>3, <1>9, <2>1, OneFlight
<1>11. \A q \in Processes : flight'[q] = IF q = p THEN g ELSE flight[q]
  BY <1>3 DEF WarmInv, FlightsOK
<1>12. \A q \in Processes : /\ flight'[q].day = flight[q].day /\ flight'[q].after = flight[q].after
                            /\ flight'[q].warm = flight[q].warm
  BY <1>1, <1>6, <1>11
<1>13. WarmedOK'
  BY <1>3, <1>5, <1>12 DEF WarmInv, WarmedOK, CopyCounts, FiguresStay
<1> QED BY <1>5, <1>10, <1>13 DEF WarmInv

\* What lands is what was read.
LEMMA LandKeeps ==
  ASSUME WarmInv, [TractionNext]_tractionVars, NEW p \in Processes, Land(p)
  PROVE  WarmInv'
<1>1. PICK f : f = flight[p]
  OBVIOUS
<1>2. /\ f.read # NoCopy /\ copies' = [copies EXCEPT ![f.day] = f.read]
      /\ flight' = [flight EXCEPT ![p] = NoFlight]
      /\ UNCHANGED <<today, results, nightsOver, warmed>>
  BY <1>1 DEF Land
<1>3. FlightOK(f) /\ RowsOK /\ WarmedOK
  BY <1>1 DEF WarmInv, FlightsOK
<1>4. RowsOK' /\ FiguresStay
  BY DaysStep
<1>5. FlightOK(NoFlight)'
  BY NoFlightIsSo DEF FlightOK, NoFlight, NoFlightIs
<1>6. copies' = [d \in 1 .. LastDay |-> IF d = f.day THEN f.read ELSE copies[d]]
  BY <1>2 DEF WarmInv, FlightsOK
<1>7. FlightsOK'
  <2>1. copies' = [d \in 1 .. LastDay |-> copies'[d]]
    BY <1>6
  <2> QED BY <1>2, <1>5, <2>1, OneFlight
<1>8. \A q \in Processes : flight'[q] = IF q = p THEN NoFlight ELSE flight[q]
  BY <1>2 DEF WarmInv, FlightsOK
<1>9. WarmedOK'
  <2> SUFFICES ASSUME NEW d, d \in warmed
               PROVE  /\ d \in nightsOver
                      /\ \A q \in Processes : flight'[q].day = d => flight'[q].after
                      /\ \/ CopyCounts(copies'[d], d)
                         \/ \E q \in Processes : flight'[q].day = d /\ flight'[q].warm
    <3>1. \A d \in nightsOver : CopyCounts(copies'[d], d) => CopyCounts(copies[d], d)'
      BY <1>4 DEF CopyCounts, FiguresStay
    <3> QED BY <1>2, <3>1 DEF WarmedOK, FiguresStay
  <2>1. /\ d \in nightsOver
        /\ \A q \in Processes : flight[q].day = d => flight[q].after
        /\ \/ CopyCounts(copies[d], d)
           \/ \E q \in Processes : flight[q].day = d /\ flight[q].warm
    BY <1>3 DEF WarmedOK
  <2>2. d # 0 /\ d \in 1 .. LastDay
    BY <1>3, <2>1, TractionAssumption DEF RowsOK
  <2>3. \A q \in Processes : flight'[q].day = d => flight'[q].after
    BY <1>8, <2>1, <2>2, NoFlightIsSo DEF NoFlightIs
  <2>4. CASE f.day = d
    <3>1. CopyCounts(f.read, d)
      BY <1>1, <1>2, <1>3, <2>1, <2>4 DEF FlightOK
    <3>2. copies'[d] = f.read
      BY <1>6, <2>2, <2>4
    <3> QED BY <2>1, <2>3, <3>1, <3>2
  <2>5. CASE f.day # d
    <3>1. copies'[d] = copies[d]
      BY <1>6, <2>2, <2>5
    <3>2. \A q \in Processes : flight[q].day = d => flight'[q] = flight[q]
      BY <1>1, <1>8, <2>5
    <3> QED BY <2>1, <2>3, <3>1, <3>2
  <2> QED BY <2>4, <2>5
<1> QED BY <1>4, <1>7, <1>9 DEF WarmInv

\* A failure takes the computation's claim with it.
LEMMA CrashKeeps ==
  ASSUME WarmInv, [TractionNext]_tractionVars, NEW p \in Processes, Crash(p)
  PROVE  WarmInv'
<1>1. PICK f : f = flight[p]
  OBVIOUS
<1>2. /\ flight' = [flight EXCEPT ![p] = NoFlight]
      /\ warmed' = IF f.warm THEN warmed \ {f.day} ELSE warmed
      /\ UNCHANGED <<today, results, nightsOver, copies>>
  BY <1>1 DEF Crash
<1>3. RowsOK /\ WarmedOK /\ RowsOK' /\ FiguresStay
  BY DaysStep DEF WarmInv
<1>4. FlightOK(NoFlight)'
  BY NoFlightIsSo DEF FlightOK, NoFlight, NoFlightIs
<1>5. FlightsOK'
  <2>1. copies' = [d \in 1 .. LastDay |-> copies'[d]]
    BY <1>2 DEF WarmInv, FlightsOK
  <2> QED BY <1>2, <1>4, <2>1, OneFlight
<1>6. \A q \in Processes : flight'[q] = IF q = p THEN NoFlight ELSE flight[q]
  BY <1>2 DEF WarmInv, FlightsOK
<1>7. WarmedOK'
  <2> SUFFICES ASSUME NEW d, d \in warmed'
               PROVE  /\ d \in nightsOver
                      /\ \A q \in Processes : flight'[q].day = d => flight'[q].after
                      /\ \/ CopyCounts(copies[d], d)
                         \/ \E q \in Processes : flight'[q].day = d /\ flight'[q].warm
    <3>1. \A d \in nightsOver : CopyCounts(copies[d], d) => CopyCounts(copies[d], d)'
      BY <1>2, <1>3 DEF CopyCounts, FiguresStay
    <3> QED BY <1>2, <3>1 DEF WarmedOK, FiguresStay
  <2>1. d \in warmed /\ (f.warm => f.day # d)
    BY <1>2
  <2>2. /\ d \in nightsOver
        /\ \A q \in Processes : flight[q].day = d => flight[q].after
        /\ \/ CopyCounts(copies[d], d)
           \/ \E q \in Processes : flight[q].day = d /\ flight[q].warm
    BY <1>3, <2>1 DEF WarmedOK
  <2>3. d # 0
    BY <1>3, <2>2 DEF RowsOK
  <2>4. \A q \in Processes : flight[q].day = d /\ flight[q].warm => flight'[q] = flight[q]
    BY <1>1, <1>6, <2>1
  <2>5. \A q \in Processes : flight'[q].day = d => flight'[q].after
    BY <1>6, <2>2, <2>3, NoFlightIsSo DEF NoFlightIs
  <2> QED BY <2>2, <2>4, <2>5
<1> QED BY <1>3, <1>5, <1>7 DEF WarmInv

\* Every step keeps the invariant...
LEMMA StepWarm == WarmInv /\ [TractionNext]_tractionVars => WarmInv'
<1> SUFFICES ASSUME WarmInv, [TractionNext]_tractionVars PROVE WarmInv'
  OBVIOUS
<1>1. ASSUME UNCHANGED <<flight, copies, warmed>> PROVE WarmInv'
  <2>1. \A p \in Processes : FlightOK(flight[p])'
    BY <1>1, OtherFlights
  <2>2. FlightsOK'
    BY <1>1, <2>1 DEF WarmInv, FlightsOK
  <2> QED BY <1>1, <2>2, DaysStep, WarmedStays DEF WarmInv
<1>2. CASE NextDay \/ EndNight
  BY <1>1, <1>2 DEF NextDay, EndNight
<1>3. ASSUME NEW s \in Students, Onboard(s) \/ StoreResult(s) PROVE WarmInv'
  BY <1>1, <1>3 DEF Onboard, StoreResult
<1>4. ASSUME NEW p \in Processes, Visit(p) \/ Warm(p) \/ ReadInputs(p) \/ Land(p) \/ Crash(p)
      PROVE  WarmInv'
  BY <1>4, VisitKeeps, WarmKeeps, ReadKeeps, LandKeeps, CrashKeeps
<1>5. CASE UNCHANGED tractionVars
  BY <1>1, <1>5 DEF tractionVars
<1> QED BY <1>2, <1>3, <1>4, <1>5 DEF TractionNext

\* So it always holds.
LEMMA WarmInvHolds == TractionSpec => []WarmInv
BY InitWarm, StepWarm, PTL DEF TractionSpec

\* ...so whoever computes, lands, fails or is visited, a day that was warmed has a copy
\* with the verdicts of its night.  (TractionService)
THEOREM WarmedCopiesCountTheNight == TractionSpec => []WarmedWithTheNight
<1>1. ASSUME WarmInv PROVE WarmedWithTheNight
  <2> SUFFICES ASSUME NEW d \in warmed, \A p \in Processes : flight[p].day # d, d > 1
               PROVE  copies[d] # NoCopy /\ copies[d].passed[d - 1] = Cardinality(PassingAsOf(d))
    BY DEF WarmedWithTheNight
  <2>1. CopyCounts(copies[d], d)
    BY <1>1 DEF WarmInv, WarmedOK
  <2> QED BY <2>1 DEF CopyCounts
<1> QED BY <1>1, WarmInvHolds, PTL

-----------------------------------------------------------------------------
(* The marks.  Over the days on which every turn ends before the next one    *)
(* comes, the sums grow by one gap at a time, and no gap spans two marks.    *)

\* A voice note or a tap.
Event == [at : 0 .. LastMoment, tap : BOOLEAN, done : 0 .. LastMoment,
          fate : {"open", "late", "answered", "undone", "failed"}]

\* What lies between two moments of a day is of that day.
LEMMA DayBetween ==
  ASSUME NEW p \in Nat, NEW q \in Nat, NEW x \in Nat, p <= q, q <= x
  PROVE  /\ DayOf(p) <= DayOf(q) /\ DayOf(q) <= DayOf(x)
         /\ DayOf(p) \in Nat /\ DayOf(q) \in Nat /\ DayOf(x) \in Nat
         /\ DayOf(p) = DayOf(x) => DayOf(q) = DayOf(x)
<1>1. DayLength \in Nat /\ DayLength > 0
  BY UsageAssumption
<1>2. DayOf(p) <= DayOf(q) /\ DayOf(q) <= DayOf(x) /\ DayOf(p) \in Nat /\ DayOf(q) \in Nat /\ DayOf(x) \in Nat
  BY <1>1, SMTT(30) DEF DayOf
<1> QED BY <1>2

\* The moments of the day before an event.
Near(e, es) == {p.at : p \in {q \in es : q.at < e.at /\ DayOf(q.at) = DayOf(e.at)}}

\* A gap is one to the last of them.
LEMMA GapNear ==
  ASSUME NEW es \in SUBSET Event, NEW e \in Event
  PROVE  /\ GapOfDay(e, es) =
              IF Near(e, es) # {} /\ Counted(e.at - Max(Near(e, es)), e.tap)
              THEN e.at - Max(Near(e, es)) ELSE 0
         /\ GapOfDay(e, es) \in Nat
         /\ GapOfDay(e, es) = 0 \/ GapOfDay(e, es) < TapAllowance
<1> DEFINE earlier == {p \in es : p.at < e.at}
           E == {p.at : p \in earlier}
           N == Near(e, es)
<1>1. LastMoment \in Nat /\ e.at \in 0 .. LastMoment /\ \A p \in es : p.at \in 0 .. LastMoment
  BY UsageAssumption DEF Event
<1>2. GapOfDay(e, es) =
        IF earlier # {} /\ DayOf(Max(E)) = DayOf(e.at) /\ Counted(e.at - Max(E), e.tap)
        THEN e.at - Max(E) ELSE 0
  BY DEF GapOfDay
<1>3. E \in SUBSET (0 .. LastMoment) /\ \A x \in E : x < e.at
  BY <1>1
<1>4. N = {x \in E : DayOf(x) = DayOf(e.at)}
  BY DEF Near
<1>5. earlier # {} <=> E # {}
  OBVIOUS
<1> HIDE DEF earlier, E, N
<1>6. CASE E = {}
  BY <1>2, <1>4, <1>5, <1>6 DEF N
<1>7. CASE E # {}
  <2>1. PICK prev : prev = Max(E)
    OBVIOUS
  <2>2. prev \in E /\ \A x \in E : prev >= x
    BY <1>1, <1>3, <1>7, <2>1, GreatestOf
  <2>3. prev \in 0 .. LastMoment /\ prev < e.at
    BY <1>3, <2>2
  <2>4. /\ e.at - prev \in Nat
        /\ Counted(e.at - prev, e.tap) => e.at - prev < TapAllowance
    BY <1>1, <2>3, UsageAssumption DEF Counted
  <2>5. /\ GapOfDay(e, es) = IF DayOf(prev) = DayOf(e.at) /\ Counted(e.at - prev, e.tap)
                             THEN e.at - prev ELSE 0
        /\ GapOfDay(e, es) \in Nat
        /\ GapOfDay(e, es) = 0 \/ GapOfDay(e, es) < TapAllowance
    BY <1>2, <1>5, <1>7, <2>1, <2>4
  <2>6. CASE N = {}
    BY <1>4, <2>2, <2>5, <2>6 DEF N
  <2>7. CASE N # {}
    <3>1. PICK x : x = Max(N)
      OBVIOUS
    <3>2. x \in N /\ \A y \in N : x >= y
      <4>1. N \in SUBSET (0 .. LastMoment)
        BY <1>3, <1>4
      <4> QED BY <1>1, <2>7, <3>1, <4>1, GreatestOf
    <3>3. x \in E /\ DayOf(x) = DayOf(e.at) /\ x \in 0 .. LastMoment /\ prev >= x
      BY <1>3, <1>4, <2>2, <3>2
    <3>4. DayOf(prev) = DayOf(e.at)
      BY <1>1, <2>3, <3>3, DayBetween
    <3>5. prev = x
      BY <1>4, <2>2, <2>3, <3>2, <3>3, <3>4
    <3> QED BY <2>5, <2>7, <3>1, <3>4, <3>5 DEF N
  <2> QED BY <2>6, <2>7
<1> QED BY <1>6, <1>7

\* So it is the same among events that differ on other days, or later.
LEMMA GapLocal ==
  ASSUME NEW es \in SUBSET Event, NEW fs \in SUBSET Event, NEW e \in Event, NEW f \in Event,
         e.at = f.at, e.tap = f.tap, Near(e, es) = Near(f, fs)
  PROVE  GapOfDay(e, es) = GapOfDay(f, fs)
<1>1. PICK x, y, N : x = GapOfDay(e, es) /\ y = GapOfDay(f, fs) /\ N = Near(e, es)
  OBVIOUS
<1>2. /\ x = IF N # {} /\ Counted(e.at - Max(N), e.tap) THEN e.at - Max(N) ELSE 0
      /\ y = IF N # {} /\ Counted(e.at - Max(N), e.tap) THEN e.at - Max(N) ELSE 0
  BY <1>1, GapNear
<1> QED BY <1>1, <1>2

\* The sum of the gaps of some events among others.
SumIn(T, es) == MapThenSumSet(LAMBDA e : GapOfDay(e, es), T)

OfDay(es, d) == {e \in es : DayOf(e.at) = d}

\* The sums of a day and of all days are such sums.
LEMMA SumsAre ==
  ASSUME NEW es, NEW d
  PROVE  DayActive(es, d) = SumIn(OfDay(es, d), es) /\ TotalActive(es) = SumIn(es, es)
BY DEF DayActive, TotalActive, SumIn, OfDay

GapsAdd(iter, T, es) ==
  iter = [s \in SUBSET T |->
            IF s = {} THEN 0 ELSE GapOfDay(AnyOf(s), es) + iter[s \ {AnyOf(s)}]]

\* It is a fold...
LEMMA SumInIsFold ==
  ASSUME NEW T, NEW es
  PROVE  SumIn(T, es) = (CHOOSE iter : GapsAdd(iter, T, es))[T]
BY Zenon DEF SumIn, MapThenSumSet, MapThenFoldSet, GapsAdd, AnyOf

\* ...and so a sum.
LEMMA SumInIs ==
  ASSUME NEW es \in SUBSET Event, NEW T \in SUBSET Event, IsFiniteSet(T)
  PROVE  SumIn(T, es) = SumOf([e \in T |-> GapOfDay(e, es)], T)
<1> DEFINE f == [e \in T |-> GapOfDay(e, es)]
<1>1. \A e \in T : f[e] = GapOfDay(e, es) /\ f[e] \in Int
  BY GapNear
<1>2. ASSUME NEW iter PROVE Adds(iter, f, T) <=> GapsAdd(iter, T, es)
  <2> DEFINE Here(s) == IF s = {} THEN 0 ELSE f[AnyOf(s)] + iter[s \ {AnyOf(s)}]
             There(s) == IF s = {} THEN 0 ELSE GapOfDay(AnyOf(s), es) + iter[s \ {AnyOf(s)}]
  <2>1. \A s \in SUBSET T : Here(s) = There(s)
    <3> HIDE DEF f
    <3> QED BY <1>1, AnyOfIsOne
  <2>2. [s \in SUBSET T |-> Here(s)] = [s \in SUBSET T |-> There(s)]
    <3> HIDE DEF Here, There
    <3> QED BY <2>1
  <2> QED BY <2>2 DEF Adds, GapsAdd
<1> HIDE DEF f
<1>3. PICK iter \in [SUBSET T -> Int] : Adds(iter, f, T)
  BY <1>1, AddsExist
<1>4. PICK h : h = CHOOSE k : GapsAdd(k, T, es)
  OBVIOUS
<1>5. GapsAdd(h, T, es)
  BY <1>2, <1>3, <1>4, Zenon
<1>6. h[T] = SumOf(f, T)
  BY <1>1, <1>2, <1>5, SumIs
<1> QED BY <1>4, <1>6, SumInIsFold DEF f

\* The same gaps have the same sum...
LEMMA SumInSame ==
  ASSUME NEW es \in SUBSET Event, NEW fs \in SUBSET Event, NEW T \in SUBSET Event, IsFiniteSet(T),
         \A e \in T : Near(e, es) = Near(e, fs)
  PROVE  SumIn(T, es) = SumIn(T, fs) /\ SumIn(T, es) \in Int
<1> DEFINE f == [e \in T |-> GapOfDay(e, es)]
           g == [e \in T |-> GapOfDay(e, fs)]
<1>1. ASSUME NEW e \in T PROVE f[e] \in Int /\ g[e] = f[e]
  <2>1. e \in Event /\ Near(e, es) = Near(e, fs)
    OBVIOUS
  <2>2. GapOfDay(e, es) = GapOfDay(e, fs)
    BY <2>1, GapLocal
  <2>3. GapOfDay(e, es) \in Nat
    BY <2>1, GapNear
  <2> QED BY <2>2, <2>3
<1>2. SumIn(T, es) = SumOf(f, T) /\ SumIn(T, fs) = SumOf(g, T)
  BY SumInIs
<1> HIDE DEF f, g
<1>3. SumOf(g, T) = SumOf(f, T) /\ SumOf(f, T) \in Int
  BY <1>1, SumOfSame, SumType
<1> QED BY <1>2, <1>3

\* ...and one more adds itself.
LEMMA SumInMore ==
  ASSUME NEW es \in SUBSET Event, NEW T \in SUBSET Event, IsFiniteSet(T), NEW e \in Event \ T
  PROVE  SumIn(T \cup {e}, es) = SumIn(T, es) + GapOfDay(e, es)
<1> DEFINE U == T \cup {e}
           f == [x \in U |-> GapOfDay(x, es)]
           g == [x \in T |-> GapOfDay(x, es)]
<1>1. U \in SUBSET Event /\ IsFiniteSet(U) /\ e \in U /\ U \ {e} = T
  BY FS_AddElement
<1>2. /\ \A x \in U : f[x] = GapOfDay(x, es) /\ f[x] \in Int
      /\ \A x \in T : g[x] = f[x] /\ f[x] \in Int
  BY GapNear
<1>3. SumIn(U, es) = SumOf(f, U) /\ SumIn(T, es) = SumOf(g, T)
  BY <1>1, SumInIs
<1> HIDE DEF U, f, g
<1>4. SumOf(f, U) = f[e] + SumOf(f, T)
  BY <1>1, <1>2, SumOfMore
<1>5. SumOf(g, T) = SumOf(f, T) /\ SumOf(f, T) \in Int
  BY <1>2, SumOfSame, SumType
<1>6. f[e] = GapOfDay(e, es) /\ f[e] \in Int
  BY <1>1, <1>2
<1> QED BY <1>3, <1>4, <1>5, <1>6 DEF U

\* The active time of a day is a matter of its own events.
LEMMA DayLocal ==
  ASSUME NEW es \in SUBSET Event, NEW fs \in SUBSET Event, IsFiniteSet(es), NEW d,
         OfDay(es, d) = OfDay(fs, d)
  PROVE  DayActive(es, d) = DayActive(fs, d) /\ DayActive(es, d) \in Int
<1>1. PICK T : T = OfDay(es, d)
  OBVIOUS
<1>2. T \in SUBSET Event /\ IsFiniteSet(T)
  <2>1. T \subseteq es
    BY <1>1 DEF OfDay
  <2> QED BY <2>1, FS_Subset
<1>3. ASSUME NEW e \in T PROVE Near(e, es) = Near(e, fs)
  <2>1. \A x : DayOf(x.at) = d => (x \in es <=> x \in fs)
    BY DEF OfDay
  <2>2. DayOf(e.at) = d
    BY <1>1 DEF OfDay
  <2> QED BY <2>1, <2>2 DEF Near
<1> QED BY <1>1, <1>2, <1>3, SumInSame, SumsAre

\* The newest event adds its gap.
LEMMA NewestAdds ==
  ASSUME NEW es \in SUBSET Event, IsFiniteSet(es), NEW e \in Event, \A x \in es : x.at < e.at, NEW d
  PROVE  /\ GapOfDay(e, es \cup {e}) = GapOfDay(e, es)
         /\ DayActive(es \cup {e}, d) =
              DayActive(es, d) + IF DayOf(e.at) = d THEN GapOfDay(e, es) ELSE 0
         /\ TotalActive(es \cup {e}) = TotalActive(es) + GapOfDay(e, es)
         /\ TotalActive(es) \in Int
<1>1. PICK fs : fs = es \cup {e}
  OBVIOUS
<1>2. fs \in SUBSET Event /\ IsFiniteSet(fs) /\ e \notin es /\ e \in fs /\ es = fs \ {e}
  <2>1. e.at \in Int
    BY DEF Event
  <2>2. e \notin es
    BY <2>1
  <2> QED BY <1>1, <2>2, FS_AddElement
<1>3. ASSUME NEW x \in fs PROVE Near(x, es) = Near(x, fs)
  <2>1. x.at \in Int /\ e.at \in Int
    BY <1>2 DEF Event
  <2>2. ~(e.at < x.at)
    BY <1>1, <2>1
  <2> QED BY <1>1, <2>2 DEF Near
<1>4. ASSUME NEW x \in fs PROVE GapOfDay(x, es) = GapOfDay(x, fs) /\ GapOfDay(x, es) \in Nat
  <2>1. x \in Event /\ Near(x, es) = Near(x, fs)
    BY <1>2, <1>3
  <2>2. GapOfDay(x, es) = GapOfDay(x, fs)
    BY <1>2, <2>1, GapLocal
  <2>3. GapOfDay(x, es) \in Nat
    BY <2>1, GapNear
  <2> QED BY <2>2, <2>3
<1>5. ASSUME NEW T \in SUBSET es PROVE SumIn(T, es) = SumIn(T, fs) /\ SumIn(T, es) \in Int
  <2>1. T \in SUBSET Event /\ \A x \in T : Near(x, es) = Near(x, fs)
    BY <1>2, <1>3
  <2>2. IsFiniteSet(T)
    BY FS_Subset
  <2> QED BY <1>2, <2>1, <2>2, SumInSame
<1>6. TotalActive(fs) = TotalActive(es) + GapOfDay(e, es) /\ TotalActive(es) \in Int
  <2>1. SumIn(fs, fs) = SumIn(es, fs) + GapOfDay(e, fs)
    BY <1>1, <1>2, SumInMore
  <2>2. SumIn(es, es) = SumIn(es, fs) /\ SumIn(es, es) \in Int
    BY <1>5
  <2> QED BY <1>2, <1>4, <2>1, <2>2, SumsAre
<1>7. DayActive(fs, d) = DayActive(es, d) + IF DayOf(e.at) = d THEN GapOfDay(e, es) ELSE 0
  <2>1. PICK T : T = OfDay(es, d)
    OBVIOUS
  <2>2. T \in SUBSET es /\ T \in SUBSET Event /\ IsFiniteSet(T) /\ e \notin T
    <3>1. T \subseteq es
      BY <2>1 DEF OfDay
    <3> QED BY <1>2, <3>1, FS_Subset
  <2>3. SumIn(T, es) = SumIn(T, fs) /\ SumIn(T, es) \in Int
    BY <1>5, <2>2
  <2>4. CASE DayOf(e.at) = d
    <3>1. OfDay(fs, d) = T \cup {e}
      BY <1>1, <2>1, <2>4 DEF OfDay
    <3>2. SumIn(T \cup {e}, fs) = SumIn(T, fs) + GapOfDay(e, fs)
      BY <1>2, <2>2, SumInMore
    <3> QED BY <1>2, <1>4, <2>1, <2>3, <2>4, <3>1, <3>2, SumsAre
  <2>5. CASE DayOf(e.at) # d
    <3>1. OfDay(fs, d) = T
      BY <1>1, <2>1, <2>5 DEF OfDay
    <3> QED BY <2>1, <2>3, <2>5, <3>1, SumsAre
  <2> QED BY <2>4, <2>5
<1> QED BY <1>1, <1>2, <1>4, <1>6, <1>7
-----------------------------------------------------------------------------
(* What the student is told.                                                *)

\* One gap reaches one mark at most, and so the one it crosses.
LEMMA ReachedIs ==
  ASSUME NEW marks \in {DayMarks, TotalMarks}, NEW a \in Int, NEW b \in Int,
         a = b \/ b - a < TapAllowance, NEW m \in marks
  PROVE  m \in Reached(marks, a, b) <=> a < m /\ m <= b
<1> DEFINE crossed == {n \in marks : a < n /\ n <= b}
<1>1. marks \subseteq Nat /\ TapAllowance \in Nat
  BY UsageAssumption
<1>2. Reached(marks, a, b) = IF crossed = {} THEN {} ELSE {Min(crossed)}
  BY DEF Reached
<1>3. ASSUME m \in crossed PROVE crossed = {m}
  <2> SUFFICES ASSUME NEW n \in crossed PROVE n = m
    BY <1>3
  <2>1. m < n => n - m >= TapAllowance
    BY <1>3, MarksAssumption
  <2>2. n < m => m - n >= TapAllowance
    BY <1>3, MarksAssumption
  <2>3. m \in Nat /\ n \in Nat /\ a < m /\ m <= b /\ a < n /\ n <= b
    BY <1>1, <1>3
  <2> QED BY <1>1, <2>1, <2>2, <2>3
<1>4. ASSUME crossed # {} PROVE Min(crossed) \in crossed
  <2>1. crossed \in SUBSET Nat
    BY <1>1
  <2> HIDE DEF crossed
  <2>2. PICK x \in crossed : \A k \in crossed : x <= k
    BY <1>4, <2>1, LeastNumber
  <2>3. PICK y : y = Min(crossed)
    OBVIOUS
  <2>4. y \in crossed
    BY <2>2, <2>3, Zenon DEF Min
  <2> QED BY <2>3, <2>4
<1> HIDE DEF crossed
<1>5. \A n \in Reached(marks, a, b) : n \in crossed
  BY <1>2, <1>4
<1>6. m \in crossed => m \in Reached(marks, a, b)
  BY <1>2, <1>3, <1>4
<1> QED BY <1>5, <1>6 DEF crossed

Stid(kind, n, d) == [kind |-> kind, n |-> n, day |-> d]

\* What there is to tell of a day, and of the total.
LEMMA ToTell ==
  ASSUME NEW es, NEW date, NEW x
  PROVE  /\ x \in Milestones(es, date) /\ x.kind = "minutes" =>
              /\ x = Stid("minutes", x.n, date)
              /\ x.n \in Reached(DayMarks, WithoutLatest(es, date), DayActive(es, date))
         /\ x \in Milestones(es, date) /\ x.kind = "hours" =>
              /\ x = Stid("hours", x.n, date)
              /\ x.n \in Reached(TotalMarks, TotalActive(es) - LatestGap(es), TotalActive(es))
         /\ \A m \in Reached(DayMarks, WithoutLatest(es, date), DayActive(es, date)) :
              Stid("minutes", m, date) \in Milestones(es, date)
         /\ \A m \in Reached(TotalMarks, TotalActive(es) - LatestGap(es), TotalActive(es)) :
              Stid("hours", m, date) \in Milestones(es, date)
<1> DEFINE R == Reached(DayMarks, WithoutLatest(es, date), DayActive(es, date))
           H == Reached(TotalMarks, TotalActive(es) - LatestGap(es), TotalActive(es))
           K == {k \in {PriorStreak(es, date) + 1} :
                   /\ WithoutLatest(es, date) < StreakMin /\ StreakMin <= DayActive(es, date)
                   /\ k \in 2 .. MaxStreak}
<1>1. Milestones(es, date) = {Stid("minutes", m, date) : m \in R}
                              \cup {Stid("streak", n, date) : n \in K}
                              \cup {Stid("hours", h, date) : h \in H}
  BY DEF Milestones, Stid
<1> HIDE DEF R, H, K
<1>2. \A kind, n : Stid(kind, n, date).kind = kind /\ Stid(kind, n, date).n = n
  BY DEF Stid
<1>3. ASSUME x \in Milestones(es, date), x.kind = "minutes"
      PROVE  x = Stid("minutes", x.n, date) /\ x.n \in R
  <2>1. \E m \in R : x = Stid("minutes", m, date)
    BY <1>1, <1>2, <1>3
  <2> QED BY <1>2, <2>1
<1>4. ASSUME x \in Milestones(es, date), x.kind = "hours"
      PROVE  x = Stid("hours", x.n, date) /\ x.n \in H
  <2>1. \E h \in H : x = Stid("hours", h, date)
    BY <1>1, <1>2, <1>4
  <2> QED BY <1>2, <2>1
<1>5. /\ \A m \in R : Stid("minutes", m, date) \in Milestones(es, date)
      /\ \A m \in H : Stid("hours", m, date) \in Milestones(es, date)
  BY <1>1
<1> QED BY <1>3, <1>4, <1>5 DEF R, H

-----------------------------------------------------------------------------
\* The moments order the events, and a turn in hand is the newest of them.
EventsOK ==
  /\ clock \in 0 .. LastMoment
  /\ events \in SUBSET Event /\ IsFiniteSet(events)
  /\ \A e \in events : e.at <= clock /\ e.done <= clock
  /\ \A e, o \in events : e.at = o.at => e = o
  /\ \A e \in events : e.fate = "open" => \A o \in events : o.at <= e.at

Answered == {e \in events : e.fate = "answered"}

\* A day that is calm, or may still turn out so: what is in hand came last and today.
MayBeCalm(d) ==
  \A e \in OfDay(events, d) :
    \/ /\ e.fate \in {"answered", "undone"} /\ DayOf(e.done) = d
       /\ \A o \in events : ~(e.at < o.at /\ o.at <= e.done)
    \/ /\ e.fate \in {"open", "late"} /\ DayOf(clock) = d
       /\ \A o \in events : o.at <= e.at

OfThatDay(d, m) == {t \in ToldOf("minutes", m) : t.what.day = d}

\* The student heard once of what was reached by the turns answered, and of no more.
HeardOnce(T, reached) == IF reached THEN \E t : T = {t} ELSE T = {}

DaysTold == \A d \in Days, m \in DayMarks :
              MayBeCalm(d) => HeardOnce(OfThatDay(d, m), DayActive(Answered, d) >= m)
TotalsTold == (\A d \in Days : MayBeCalm(d)) =>
                \A h \in TotalMarks : HeardOnce(ToldOf("hours", h), TotalActive(Answered) >= h)

UsageInv == EventsOK /\ DaysTold /\ TotalsTold

\* Nothing has happened and nothing was told.
LEMMA UsageBegins == UsageInit => UsageInv
<1> SUFFICES ASSUME UsageInit PROVE UsageInv
  OBVIOUS
<1>1. EventsOK
  BY UsageAssumption, FS_EmptySet DEF UsageInit, EventsOK
<1>2. Answered = {} /\ \A kind, n : ToldOf(kind, n) = {}
  BY DEF UsageInit, Answered, ToldOf
<1>3. TotalActive({}) = 0 /\ \A d : DayActive({}, d) = 0
  <2>1. SumIn({}, {}) = 0
    <3>1. SumIn({}, {}) = SumOf([e \in {} |-> GapOfDay(e, {})], {})
      BY SumInIs, FS_EmptySet
    <3> QED BY <3>1, SumOfNone
  <2>2. \A d : OfDay({}, d) = {}
    BY DEF OfDay
  <2> QED BY <2>1, <2>2, SumsAre
<1>4. \A marks \in {DayMarks, TotalMarks} : \A m \in marks : ~(0 >= m)
  BY UsageAssumption
<1>5. DaysTold
  BY <1>2, <1>3, <1>4 DEF DaysTold, OfThatDay, HeardOnce
<1>6. TotalsTold
  BY <1>2, <1>3, <1>4 DEF TotalsTold, HeardOnce
<1> QED BY <1>1, <1>5, <1>6 DEF UsageInv

\* A step that answers nobody, and after which no day is quiet that was not.
LEMMA NothingTold ==
  ASSUME UsageInv, EventsOK', told' = told, Answered' = Answered,
         \A d \in Days : MayBeCalm(d)' => MayBeCalm(d)
  PROVE  UsageInv'
<1>1. DaysTold'
  BY DEF UsageInv, DaysTold, OfThatDay, ToldOf
<1>2. TotalsTold'
  BY DEF UsageInv, TotalsTold, ToldOf
<1> QED BY <1>1, <1>2 DEF UsageInv

\* Time passes.
LEMMA TickKeeps == ASSUME UsageInv, Tick PROVE UsageInv'
<1>1. EventsOK /\ clock' = clock + 1 /\ clock < LastMoment /\ UNCHANGED <<events, told>>
  BY DEF UsageInv, Tick
<1>2. \A e \in events : e.at \in Nat /\ e.done \in Nat /\ e.at <= clock /\ e.done <= clock
                        /\ clock \in Nat /\ clock' \in Nat
  BY <1>1 DEF EventsOK, Event
<1>3. EventsOK'
  BY <1>1, <1>2, UsageAssumption DEF EventsOK
<1>4. Answered' = Answered
  BY <1>1 DEF Answered
<1>5. ASSUME NEW d \in Days, MayBeCalm(d)' PROVE MayBeCalm(d)
  <2>1. \A e \in OfDay(events, d) : DayOf(clock') = d => DayOf(clock) = d
    <3>1. \A e \in OfDay(events, d) : e \in events /\ DayOf(e.at) = d
      BY DEF OfDay
    <3>2. \A e \in events : e.at <= clock /\ clock <= clock'
      BY <1>1, <1>2
    <3> QED BY <1>2, <3>1, <3>2, DayBetween
  <2> QED BY <1>1, <1>5, <2>1 DEF MayBeCalm, OfDay
<1> QED BY <1>1, <1>3, <1>4, <1>5, NothingTold

\* A turn comes in.
LEMMA TakeKeeps == ASSUME UsageInv, NEW tap \in BOOLEAN, TakeTurn(tap) PROVE UsageInv'
<1>1. PICK new : new = [at |-> clock, tap |-> tap, fate |-> "open", done |-> 0]
  OBVIOUS
<1>2. /\ EventsOK /\ events' = events \cup {new} /\ UNCHANGED <<clock, told>>
      /\ \A e \in events : e.fate # "open" /\ e.at # clock
  BY <1>1 DEF UsageInv, TakeTurn
<1>3. new \in Event /\ new.at = clock /\ new.done = 0 /\ new.fate = "open"
  BY <1>1, <1>2, UsageAssumption DEF EventsOK, Event
<1>4. \A e \in events : e.at \in Nat /\ e.at < clock /\ clock \in Nat
  BY <1>2 DEF EventsOK, Event
<1>5. EventsOK'
  <2>1. IsFiniteSet(events')
    BY <1>2, FS_AddElement DEF EventsOK
  <2>2. \A e, o \in events' : e.at = o.at => e = o
    BY <1>2, <1>3, <1>4 DEF EventsOK
  <2>3. \A e \in events' : e.at <= clock /\ e.done <= clock
    BY <1>2, <1>3, <1>4 DEF EventsOK
  <2>4. \A e \in events' : e.fate = "open" => e = new
    BY <1>2
  <2> QED BY <1>2, <1>3, <2>1, <2>2, <2>3, <2>4 DEF EventsOK
<1>6. Answered' = Answered
  BY <1>2, <1>3 DEF Answered
<1>7. ASSUME NEW d \in Days, MayBeCalm(d)' PROVE MayBeCalm(d)
  <2> SUFFICES ASSUME NEW e \in OfDay(events, d)
               PROVE  /\ e.fate \in {"answered", "undone"} /\ DayOf(e.done) = d
                      /\ \A o \in events : ~(e.at < o.at /\ o.at <= e.done)
    BY DEF MayBeCalm
  <2>1. e \in OfDay(events', d) /\ e \in events
    BY <1>2 DEF OfDay
  <2>2. new \in events' /\ ~(new.at <= e.at)
    BY <1>2, <1>3, <1>4, <2>1
  <2>3. e \in OfDay(events, d)'
    BY <2>1 DEF OfDay
  <2> QED BY <1>2, <1>7, <2>2, <2>3 DEF MayBeCalm
<1> QED BY <1>2, <1>5, <1>6, <1>7, NothingTold

\* Events lie in the past.
LEMMA MomentsOf ==
  ASSUME EventsOK, NEW e \in events
  PROVE  /\ e \in Event /\ e.at \in Nat /\ e.done \in Nat /\ e.at <= clock /\ e.done <= clock
         /\ clock \in Nat /\ clock \in 0 .. LastMoment
<1>1. e \in Event /\ clock \in 0 .. LastMoment /\ e.at <= clock /\ e.done <= clock
  BY DEF EventsOK
<1>2. LastMoment \in Nat
  BY UsageAssumption
<1> QED BY <1>1, <1>2 DEF Event

\* They lie on days of the behaviour.
LEMMA DayInDays ==
  ASSUME EventsOK, NEW x \in events
  PROVE  DayOf(x.at) \in Days
<1>1. x.at \in Nat /\ x.at <= LastMoment /\ LastMoment \in Nat /\ x.at <= x.at
  BY UsageAssumption DEF EventsOK, Event
<1>2. DayOf(x.at) \in Nat /\ DayOf(LastMoment) \in Nat /\ DayOf(x.at) <= DayOf(LastMoment)
  BY <1>1, DayBetween
<1> QED BY <1>2 DEF Days

\* What a step does to a turn in hand that it does not answer.
LEMMA BecomesKeeps ==
  ASSUME UsageInv, NEW e \in events, NEW fate \in {"late", "undone", "failed"},
         e.fate \in {"open", "late"}, Becomes(e, fate), UNCHANGED <<clock, told>>
  PROVE  UsageInv'
<1>1. PICK f : f = [e EXCEPT !.fate = fate, !.done = clock]
  OBVIOUS
<1>2. EventsOK /\ events' = (events \ {e}) \cup {f} /\ UNCHANGED <<clock, told>>
  BY <1>1 DEF UsageInv, Becomes
<1>3. /\ f \in Event /\ f.at = e.at /\ f.fate = fate /\ f.done = clock
      /\ e \in Event /\ e.at <= clock /\ clock \in Nat
  <2>1. PICK c, x : c = clock /\ x = e
    OBVIOUS
  <2>2. x \in Event /\ x.at <= clock /\ c \in 0 .. LastMoment /\ clock \in Nat
    BY <1>2, <2>1, MomentsOf
  <2>3. f = [x EXCEPT !.fate = fate, !.done = c]
    BY <1>1, <2>1
  <2>4. f \in Event /\ f.at = x.at /\ f.fate = fate /\ f.done = c
    BY <2>2, <2>3 DEF Event
  <2> QED BY <2>1, <2>2, <2>4
<1>4. EventsOK'
  <2>1. IsFiniteSet(events')
    <3>1. IsFiniteSet(events \ {e})
      BY <1>2, FS_RemoveElement DEF EventsOK
    <3> QED BY <1>2, <3>1, FS_AddElement
  <2>2. \A x, o \in events' : x.at = o.at => x = o
    BY <1>2, <1>3 DEF EventsOK
  <2>3. \A x \in events' : x.at <= clock /\ x.done <= clock
    BY <1>2, <1>3 DEF EventsOK
  <2>4. \A x \in events' : x.fate = "open" => x \in events \ {e}
    BY <1>2, <1>3
  <2>5. \A x \in events' : x.fate = "open" => \A o \in events' : o.at <= x.at
    BY <1>2, <1>3, <2>4 DEF EventsOK
  <2> QED BY <1>2, <1>3, <2>1, <2>2, <2>3, <2>5 DEF EventsOK
<1>5. Answered' = Answered
  BY <1>2, <1>3 DEF Answered
<1>6. ASSUME NEW d \in Days, MayBeCalm(d)' PROVE MayBeCalm(d)
  <2>1. ASSUME NEW o \in events PROVE \E p \in events' : p.at = o.at
    BY <1>2, <1>3
  <2>2. ASSUME NEW x \in OfDay(events, d), x # e
        PROVE  \/ /\ x.fate \in {"answered", "undone"} /\ DayOf(x.done) = d
                  /\ \A o \in events : ~(x.at < o.at /\ o.at <= x.done)
               \/ /\ x.fate \in {"open", "late"} /\ DayOf(clock) = d
                  /\ \A o \in events : o.at <= x.at
    <3>1. x \in OfDay(events', d)
      BY <1>2, <2>2 DEF OfDay
    <3>2. x \in OfDay(events, d)'
      BY <3>1 DEF OfDay
    <3> QED BY <1>2, <1>6, <2>1, <3>2 DEF MayBeCalm
  <2>3. ASSUME e \in OfDay(events, d)
        PROVE  DayOf(clock) = d /\ \A o \in events : o.at <= e.at
    <3>1. f \in OfDay(events', d)
      BY <1>2, <1>3, <2>3 DEF OfDay
    <3>2. f \in OfDay(events, d)'
      BY <3>1 DEF OfDay
    <3>3. /\ DayOf(clock) = d
          /\ \/ \A o \in events' : ~(f.at < o.at /\ o.at <= clock)
             \/ \A o \in events' : o.at <= f.at
      BY <1>2, <1>3, <1>6, <3>2 DEF MayBeCalm
    <3>4. \A o \in events : o.at \in Nat /\ o.at <= clock
      BY <1>2 DEF EventsOK, Event
    <3>5. ASSUME NEW o \in events PROVE o.at <= e.at
      <4>1. PICK p \in events' : p.at = o.at
        BY <2>1
      <4> QED BY <1>3, <3>3, <3>4, <4>1
    <3> QED BY <3>3, <3>5
  <2> QED BY <2>2, <2>3 DEF MayBeCalm
<1> QED BY <1>2, <1>4, <1>5, <1>6, NothingTold

\* The sums before and after the newest turn is answered, on a day quiet then.
LEMMA AnswerSums ==
  ASSUME EventsOK, NEW e \in events, Answer(e), NEW d
  PROVE  /\ MayBeCalm(d)' =>
              /\ MayBeCalm(d) /\ (DayOf(e.at) = d => DayOf(clock) = d)
              /\ DayActive(Live, d) = DayActive(Answered', d)
              /\ DayActive(Answered', d) \in Int /\ DayActive(Answered, d) \in Int
              /\ DayOf(e.at) # d => DayActive(Answered', d) = DayActive(Answered, d)
              /\ DayOf(clock) = d => WithoutLatest(Live, d) = DayActive(Answered, d)
              /\ DayActive(Answered, d) <= DayActive(Answered', d)
              /\ \/ DayActive(Answered', d) = DayActive(Answered, d)
                 \/ DayActive(Answered', d) - DayActive(Answered, d) < TapAllowance
         /\ (\A c \in Days : MayBeCalm(c)') =>
              /\ TotalActive(Live) = TotalActive(Answered')
              /\ TotalActive(Live) - LatestGap(Live) = TotalActive(Answered)
              /\ TotalActive(Answered') \in Int /\ TotalActive(Answered) \in Int
              /\ TotalActive(Answered) <= TotalActive(Answered')
              /\ \/ TotalActive(Answered') = TotalActive(Answered)
                 \/ TotalActive(Answered') - TotalActive(Answered) < TapAllowance
<1>1. PICK f : f = [e EXCEPT !.fate = "answered", !.done = clock]
  OBVIOUS
<1>2. /\ e.fate = "open" /\ events' = (events \ {e}) \cup {f} /\ clock' = clock
      /\ \A o \in events : o.at <= e.at
  BY <1>1 DEF Answer, Becomes, EventsOK
<1>3. /\ f \in Event /\ f.at = e.at /\ f.tap = e.tap /\ f.fate = "answered" /\ f.done = clock
      /\ e \in Event /\ e.at <= clock /\ clock \in Nat /\ e.at \in Nat
  <2>1. PICK c, x : c = clock /\ x = e
    OBVIOUS
  <2>2. x \in Event /\ x.at <= clock /\ c \in 0 .. LastMoment /\ clock \in Nat /\ x.at \in Nat
    BY <2>1, MomentsOf
  <2>3. f = [x EXCEPT !.fate = "answered", !.done = c]
    BY <1>1, <2>1
  <2>4. f \in Event /\ f.at = x.at /\ f.tap = x.tap /\ f.fate = "answered" /\ f.done = c
    BY <2>2, <2>3 DEF Event
  <2> QED BY <2>1, <2>2, <2>4
<1>4. PICK A, B, L : A = Answered /\ B = Answered' /\ L = Live
  OBVIOUS
<1>5. \A x \in events \ {e} : x.at < e.at
  BY <1>2 DEF EventsOK, Event
<1>6. /\ B = A \cup {f} /\ A \in SUBSET Event /\ L \in SUBSET Event /\ IsFiniteSet(A) /\ IsFiniteSet(L)
      /\ A \subseteq L /\ e \in L /\ e \notin A /\ L \subseteq events
      /\ \A x \in A : x.at < e.at /\ x.at < f.at
  <2>1. B = A \cup {f}
    BY <1>2, <1>3, <1>4 DEF Answered
  <2>2. A \subseteq events /\ L \subseteq events /\ A \subseteq L /\ e \in L /\ e \notin A
    BY <1>2, <1>4 DEF Answered, Live
  <2> QED BY <1>3, <1>5, <2>1, <2>2, FS_Subset DEF EventsOK
<1>7. PICK g : g = GapOfDay(e, A)
  OBVIOUS
<1>8. /\ g \in Nat /\ (g = 0 \/ g < TapAllowance) /\ GapOfDay(f, A) = g
      /\ TapAllowance \in Nat
  <2>1. Near(e, A) = Near(f, A)
    BY <1>3 DEF Near
  <2>2. GapOfDay(e, A) = GapOfDay(f, A)
    BY <1>3, <1>6, <2>1, GapLocal
  <2> QED BY <1>3, <1>6, <1>7, <2>2, GapNear, UsageAssumption
<1>9. Latest(L) = e
  <2>1. \A o \in L : o.at <= e.at
    BY <1>2, <1>6
  <2>2. ASSUME NEW x \in L, \A o \in L : o.at <= x.at PROVE x = e
    <3>1. x \in events /\ e.at <= x.at
      BY <1>6, <2>2
    <3>2. x.at \in Nat
      BY <3>1, MomentsOf
    <3> QED BY <1>3, <1>5, <3>1, <3>2
  <2>3. Latest(L) = CHOOSE x \in L : \A o \in L : o.at <= x.at
    BY Zenon DEF Latest
  <2> QED BY <1>6, <2>1, <2>2, <2>3
<1>10. ASSUME NEW c, MayBeCalm(c)'
       PROVE  /\ MayBeCalm(c) /\ (DayOf(e.at) = c => DayOf(clock) = c)
              /\ \A x \in L \ {e} : DayOf(x.at) = c => x \in A
  <2>1. \A x \in events \ {e} : DayOf(x.at) = c => x \in OfDay(events, c)'
    BY <1>2 DEF OfDay
  <2>2. ASSUME NEW x \in events \ {e}, DayOf(x.at) = c
        PROVE  /\ x.fate \in {"answered", "undone"} /\ DayOf(x.done) = c
               /\ \A o \in events' : ~(x.at < o.at /\ o.at <= x.done)
    <3>1. f \in events' /\ ~(f.at <= x.at)
      <4>1. x.at < e.at /\ x.at \in Nat
        BY <1>5, MomentsOf
      <4> QED BY <1>2, <1>3, <4>1
    <3>2. x \in OfDay(events, c)'
      BY <2>1, <2>2
    <3> QED BY <1>2, <1>10, <3>1, <3>2 DEF MayBeCalm
  <2>3. DayOf(e.at) = c => DayOf(clock) = c
    <3>1. DayOf(e.at) = c => f \in OfDay(events, c)'
      BY <1>2, <1>3 DEF OfDay
    <3> QED BY <1>2, <1>3, <1>10, <3>1 DEF MayBeCalm
  <2>4. \A o \in events : \E p \in events' : p.at = o.at
    BY <1>2, <1>3
  <2>5. MayBeCalm(c)
    <3> SUFFICES ASSUME NEW x \in OfDay(events, c)
                 PROVE  \/ /\ x.fate \in {"answered", "undone"} /\ DayOf(x.done) = c
                           /\ \A o \in events : ~(x.at < o.at /\ o.at <= x.done)
                        \/ /\ x.fate \in {"open", "late"} /\ DayOf(clock) = c
                           /\ \A o \in events : o.at <= x.at
      BY DEF MayBeCalm
    <3>1. x \in events /\ DayOf(x.at) = c
      BY DEF OfDay
    <3>2. CASE x = e
      BY <1>2, <2>3, <3>1, <3>2
    <3>3. CASE x # e
      BY <2>2, <2>4, <3>1, <3>3
    <3> QED BY <3>2, <3>3
  <2>6. \A x \in L \ {e} : DayOf(x.at) = c => x \in A
    BY <1>4, <1>6, <2>2 DEF Live, Answered
  <2> QED BY <2>3, <2>5, <2>6
<1>11. ASSUME NEW c
       PROVE  /\ DayActive(B, c) = DayActive(A, c) + IF DayOf(e.at) = c THEN g ELSE 0
              /\ TotalActive(B) = TotalActive(A) + g
              /\ DayActive(A \cup {e}, c) = DayActive(A, c) + IF DayOf(e.at) = c THEN g ELSE 0
              /\ TotalActive(A \cup {e}) = TotalActive(A) + g
              /\ GapOfDay(e, A \cup {e}) = g
              /\ DayActive(A, c) \in Int /\ TotalActive(A) \in Int
  <2>1. DayActive(A, c) \in Int
    BY <1>6, DayLocal
  <2>2. /\ GapOfDay(e, A \cup {e}) = GapOfDay(e, A)
        /\ DayActive(A \cup {e}, c) =
             DayActive(A, c) + IF DayOf(e.at) = c THEN GapOfDay(e, A) ELSE 0
        /\ TotalActive(A \cup {e}) = TotalActive(A) + GapOfDay(e, A)
        /\ TotalActive(A) \in Int
    BY <1>3, <1>6, NewestAdds
  <2>3. /\ DayActive(A \cup {f}, c) =
             DayActive(A, c) + IF DayOf(f.at) = c THEN GapOfDay(f, A) ELSE 0
        /\ TotalActive(A \cup {f}) = TotalActive(A) + GapOfDay(f, A)
    BY <1>3, <1>6, NewestAdds
  <2> QED BY <1>3, <1>6, <1>7, <1>8, <2>1, <2>2, <2>3
<1>12. ASSUME MayBeCalm(d)'
       PROVE  /\ DayActive(L, d) = DayActive(A \cup {e}, d)
              /\ DayOf(clock) = d => WithoutLatest(L, d) = DayActive(A, d)
  <2>1. OfDay(L, d) = OfDay(A \cup {e}, d)
    BY <1>6, <1>10, <1>12 DEF OfDay
  <2>2. A \cup {e} \in SUBSET Event
    BY <1>3, <1>6
  <2>3. DayActive(L, d) = DayActive(A \cup {e}, d)
    BY <1>6, <2>1, <2>2, DayLocal
  <2>4. CASE DayOf(e.at) = d
    <3>1. Near(e, L) = Near(e, A)
      <4>1. \A x \in L : x.at < e.at /\ DayOf(x.at) = d => x \in A
        BY <1>3, <1>10, <1>12
      <4> QED BY <1>6, <2>4, <4>1 DEF Near
    <3>2. LatestGap(L) = g
      <4>1. GapOfDay(e, L) = GapOfDay(e, A)
        BY <1>3, <1>6, <3>1, GapLocal
      <4> QED BY <1>7, <1>9, <4>1 DEF LatestGap
    <3>3. WithoutLatest(L, d) = DayActive(L, d) - g
      BY <1>9, <2>4, <3>2 DEF WithoutLatest
    <3>4. DayActive(A \cup {e}, d) = DayActive(A, d) + g /\ DayActive(A, d) \in Int
      BY <1>11, <2>4
    <3> QED BY <1>8, <2>3, <3>3, <3>4
  <2>5. CASE DayOf(e.at) # d
    <3>1. WithoutLatest(L, d) = DayActive(L, d)
      BY <1>9, <2>5 DEF WithoutLatest
    <3>2. DayActive(A \cup {e}, d) = DayActive(A, d) + 0
      BY <1>11, <2>5
    <3> QED BY <1>11, <2>3, <3>1, <3>2
  <2> QED BY <2>3, <2>4, <2>5
<1>13. ASSUME \A c \in Days : MayBeCalm(c)'
       PROVE  TotalActive(L) = TotalActive(B) /\ TotalActive(L) - LatestGap(L) = TotalActive(A)
  <2>1. \A x \in events : DayOf(x.at) \in Days
    BY DayInDays
  <2>2. \A x \in L \ {e} : x \in A
    BY <1>6, <1>10, <1>13, <2>1
  <2>3. L = A \cup {e}
    BY <1>6, <2>2
  <2>4. LatestGap(L) = g
    BY <1>9, <1>11, <2>3 DEF LatestGap
  <2>5. /\ TotalActive(B) = TotalActive(A) + g /\ TotalActive(A \cup {e}) = TotalActive(A) + g
        /\ TotalActive(A) \in Int
    BY <1>11
  <2> QED BY <1>8, <2>3, <2>4, <2>5
<1>14. DayActive(B, d) \in Int /\ TotalActive(B) \in Int
  BY <1>8, <1>11
<1>15. DayActive(A, d) <= DayActive(B, d) /\ TotalActive(A) <= TotalActive(B)
  BY <1>8, <1>11
<1>18. \/ DayActive(B, d) = DayActive(A, d) \/ DayActive(B, d) - DayActive(A, d) < TapAllowance
  BY <1>8, <1>11
<1>16. \/ TotalActive(B) = TotalActive(A) \/ TotalActive(B) - TotalActive(A) < TapAllowance
  BY <1>8, <1>11
<1>17. /\ DayOf(e.at) # d => DayActive(B, d) = DayActive(A, d)
       /\ DayActive(A \cup {e}, d) = DayActive(B, d)
  BY <1>8, <1>11
<1> HIDE DEF Days
<1> QED BY <1>4, <1>10, <1>11, <1>12, <1>13, <1>14, <1>15, <1>16, <1>17, <1>18

\* The student has heard of a mark once if it was reached, and hears of it now if it is.
LEMMA OneMore ==
  ASSUME NEW a \in Int, NEW b \in Int, NEW m \in Int, a <= b, NEW T, NEW U, NEW t,
         HeardOnce(T, a >= m), U = IF a < m /\ m <= b THEN T \cup {t} ELSE T
  PROVE  HeardOnce(U, b >= m)
<1>1. CASE a >= m
  BY <1>1 DEF HeardOnce
<1>2. CASE ~(a >= m) /\ b >= m
  <2>1. T = {} /\ U = {t}
    BY <1>2 DEF HeardOnce
  <2> QED BY <1>2, <2>1 DEF HeardOnce
<1>3. CASE ~(a >= m) /\ ~(b >= m)
  BY <1>3 DEF HeardOnce
<1> QED BY <1>1, <1>2, <1>3

\* What an answer tells.
LEMMA AnswerTells ==
  ASSUME NEW e \in events, Answer(e), NEW d, NEW m
  PROVE  /\ OfThatDay(d, m)' = OfThatDay(d, m) \cup
              {t \in {[what |-> Stid("minutes", m, d), by |-> e.at]} :
                 /\ d = DayOf(clock)
                 /\ m \in Reached(DayMarks, WithoutLatest(Live, d), DayActive(Live, d))}
         /\ ToldOf("hours", m)' = ToldOf("hours", m) \cup
              {t \in {[what |-> Stid("hours", m, DayOf(clock)), by |-> e.at]} :
                 m \in Reached(TotalMarks, TotalActive(Live) - LatestGap(Live), TotalActive(Live))}
<1>1. PICK L, date, at, M : /\ L = Live /\ date = DayOf(clock) /\ at = e.at
                            /\ M = Milestones(L, date)
  OBVIOUS
<1>2. told' = told \cup {[what |-> x, by |-> at] : x \in M}
  BY <1>1 DEF Answer
<1>3. /\ \A x \in M : x.kind = "minutes" =>
            /\ x = Stid("minutes", x.n, date)
            /\ x.n \in Reached(DayMarks, WithoutLatest(L, date), DayActive(L, date))
      /\ \A x \in M : x.kind = "hours" =>
            /\ x = Stid("hours", x.n, date)
            /\ x.n \in Reached(TotalMarks, TotalActive(L) - LatestGap(L), TotalActive(L))
      /\ \A k \in Reached(DayMarks, WithoutLatest(L, date), DayActive(L, date)) :
            Stid("minutes", k, date) \in M
      /\ \A k \in Reached(TotalMarks, TotalActive(L) - LatestGap(L), TotalActive(L)) :
            Stid("hours", k, date) \in M
  BY <1>1, ToTell
<1>4. \A kind, n, c : /\ Stid(kind, n, c).kind = kind /\ Stid(kind, n, c).n = n
                      /\ Stid(kind, n, c).day = c
  BY DEF Stid
<1>5. PICK R, H : /\ R = Reached(DayMarks, WithoutLatest(L, date), DayActive(L, date))
                  /\ H = Reached(TotalMarks, TotalActive(L) - LatestGap(L), TotalActive(L))
  OBVIOUS
<1>6. /\ \A x \in M : x.kind = "minutes" /\ x.n = m /\ x.day = d =>
           x = Stid("minutes", m, d) /\ d = date /\ m \in R
      /\ \A x \in M : x.kind = "hours" /\ x.n = m => x = Stid("hours", m, date) /\ m \in H
      /\ m \in R => Stid("minutes", m, date) \in M
      /\ m \in H => Stid("hours", m, date) \in M
  BY <1>3, <1>4, <1>5
<1>7. OfThatDay(d, m)' = OfThatDay(d, m) \cup
        {t \in {[what |-> Stid("minutes", m, d), by |-> at]} : d = date /\ m \in R}
  <2>1. OfThatDay(d, m) = {t \in told : t.what.kind = "minutes" /\ t.what.n = m /\ t.what.day = d}
    BY DEF OfThatDay, ToldOf
  <2>2. OfThatDay(d, m)' = {t \in told' : t.what.kind = "minutes" /\ t.what.n = m /\ t.what.day = d}
    BY DEF OfThatDay, ToldOf
  <2>3. ASSUME NEW t \in OfThatDay(d, m)', t \notin told
        PROVE  t = [what |-> Stid("minutes", m, d), by |-> at] /\ d = date /\ m \in R
    <3>1. PICK x \in M : t = [what |-> x, by |-> at]
      BY <1>2, <2>2, <2>3
    <3>2. x.kind = "minutes" /\ x.n = m /\ x.day = d
      BY <2>2, <3>1
    <3> QED BY <1>6, <3>1, <3>2
  <2>4. ASSUME d = date, m \in R PROVE [what |-> Stid("minutes", m, d), by |-> at] \in OfThatDay(d, m)'
    <3>1. [what |-> Stid("minutes", m, d), by |-> at] \in told'
      BY <1>2, <1>6, <2>4
    <3> QED BY <1>4, <2>2, <3>1
  <2>5. \A t \in OfThatDay(d, m) : t \in OfThatDay(d, m)'
    BY <1>2, <2>1, <2>2
  <2>6. \A t \in OfThatDay(d, m)' : t \in told => t \in OfThatDay(d, m)
    BY <2>1, <2>2
  <2> QED BY <2>3, <2>4, <2>5, <2>6
<1>8. ToldOf("hours", m)' = ToldOf("hours", m) \cup
        {t \in {[what |-> Stid("hours", m, date), by |-> at]} : m \in H}
  <2>1. ToldOf("hours", m) = {t \in told : t.what.kind = "hours" /\ t.what.n = m}
    BY DEF ToldOf
  <2>2. ToldOf("hours", m)' = {t \in told' : t.what.kind = "hours" /\ t.what.n = m}
    BY DEF ToldOf
  <2>3. ASSUME NEW t \in ToldOf("hours", m)', t \notin told
        PROVE  t = [what |-> Stid("hours", m, date), by |-> at] /\ m \in H
    <3>1. PICK x \in M : t = [what |-> x, by |-> at]
      BY <1>2, <2>2, <2>3
    <3>2. x.kind = "hours" /\ x.n = m
      BY <2>2, <3>1
    <3> QED BY <1>6, <3>1, <3>2
  <2>4. ASSUME m \in H PROVE [what |-> Stid("hours", m, date), by |-> at] \in ToldOf("hours", m)'
    <3>1. [what |-> Stid("hours", m, date), by |-> at] \in told'
      BY <1>2, <1>6, <2>4
    <3> QED BY <1>4, <2>2, <3>1
  <2>5. \A t \in ToldOf("hours", m) : t \in ToldOf("hours", m)'
    BY <1>2, <2>1, <2>2
  <2>6. \A t \in ToldOf("hours", m)' : t \in told => t \in ToldOf("hours", m)
    BY <2>1, <2>2
  <2> QED BY <2>3, <2>4, <2>5, <2>6
<1>9. d = date => R = Reached(DayMarks, WithoutLatest(Live, d), DayActive(Live, d))
  BY <1>1, <1>5
<1> QED BY <1>1, <1>5, <1>7, <1>8, <1>9

\* A turn is answered.
LEMMA AnswerKeeps == ASSUME UsageInv, NEW e \in events, Answer(e) PROVE UsageInv'
<1>1. EventsOK
  BY DEF UsageInv
<1>2. EventsOK'
  <2>1. PICK f : f = [e EXCEPT !.fate = "answered", !.done = clock]
    OBVIOUS
  <2>2. /\ e.fate = "open" /\ events' = (events \ {e}) \cup {f} /\ clock' = clock
    BY <2>1 DEF Answer, Becomes
  <2>3. f \in Event /\ f.at = e.at /\ f.fate = "answered" /\ f.done = clock
        /\ e.at <= clock /\ clock \in Nat /\ clock \in 0 .. LastMoment
    <3>1. PICK c, x : c = clock /\ x = e
      OBVIOUS
    <3>2. x \in Event /\ x.at <= clock /\ c \in 0 .. LastMoment /\ clock \in Nat
      BY <1>1, <3>1, MomentsOf
    <3>3. f = [x EXCEPT !.fate = "answered", !.done = c]
      BY <2>1, <3>1
    <3>4. f \in Event /\ f.at = x.at /\ f.fate = "answered" /\ f.done = c
      BY <3>2, <3>3 DEF Event
    <3> QED BY <3>1, <3>2, <3>4
  <2>4. IsFiniteSet(events')
    <3>1. IsFiniteSet(events \ {e})
      BY <1>1, FS_RemoveElement DEF EventsOK
    <3> QED BY <2>2, <3>1, FS_AddElement
  <2>5. \A x, o \in events' : x.at = o.at => x = o
    BY <1>1, <2>2, <2>3 DEF EventsOK
  <2>6. \A x \in events' : x.at <= clock /\ x.done <= clock
    BY <1>1, <2>2, <2>3 DEF EventsOK
  <2>7. \A x \in events' : x.fate = "open" => x \in events \ {e}
    BY <2>2, <2>3
  <2>8. \A x \in events' : x.fate = "open" => \A o \in events' : o.at <= x.at
    BY <1>1, <2>2, <2>3, <2>7 DEF EventsOK
  <2> QED BY <1>1, <2>2, <2>3, <2>4, <2>5, <2>6, <2>8 DEF EventsOK
<1>3. DaysTold'
  <2> SUFFICES ASSUME NEW d \in Days, NEW m \in DayMarks, MayBeCalm(d)'
               PROVE  HeardOnce(OfThatDay(d, m), DayActive(Answered, d) >= m)'
    BY DEF DaysTold
  <2>1. HeardOnce(OfThatDay(d, m), DayActive(Answered, d) >= m)
    BY <1>1, AnswerSums DEF UsageInv, DaysTold
  <2>2. PICK a, b, T, U, t :
          /\ a = DayActive(Answered, d) /\ b = DayActive(Answered', d)
          /\ T = OfThatDay(d, m) /\ U = OfThatDay(d, m)'
          /\ t = [what |-> Stid("minutes", m, d), by |-> e.at]
    OBVIOUS
  <2>3. /\ a \in Int /\ b \in Int /\ (a = b \/ b - a < TapAllowance)
        /\ DayActive(Live, d) = b /\ (DayOf(clock) = d => WithoutLatest(Live, d) = a)
        /\ DayOf(clock) # d => a = b
    BY <1>1, <2>2, AnswerSums
  <2>4. m \in Int
    BY UsageAssumption
  <2>5. U = T \cup {s \in {t} : d = DayOf(clock) /\ m \in Reached(DayMarks, a, b)}
    BY <2>2, <2>3, AnswerTells
  <2>6. m \in Reached(DayMarks, a, b) <=> a < m /\ m <= b
    BY <2>3, ReachedIs
  <2>7. U = IF a < m /\ m <= b THEN T \cup {t} ELSE T
    BY <2>3, <2>4, <2>5, <2>6
  <2>8. a <= b
    BY <1>1, <2>2, AnswerSums
  <2>9. HeardOnce(U, b >= m)
    <3>1. HeardOnce(T, a >= m)
      BY <2>1, <2>2
    <3> QED BY <2>3, <2>4, <2>7, <2>8, <3>1, OneMore
  <2>10. DayActive(Answered, d)' = b
    BY <2>2
  <2> QED BY <2>2, <2>9, <2>10
<1>4. TotalsTold'
  <2> SUFFICES ASSUME \A d \in Days : MayBeCalm(d)', NEW m \in TotalMarks
               PROVE  HeardOnce(ToldOf("hours", m), TotalActive(Answered) >= m)'
    BY DEF TotalsTold
  <2>1. HeardOnce(ToldOf("hours", m), TotalActive(Answered) >= m)
    BY <1>1, AnswerSums DEF UsageInv, TotalsTold
  <2>2. PICK a, b, T, U, t :
          /\ a = TotalActive(Answered) /\ b = TotalActive(Answered')
          /\ T = ToldOf("hours", m) /\ U = ToldOf("hours", m)'
          /\ t = [what |-> Stid("hours", m, DayOf(clock)), by |-> e.at]
    OBVIOUS
  <2>3. /\ a \in Int /\ b \in Int /\ (a = b \/ b - a < TapAllowance)
        /\ TotalActive(Live) = b /\ TotalActive(Live) - LatestGap(Live) = a
    BY <1>1, <2>2, AnswerSums
  <2>4. m \in Int
    BY UsageAssumption
  <2>5. U = T \cup {s \in {t} : m \in Reached(TotalMarks, a, b)}
    <3>1. PICK d : d = 0
      OBVIOUS
    <3>2. /\ OfThatDay(d, m)' = OfThatDay(d, m) \cup
              {s \in {[what |-> Stid("minutes", m, d), by |-> e.at]} :
                 /\ d = DayOf(clock)
                 /\ m \in Reached(DayMarks, WithoutLatest(Live, d), DayActive(Live, d))}
          /\ ToldOf("hours", m)' = ToldOf("hours", m) \cup
              {s \in {[what |-> Stid("hours", m, DayOf(clock)), by |-> e.at]} :
                 m \in Reached(TotalMarks, TotalActive(Live) - LatestGap(Live), TotalActive(Live))}
      BY AnswerTells
    <3> QED BY <2>2, <2>3, <3>2
  <2>6. m \in Reached(TotalMarks, a, b) <=> a < m /\ m <= b
    BY <2>3, ReachedIs
  <2>7. U = IF a < m /\ m <= b THEN T \cup {t} ELSE T
    BY <2>5, <2>6
  <2>8. a <= b
    BY <1>1, <2>2, AnswerSums
  <2>9. HeardOnce(U, b >= m)
    <3>1. HeardOnce(T, a >= m)
      BY <2>1, <2>2
    <3> QED BY <2>3, <2>4, <2>7, <2>8, <3>1, OneMore
  <2>10. TotalActive(Answered)' = b
    BY <2>2
  <2> QED BY <2>2, <2>9, <2>10
<1> QED BY <1>2, <1>3, <1>4 DEF UsageInv

\* Every step keeps it.
LEMMA UsageStep == UsageInv /\ [UsageNext]_usageVars => UsageInv'
<1> SUFFICES ASSUME UsageInv, [UsageNext]_usageVars PROVE UsageInv'
  OBVIOUS
<1>1. CASE Tick
  BY <1>1, TickKeeps
<1>2. ASSUME NEW tap \in BOOLEAN, TakeTurn(tap) PROVE UsageInv'
  BY <1>2, TakeKeeps
<1>3. ASSUME NEW e \in events, GiveUp(e) PROVE UsageInv'
  BY <1>3, BecomesKeeps DEF GiveUp
<1>4. ASSUME NEW e \in events, Answer(e) PROVE UsageInv'
  BY <1>4, AnswerKeeps
<1>5. ASSUME NEW e \in events, Undo(e) PROVE UsageInv'
  BY <1>5, BecomesKeeps DEF Undo
<1>6. CASE UNCHANGED usageVars
  <2>1. UNCHANGED <<clock, events, told>>
    BY <1>6 DEF usageVars
  <2> QED BY <2>1 DEF UsageInv, EventsOK, DaysTold, TotalsTold, MayBeCalm, OfThatDay, ToldOf, Answered, OfDay
<1> QED BY <1>1, <1>2, <1>3, <1>4, <1>5, <1>6 DEF UsageNext

\* On a calm day all is said.
LEMMA CalmIsQuiet ==
  ASSUME NEW d, Calm(d)
  PROVE  MayBeCalm(d) /\ OfDay(Live, d) = OfDay(Answered, d)
BY DEF Calm, MayBeCalm, OfDay, Live, Answered

\* Once is one.
LEMMA OnceIsOne ==
  ASSUME NEW T, NEW a \in Int, NEW m \in Int, HeardOnce(T, a >= m)
  PROVE  Cardinality(T) = IF a >= m THEN 1 ELSE 0
BY FS_EmptySet, FS_Singleton DEF HeardOnce

\* On a calm day the student hears of each mark reached that day once, and of no
\* other, and over calm days alone the same of the total: whenever turns come, take
\* long, fail or are rolled back (usageMilestoneStids, getTodayActiveTime,
\* COUNTED_GAP_SQL).
THEOREM MarksAreToldOnce == UsageSpec => []EachMarkOnce
<1>1. ASSUME UsageInv PROVE EachMarkOnce
  <2>1. /\ EventsOK /\ Live \in SUBSET Event /\ Answered \in SUBSET Event
        /\ IsFiniteSet(Live) /\ IsFiniteSet(Answered)
    <3>1. Live \subseteq events /\ Answered \subseteq events
      BY DEF Live, Answered
    <3> QED BY <1>1, <3>1, FS_Subset DEF UsageInv, EventsOK
  <2>2. ASSUME NEW d \in Days, NEW m \in DayMarks, Calm(d)
        PROVE  Cardinality({t \in ToldOf("minutes", m) : t.what.day = d})
                 = IF DayActive(Live, d) >= m THEN 1 ELSE 0
    <3>1. MayBeCalm(d) /\ OfDay(Live, d) = OfDay(Answered, d)
      BY <2>2, CalmIsQuiet
    <3>2. DayActive(Live, d) = DayActive(Answered, d) /\ DayActive(Live, d) \in Int
      <4>1. PICK L, A : L = Live /\ A = Answered
        OBVIOUS
      <4> QED BY <2>1, <3>1, <4>1, DayLocal
    <3>3. PICK T, a : T = OfThatDay(d, m) /\ a = DayActive(Live, d)
      OBVIOUS
    <3>4. HeardOnce(T, a >= m) /\ a \in Int /\ m \in Int
      BY <1>1, <3>1, <3>2, <3>3, UsageAssumption DEF UsageInv, DaysTold
    <3>5. Cardinality(T) = IF a >= m THEN 1 ELSE 0
      BY <3>4, OnceIsOne
    <3> QED BY <3>3, <3>5 DEF OfThatDay
  <2>3. ASSUME \A d \in Days : Calm(d), NEW h \in TotalMarks
        PROVE  Cardinality(ToldOf("hours", h)) = IF TotalActive(Live) >= h THEN 1 ELSE 0
    <3>1. \A d \in Days : MayBeCalm(d) /\ OfDay(Live, d) = OfDay(Answered, d)
      BY <2>3, CalmIsQuiet
    <3>2. Live = Answered
      <4>1. \A e \in events : DayOf(e.at) \in Days
        BY <2>1, DayInDays
      <4>2. \A e \in Live : e \in Answered
        BY <3>1, <4>1 DEF OfDay, Live
      <4>3. \A e \in Answered : e \in Live
        BY DEF Answered, Live
      <4> QED BY <4>2, <4>3
    <3>3. PICK T, a, A : T = ToldOf("hours", h) /\ a = TotalActive(Live) /\ A = Answered
      OBVIOUS
    <3>4. HeardOnce(T, a >= h) /\ h \in Int
      BY <1>1, <3>1, <3>2, <3>3, UsageAssumption DEF UsageInv, TotalsTold
    <3>5. a \in Int
      <4>1. SumIn(A, A) \in Int
        BY <2>1, <3>3, SumInSame
      <4> QED BY <3>2, <3>3, <4>1, SumsAre
    <3>6. Cardinality(T) = IF a >= h THEN 1 ELSE 0
      BY <3>4, <3>5, OnceIsOne
    <3> QED BY <3>3, <3>6
  <2> QED BY <2>2, <2>3 DEF EachMarkOnce
<1> QED BY <1>1, UsageBegins, UsageStep, PTL DEF UsageSpec
===============================================================================
