--------------------------- MODULE UserDirectory ---------------------------
(***************************************************************************)
(* The users table and the copies of its rows in Redis: UserService as the *)
(* inbound worker, the onboarding service and the dashboard's handlers     *)
(* call it.  A copy is kept for an hour under two keys, the account's id   *)
(* and its number.  Every statement, transaction and Redis call is one     *)
(* action, so the readers and writers of several processes interleave.     *)
(*                                                                         *)
(* A row keeps the columns the callers tell apart: number, name, consent   *)
(* (the onboarding columns) and referrer.  What hangs off an account, the  *)
(* deletion of its files and the text of the replies are left out.         *)
(***************************************************************************)
EXTENDS Naturals, FiniteSets

CONSTANTS
  Ids, Phones,      \* account ids and numbers; both key the cache
  Workers, Desks,   \* inbound jobs and dashboard requests, one call each
  Null,
  MaxMishaps        \* bound: Redis calls that fail and processes that die

VARIABLES
  rows,     \* the table: the row of each id, Null when there is none
  cache,    \* the Redis copies by key
  acts,     \* what each process is doing
  past,     \* the values ever committed in each column of an account (history)
  doubt,    \* keys a race or a mishap may have left stale (history)
  left,     \* numbers whose copy a renumbering by id left behind (history)
  unsaved,  \* accounts with an update that found no row to hit (history)
  mishaps

history == <<past, doubt, left, unsaved>>
vars == <<rows, cache, acts, history, mishaps>>

Actors == Workers \cup Desks
Keys == Ids \cup Phones
Names == {"first", "second"}
RowType ==
  [id : Ids, phone : Phones, name : Names, consent : BOOLEAN,
   by : Ids \cup {Null}]

\* An id (a uuid) never reads as a number, and a missing row is no row.
ASSUME UserAssumption == Ids \cap Phones = {} /\ Null \notin RowType

\* key: what it looks up;  from: the sender's number;  names: the referrer's
\* number in the message, or Null;  change: the columns it writes;  user: the
\* copy the turn goes by;  held: the row it works on;  seen: the row its save()
\* selected.
Resting ==
  [does |-> "nothing", pc |-> "rest", key |-> Null, from |-> Null,
   names |-> Null, change |-> <<>>, user |-> Null, held |-> Null,
   seen |-> Null]

Living == {u \in Ids : rows[u] # Null}
WithKey(k) == {u \in Living : u = k \/ rows[u].phone = k}
Stored(k) == IF WithKey(k) = {} THEN Null
             ELSE rows[CHOOSE u \in WithKey(k) : TRUE]
Values(row) == {<<row.id, x, row[x]>> : x \in DOMAIN row}
CopiesOf(u) == {k \in Keys : cache[k] # Null /\ cache[k].id = u}

Init ==
  /\ rows \in [Ids -> RowType \cup {Null}]
  /\ \A u \in Living : /\ rows[u].id = u /\ rows[u].name = "first"
                       /\ rows[u].by \in (Living \ {u}) \cup {Null}
                       /\ rows[u].by # Null => rows[rows[u].by].by = Null
  /\ \A u, v \in Living : rows[u].phone = rows[v].phone => u = v
  /\ cache = [k \in Keys |-> Null]
  /\ acts = [a \in Actors |-> Resting]
  /\ past = UNION {Values(rows[u]) : u \in Living}
  /\ doubt = {} /\ left = {} /\ unsaved = {} /\ mishaps = 0

----------------------------------------------------------------------------
(* Steps.                                                                  *)
Done == [Resting EXCEPT !.pc = "done"]

\* The record r with the fields of f written over its own.
Over(f, r) ==
  [x \in DOMAIN f \cup DOMAIN r |-> IF x \in DOMAIN f THEN f[x] ELSE r[x]]

Step(a, fields) ==
  acts' = [acts EXCEPT ![a] =
             IF fields.pc = "done" THEN Done ELSE Over(fields, acts[a])]
Rest(a) == Step(a, [pc |-> "done"])
At(a, does, pc) == acts[a].does \in does /\ acts[a].pc = pc

\* CacheService.set under both keys of a row.
Publish(row) ==
  LET keys == {row.id, row.phone}
  IN  /\ cache' = [k \in Keys |-> IF k \in keys THEN row ELSE cache[k]]
      /\ doubt' = IF rows[row.id] = row THEN doubt \ keys ELSE doubt \cup keys
      /\ left' = left \ keys

\* CacheService.del.
Evict(keys, missed) ==
  /\ cache' = [k \in Keys |-> IF k \in keys THEN Null ELSE cache[k]]
  /\ doubt' = (doubt \ keys) \cup (missed \ keys)
  /\ left' = left \ keys

\* Postgres: a transaction that has inserted a row naming the account keeps
\* its key from changing or going; one that has written the row keeps every
\* other writer out.
InTransaction == {"load", "select", "save", "evict", "commit"}
KeyHeld(a, u) ==
  \E b \in Actors \ {a} : /\ acts[b].does = "consent"
                          /\ acts[b].pc \in InTransaction /\ acts[b].key = u
RowHeld(a, u) ==
  \E b \in Actors \ {a} : /\ acts[b].does = "consent"
                          /\ acts[b].pc \in {"evict", "commit"} /\ acts[b].key = u
                          /\ acts[b].held # acts[b].seen

----------------------------------------------------------------------------
(* What a process may be asked to do.                                      *)
\* The columns update() is asked to set: a number, a name, or the consent.
Renumber == {[phone |-> q] : q \in Phones}
Rename == {[name |-> "second"]}
Consent == [consent |-> TRUE]

\* A message: the inbound processor finds its sender.  A new sender's text
\* may name a referrer's number.
Message(a) ==
  /\ a \in Workers /\ acts[a].pc = "rest"
  /\ \E p \in Phones, r \in Phones \cup {Null} :
       /\ r # p
       /\ Step(a, [does |-> "message", pc |-> "look",
                   key |-> p, from |-> p, names |-> r])
  /\ UNCHANGED <<rows, cache, history, mishaps>>

\* WhatsApp's system message: the account with the old number gets a new one.
NumberChange(a) ==
  /\ a \in Workers /\ acts[a].pc = "rest"
  /\ \E p \in Phones, change \in Renumber :
       /\ change.phone # p
       /\ Step(a, [does |-> "update", pc |-> "load", key |-> p,
                   change |-> change])
  /\ UNCHANGED <<rows, cache, history, mishaps>>

\* PATCH :id, and the profile form, which looks the account up first.
Patch(a) ==
  /\ a \in Desks /\ acts[a].pc = "rest"
  /\ \E u \in Ids :
       \/ \E change \in Rename :
            Step(a, [does |-> "rename", pc |-> "look", key |-> u, change |-> change])
       \/ \E change \in Rename \cup Renumber :
            Step(a, [does |-> "update", pc |-> "load", key |-> u, change |-> change])
  /\ UNCHANGED <<rows, cache, history, mishaps>>

\* DELETE :idOrExternalId resolves its input first.
DeleteUser(a) ==
  /\ a \in Desks /\ acts[a].pc = "rest"
  /\ \E k \in Keys :
       /\ Stored(k) # Null
       /\ Step(a, [does |-> "delete", pc |-> "evict", key |-> Stored(k).id,
                   held |-> Stored(k)])
  /\ UNCHANGED <<rows, cache, history, mishaps>>

----------------------------------------------------------------------------
(* find: the cache, else the table, whose row is then published.           *)
Finders == {"message", "referrer", "rename"}

\* What the caller does with what find returned.
Found(a, row) ==
  CASE acts[a].does = "referrer" ->
         [does |-> "create", pc |-> "insert",
          names |-> IF row = Null THEN Null ELSE acts[a].key]
    [] acts[a].does = "rename" ->
         IF row = Null THEN [pc |-> "done"]
         ELSE [does |-> "update", pc |-> "load", key |-> row.id]
    [] acts[a].does = "message" /\ row # Null ->
         [does |-> "turn", pc |-> "turn", user |-> row,
          key |-> Null, from |-> Null, names |-> Null]
    [] acts[a].does = "message" /\ row = Null /\ acts[a].names = Null ->
         [does |-> "create", pc |-> "insert"]
    [] OTHER -> [does |-> "referrer", pc |-> "look", key |-> acts[a].names]

Look(a) ==
  /\ At(a, Finders, "look")
  /\ \/ /\ cache[acts[a].key] # Null
        /\ Step(a, Found(a, cache[acts[a].key]))
     \/ /\ cache[acts[a].key] = Null
        /\ Step(a, [pc |-> "read"])
  /\ UNCHANGED <<rows, cache, history, mishaps>>

Read(a) ==
  /\ At(a, Finders, "read")
  /\ LET row == Stored(acts[a].key)
     IN  Step(a, IF row = Null THEN Found(a, row)
                 ELSE [pc |-> "fill", held |-> row])
  /\ UNCHANGED <<rows, cache, history, mishaps>>

Fill(a) ==
  /\ At(a, Finders, "fill")
  /\ Publish(acts[a].held)
  /\ Step(a, Over([held |-> Null], Found(a, acts[a].held)))
  /\ UNCHANGED <<rows, past, unsaved, mishaps>>

----------------------------------------------------------------------------
(* create: the insert looks the referrer up again; a taken number fails it,*)
(* and so does the insert of the seed scores when the account has gone.    *)
Insert(a) ==
  /\ At(a, {"create"}, "insert")
  /\ IF WithKey(acts[a].from) # {}
     THEN Rest(a) /\ UNCHANGED <<rows, past>>
     ELSE \E u \in Ids \ {v[1] : v \in past} :
            LET referrer == IF acts[a].names = Null THEN Null
                            ELSE Stored(acts[a].names)
                row == [id |-> u, phone |-> acts[a].from, name |-> "first",
                        consent |-> FALSE,
                        by |-> IF referrer = Null THEN Null ELSE referrer.id]
            IN  /\ rows' = [rows EXCEPT ![u] = row]
                /\ past' = past \cup Values(row)
                /\ Step(a, [pc |-> "seed", held |-> row])
  /\ UNCHANGED <<cache, doubt, left, unsaved, mishaps>>

Seed(a) ==
  /\ At(a, {"create"}, "seed")
  /\ Step(a, [pc |-> IF rows[acts[a].held.id] = Null THEN "done" ELSE "publish"])
  /\ UNCHANGED <<rows, cache, history, mishaps>>

\* populateUserCache, and the welcome.
Populate(a) ==
  /\ At(a, {"create"}, "publish")
  /\ Publish(acts[a].held)
  /\ Rest(a)
  /\ UNCHANGED <<rows, past, unsaved, mishaps>>

----------------------------------------------------------------------------
(* update: load the row, assign the columns, save, evict, and outside a     *)
(* transaction publish what was saved.  TypeORM's save() is two statements: *)
(* it selects the row, then updates the columns in which the entity differs *)
(* from it, whoever changed them, or inserts the entity if there is no row. *)
Load(a) ==
  /\ At(a, {"update", "consent"}, "load")
  /\ LET row == Stored(acts[a].key)
     IN  Step(a, IF row = Null THEN [pc |-> "done"]
                 ELSE [pc |-> "select", held |-> row])
  /\ UNCHANGED <<rows, cache, history, mishaps>>

Select(a) ==
  /\ At(a, {"update", "consent"}, "select")
  /\ Step(a, [pc |-> "save", seen |-> rows[acts[a].held.id]])
  /\ UNCHANGED <<rows, cache, history, mishaps>>

\* The entity: every column of the loaded row, and the change.
Assigned(a) == Over(acts[a].change, acts[a].held)

\* The row u after the statement of save(): an update of a row that has gone
\* meanwhile hits nothing.
Saved(a, u) ==
  IF acts[a].seen = Null THEN Assigned(a)
  ELSE IF rows[u] = Null THEN Null
  ELSE [x \in DOMAIN rows[u] |->
          IF Assigned(a)[x] # acts[a].seen[x] THEN Assigned(a)[x] ELSE rows[u][x]]

\* The primary key, the unique number and the referrer's foreign key.
Legal(a, row) ==
  /\ acts[a].seen = Null => rows[row.id] = Null
  /\ \A u \in Living : rows[u].phone = row.phone => u = row.id
  /\ row.by # Null => row.by \in Living

Overtaken(a) == rows[acts[a].held.id] # acts[a].held

Save(a) ==
  LET u == acts[a].held.id
      row == Saved(a, u)
  IN  /\ At(a, {"update"}, "save")
      /\ row # rows[u] => ~RowHeld(a, u)
      /\ rows[u] # Null /\ row # Null /\ rows[u].phone # row.phone => ~KeyHeld(a, u)
      /\ IF row # Null /\ ~Legal(a, row)
         THEN Rest(a) /\ UNCHANGED <<rows, history>>
         ELSE /\ rows' = [rows EXCEPT ![u] = row]
              /\ past' = past \cup (IF row = Null THEN {} ELSE Values(row))
              /\ unsaved' = IF row = Null /\ Assigned(a) # acts[a].seen
                            THEN unsaved \cup {u} ELSE unsaved
              /\ doubt' = IF Overtaken(a) THEN doubt \cup CopiesOf(u) ELSE doubt
              /\ left' = IF "phone" \in DOMAIN acts[a].change /\ acts[a].key \in Ids
                         THEN left \cup (CopiesOf(u) \cap {acts[a].held.phone})
                         ELSE left
              /\ Step(a, [pc |-> "evict", held |-> Assigned(a), seen |-> Null])
      /\ UNCHANGED <<cache, mishaps>>

\* A bug of the kind WritesEvict would catch: the old number is forgotten.
EvictedCurrent(a) == {acts[a].held.id, acts[a].held.phone}

\* The keys update() evicts: the old number only when it was asked by number.
Evicted(a) ==
  {acts[a].held.id, acts[a].held.phone} \cup
  (IF "phone" \in DOMAIN acts[a].change /\ acts[a].key \in Phones
   THEN {acts[a].key} ELSE {})

EvictUpdated(a) ==
  /\ At(a, {"update"}, "evict")
  /\ Evict(Evicted(a), {})
  /\ Step(a, [pc |-> "publish"])
  /\ UNCHANGED <<rows, past, unsaved, mishaps>>

PublishUpdated(a) ==
  /\ At(a, {"update"}, "publish")
  /\ Publish(acts[a].held)
  /\ Rest(a)
  /\ UNCHANGED <<rows, past, unsaved, mishaps>>

----------------------------------------------------------------------------
(* The turn of a known sender, and the last turn of the onboarding, which  *)
(* updates the account inside its transaction.                             *)
Turn(a) ==
  /\ At(a, {"turn"}, "turn")
  /\ \/ Rest(a)
     \/ /\ ~acts[a].user.consent
        /\ Step(a, IF acts[a].user.id \in Living
                   THEN [does |-> "consent", pc |-> "load",
                         key |-> acts[a].user.id, change |-> Consent]
                   ELSE [pc |-> "done"])
  /\ UNCHANGED <<rows, cache, history, mishaps>>

SaveUncommitted(a) ==
  LET u == acts[a].held.id
  IN  /\ At(a, {"consent"}, "save")
      /\ Saved(a, u) # rows[u] => ~RowHeld(a, u)
      /\ IF ~Legal(a, Saved(a, u))
         THEN Rest(a) /\ UNCHANGED doubt
         ELSE /\ doubt' = IF Overtaken(a) THEN doubt \cup CopiesOf(u) ELSE doubt
              /\ Step(a, [pc |-> "evict", held |-> Assigned(a)])
      /\ UNCHANGED <<rows, cache, past, left, unsaved, mishaps>>

\* A bug of the kind CopiesWereCommitted would catch: the transaction's update
\* publishes what it saved, as it does outside one.
EvictAndPublish(a) ==
  /\ At(a, {"consent"}, "evict")
  /\ Publish(acts[a].held)
  /\ Step(a, [pc |-> "commit"])
  /\ UNCHANGED <<rows, past, unsaved, mishaps>>

EvictUncommitted(a) ==
  /\ At(a, {"consent"}, "evict")
  /\ Evict(Evicted(a), {})
  /\ Step(a, [pc |-> "commit"])
  /\ UNCHANGED <<rows, past, unsaved, mishaps>>

\* A transaction that fails leaves the row as it was.
Commit(a) ==
  LET row == Saved(a, acts[a].held.id)
  IN  /\ At(a, {"consent"}, "commit")
      /\ \/ /\ rows' = [rows EXCEPT ![row.id] = row]
            /\ past' = past \cup Values(row)
            /\ Step(a, [pc |-> "after", seen |-> Null])
         \/ Rest(a) /\ UNCHANGED <<rows, past>>
      /\ UNCHANGED <<cache, doubt, left, unsaved, mishaps>>

\* invalidateCache goes by the copy the turn began with.
Invalidate(a) ==
  /\ At(a, {"consent"}, "after")
  /\ Evict({acts[a].user.id, acts[a].user.phone},
           IF acts[a].user.phone # acts[a].held.phone
           THEN CopiesOf(acts[a].user.id) ELSE {})
  /\ Rest(a)
  /\ UNCHANGED <<rows, past, unsaved, mishaps>>

----------------------------------------------------------------------------
(* delete: evict, then in one transaction forget the account as a referrer *)
(* and delete it, then evict again.  The keys are those of the row resolved*)
(* at the start.  The copies of the accounts it had referred stay: the     *)
(* driver returns the rows of UPDATE ... RETURNING one level deeper than   *)
(* the loop over them expects, and a row that is gone passes for deleted.  *)
ResolvedKeys(a) == {acts[a].held.id, acts[a].held.phone}

EvictFirst(a) ==
  /\ At(a, {"delete"}, "evict")
  /\ Evict(ResolvedKeys(a), {})
  /\ Step(a, [pc |-> "remove"])
  /\ UNCHANGED <<rows, past, unsaved, mishaps>>

RemoveRow(a) ==
  LET u == acts[a].key
      forget == [v \in Ids |->
                   IF v = u \/ rows[v] = Null THEN Null
                   ELSE [rows[v] EXCEPT !.by = IF @ = u THEN Null ELSE @]]
  IN  /\ At(a, {"delete"}, "remove")
      /\ ~KeyHeld(a, u)
      /\ \A v \in Living : rows[v].by = u => ~RowHeld(a, v)
      /\ rows' = forget
      /\ past' = past \cup {<<v, "by", Null>> : v \in {w \in Living : rows[w].by = u}}
      /\ doubt' = IF Overtaken(a) THEN doubt \cup CopiesOf(u) ELSE doubt
      /\ Step(a, [pc |-> "sweep"])
      /\ UNCHANGED <<cache, left, unsaved, mishaps>>

EvictAgain(a) ==
  /\ At(a, {"delete"}, "sweep")
  /\ Evict(ResolvedKeys(a), {})
  /\ Rest(a)
  /\ UNCHANGED <<rows, past, unsaved, mishaps>>

----------------------------------------------------------------------------
(* Redis drops a copy after its hour;  a call to it may fail, which the    *)
(* cache service swallows, except the one deletion insists on;  a process  *)
(* may die anywhere.                                                       *)
Expire(k) ==
  /\ cache[k] # Null
  /\ cache' = [cache EXCEPT ![k] = Null]
  /\ doubt' = doubt \ {k} /\ left' = left \ {k}
  /\ UNCHANGED <<rows, acts, past, unsaved, mishaps>>

AfterEvict ==
  [update |-> "publish", consent |-> "commit", delete |-> "done"]

MissedEvict(a) ==
  /\ acts[a].pc = "evict" /\ mishaps < MaxMishaps
  /\ mishaps' = mishaps + 1
  /\ doubt' = IF acts[a].does = "delete" THEN doubt
              ELSE doubt \cup CopiesOf(acts[a].held.id)
  /\ Step(a, [pc |-> AfterEvict[acts[a].does]])
  /\ UNCHANGED <<rows, cache, past, left, unsaved>>

Die(a) ==
  /\ acts[a].pc \notin {"rest", "done"} /\ mishaps < MaxMishaps
  /\ mishaps' = mishaps + 1
  /\ doubt' = IF acts[a].held = Null THEN doubt
              ELSE doubt \cup CopiesOf(acts[a].held.id)
  /\ Rest(a)
  /\ UNCHANGED <<rows, cache, past, left, unsaved>>

Work(a) ==
  \/ Look(a) \/ Read(a) \/ Fill(a)
  \/ Insert(a) \/ Seed(a) \/ Populate(a)
  \/ Load(a) \/ Select(a) \/ Save(a) \/ EvictUpdated(a) \/ PublishUpdated(a)
  \/ Turn(a) \/ SaveUncommitted(a) \/ EvictUncommitted(a) \/ Commit(a)
  \/ Invalidate(a)
  \/ EvictFirst(a) \/ RemoveRow(a) \/ EvictAgain(a)

Next ==
  \/ \E a \in Actors :
       \/ Message(a) \/ NumberChange(a) \/ Patch(a) \/ DeleteUser(a)
       \/ Work(a) \/ MissedEvict(a) \/ Die(a)
  \/ \E k \in Keys : Expire(k)

Spec == Init /\ [][Next]_vars

----------------------------------------------------------------------------
TypeOK ==
  /\ rows \in [Ids -> RowType \cup {Null}]
  /\ cache \in [Keys -> RowType \cup {Null}]
  /\ past \subseteq UNION {Values(row) : row \in RowType}
  /\ doubt \subseteq Keys /\ left \subseteq Keys
  /\ unsaved \subseteq Ids /\ mishaps \in 0..MaxMishaps

\* No value is ever read from the cache that was not committed: an update in a
\* transaction only evicts, since the transaction may still fail.  (The values
\* of one copy may come from different rows: what update() publishes is its
\* entity, which a concurrent save() never saw.)  But for an account that was
\* deleted between the two statements of a save().
CopiesWereCommitted ==
  \A k \in Keys : cache[k] # Null => Values(cache[k]) \subseteq past \/ cache[k].id \in unsaved

\* What the turns and the dashboard read of an account: all but its referrer.
Stale(k) ==
  /\ cache[k] # Null
  /\ LET row == rows[cache[k].id]
     IN  row = Null \/ [row EXCEPT !.by = Null] # [cache[k] EXCEPT !.by = Null]

Writing(u) ==
  \E a \in Actors :
    /\ acts[a].does \in {"update", "consent", "delete"}
    /\ acts[a].pc \in {"evict", "publish", "after", "sweep"}
    /\ acts[a].held.id = u

\* A write evicts the copies it makes stale: a copy that differs from its row
\* while nobody is still writing that row is one a slower reader or writer put
\* or missed, one a failed call or a dead process left, or the one under the
\* number a PATCH by id took from the account (update: the old number is only
\* evicted when the account was asked for by it).
WritesEvict ==
  \A k \in Keys : Stale(k) => k \in doubt \cup left \/ Writing(cache[k].id)

\* PATCH :id "goes through UserService.update so the user cache is evicted"
\* (user.controller.ts): the same without the last exception.
PatchEvicts ==
  \A k \in Keys : Stale(k) => k \in doubt \/ Writing(cache[k].id)
=============================================================================
