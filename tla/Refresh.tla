------------------------------- MODULE Refresh -------------------------------
(* Refreshing a semantic model from its database (semantic_model/            *)
(* introspect.py, `--append`): the database is read, the model on disk is    *)
(* loaded, the two are merged, joins are made and checked, and the result is *)
(* written over the files, while the schema changes and people decide.       *)
(*                                                                           *)
(* A join is known by its link: the set of (from column, to column) pairs it *)
(* is on.  One pair is the column form, more are an `on` condition.  A table *)
(* is in one area for good, all tables are in one schema, and the areas are  *)
(* a person's (the engine proposes none again).                              *)
EXTENDS Integers, FiniteSets, FiniteSetsExt

CONSTANTS
    Tables, Columns, None,
    TableOf,        \* column -> its table
    Links,          \* the joins considered
    Apart,          \* the links whose two tables are in two areas
    IdColumns,      \* columns named like a key, which the grain probe tries
    References,     \* links the reading guesses from a column's name
    Types,
    Catalogs,       \* the states the database may be in
    FirstCatalogs,  \* those the model may have been built from
    Enforced,       \* the engine enforces foreign keys
    Options,        \* what a refresh is asked for, and which of its reads fail
    Decisions,      \* what people may decide: <<kind, on what, what>>
    MaxOps          \* bound on schema changes, decisions and refreshes

(* Tables, columns and links belong together: a link holds the areas of the   *)
(* links within it, and a refresh of the whole catalog takes every table.    *)
CatalogsAreOne ==
    /\ TableOf \in [Columns -> Tables] /\ Links \subseteq SUBSET (Columns \X Columns)
    /\ Apart \subseteq Links /\ References \subseteq Links
    /\ \A l \in Links : Cardinality({TableOf[p[1]] : p \in l}) = 1 /\ Cardinality({TableOf[p[2]] : p \in l}) = 1
    /\ \A l, k \in Links : l \subseteq k /\ l \notin Apart => k \notin Apart
    /\ FirstCatalogs \subseteq Catalogs
    /\ \A d \in Catalogs : d.type \in [Columns -> Types \cup {None}] /\ d.links \subseteq Links
    /\ None \notin Types \cup {"approved", "rejected", "stale", "system"}
    /\ \A o \in Options : o.all => o.scope = Tables

VARIABLES
    db,             \* the database: [type, key, uniques, links, distinct]
    model,          \* the files: [table, col, grain, uniques, joins]
    option,         \* what the running refresh was asked for, and its failed reads
    seen,           \* the tables it was told of, and what it read of each
    held,           \* the model it loaded
    merged,         \* the model it is to write
    phase,          \* "idle", "loaded", "merged", "listed", "tabled"
    raced,          \* auxiliary: what happened under the running refresh
    synced,         \* auxiliary: what a full refresh wrote with everything read, and nothing has changed since
    ops             \* schema changes, decisions and refreshes so far, for the bound

vars == <<db, model, option, seen, held, merged, phase, raced, synced, ops>>

ColumnsOf(t) == {c \in Columns : TableOf[c] = t}
FromColumns(l) == {p[1] : p \in l}
ToColumns(l) == {p[2] : p \in l}
Ends(l) == FromColumns(l) \cup ToColumns(l)
FromTable(l) == CHOOSE t \in Tables : \E p \in l : TableOf[p[1]] = t
ToTable(l) == CHOOSE t \in Tables : \E p \in l : TableOf[p[2]] = t
IsColumnForm(l) == Cardinality(l) = 1
HomeOf(l) == IF l \in Apart THEN "datasource" ELSE "area"

States == {"approved", "rejected"}
Cardinalities == {"many_to_one", "one_to_many", "one_to_one"}

(* ------------------------------------------------------------------------ *)
(* Reading the database.                                                      *)

InDatabase(d) == {TableOf[c] : c \in {x \in Columns : d.type[x] # None}}

(* _grain: the declared primary key; without one, or when it could not be    *)
(* read, an id-like column whose values are distinct today.                  *)
Grain(t, o) ==
    LET alike == {c \in ColumnsOf(t) \cap IdColumns \cap db.distinct : db.type[c] # None}
    IN  CASE t \notin o.keyUnread /\ db.key[t] # {} -> db.key[t]
          [] (t \in o.keyUnread \/ db.key[t] = {}) /\ o.probes /\ alike # {} -> {CHOOSE c \in alike : TRUE}
          [] OTHER -> {}

(* _build_table: a table as it reads now, with no column when its reading    *)
(* failed.                                                                   *)
BuildTable(t, o) ==
    [type |-> [c \in ColumnsOf(t) |-> IF t \in o.unreadable THEN None ELSE db.type[c]],
     grain |-> Grain(t, o),
     uniques |-> IF t \in o.uniquesUnread THEN {} ELSE db.uniques[t] \ {Grain(t, o)}]

Readable(t) == \E c \in ColumnsOf(t) : seen.table[t].type[c] # None

(* ------------------------------------------------------------------------ *)
(* The merge of a table.                                                      *)

Unserved == {"rejected", "stale"}
Present(m, c) == m.col[c].type # None
Dropped(c) == Present(held, c) /\ seen.table[TableOf[c]].type[c] = None /\ held.col[c].state \notin Unserved
Retyped(c) ==
    /\ Present(held, c)
    /\ seen.table[TableOf[c]].type[c] \notin {None, held.col[c].type}
OldKey(t) == {c \in ColumnsOf(t) : held.col[c].key}

MergedKey(t) == IF seen.table[t].grain # {} THEN seen.table[t].grain ELSE OldKey(t)

(* _merge_table's loop over the columns, and the key flags of _merged_key.   *)
MergedColumn(c) ==
    LET old == held.col[c]
        type == seen.table[TableOf[c]].type[c]
        isKey == c \in MergedKey(TableOf[c])
    IN  CASE Present(held, c) /\ type = None ->
               [old EXCEPT !.state = IF @ \in Unserved THEN @ ELSE "stale", !.key = isKey]
          [] Present(held, c) /\ type # None ->
               [old EXCEPT !.state = IF @ = "stale" THEN "approved" ELSE @, !.type = type, !.key = isKey]
          [] ~Present(held, c) /\ type # None ->
               [state |-> IF c \in option.excluded THEN "rejected" ELSE "approved", type |-> type, key |-> isKey]
          [] OTHER -> old

(* _merged_key: a grain equal to the old key was the engine's and follows    *)
(* the new one; any other loses only the columns the database dropped.       *)
MergedGrain(t) ==
    LET kept == held.grain[t] \ {c \in ColumnsOf(t) : Dropped(c)}
    IN  IF (held.grain[t] = OldKey(t) /\ seen.table[t].grain # {}) \/ kept = {} THEN seen.table[t].grain ELSE kept

(* _merged_unique_keys: a failed read is not the database dropping them.     *)
MergedUniques(t) ==
    {k \in IF t \in option.uniquesUnread THEN held.uniques[t] ELSE seen.table[t].uniques :
        \A c \in k : ~Dropped(c) /\ (Present(held, c) \/ seen.table[t].type[c] # None)}

(* ------------------------------------------------------------------------ *)
(* The tables of the merged model.                                            *)

InModel(m, t) == m.table[t] # None
InBatch(t) == t \in option.scope /\ Readable(t)

(* Only a listing of the whole catalog says a table is gone.                 *)
Gone(t) == option.all /\ t \notin seen.listed /\ InModel(held, t)

(* A bug: a table that is back in the database stays stale.                  *)
MergedTableStale(t) ==
    CASE InBatch(t) -> IF held.table[t] = None THEN "approved" ELSE held.table[t]
      [] Gone(t) -> "stale"
      [] OTHER -> held.table[t]

MergedTable(t) ==
    CASE InBatch(t) -> IF held.table[t] \in {None, "stale"} THEN "approved" ELSE held.table[t]
      [] Gone(t) -> IF held.table[t] \in Unserved THEN held.table[t] ELSE "stale"
      [] OTHER -> held.table[t]

(* A table not in the model is read whole: there is nothing to merge.        *)
MergedTables ==
    [table |-> [t \in Tables |-> MergedTable(t)],
     col |-> [c \in Columns |-> IF InBatch(TableOf[c]) THEN MergedColumn(c) ELSE held.col[c]],
     grain |-> [t \in Tables |-> IF InBatch(t) THEN MergedGrain(t) ELSE held.grain[t]],
     uniques |-> [t \in Tables |-> IF InBatch(t) THEN MergedUniques(t) ELSE held.uniques[t]]]

(* ------------------------------------------------------------------------ *)
(* Its joins.                                                                 *)

Join(l, place, card, state, by, confirmed) ==
    [link |-> l, place |-> place, card |-> card, state |-> state, by |-> by,
     confirmed |-> confirmed, flagged |-> FALSE]

(* A bug: whoever approved a join, the engine takes it for its own.          *)
ApprovedByAny(e) == e.state = "approved"

EngineApproved(e) == e.state = "approved" /\ e.by = "system"

UniqueOn(m, t, cols) == cols \in {m.grain[t]} \cup m.uniques[t]

InferCardinality(m, l) ==
    CASE UniqueOn(m, FromTable(l), FromColumns(l)) /\ UniqueOn(m, ToTable(l), ToColumns(l)) -> "one_to_one"
      [] UniqueOn(m, FromTable(l), FromColumns(l)) /\ ~UniqueOn(m, ToTable(l), ToColumns(l)) -> "one_to_many"
      [] OTHER -> "many_to_one"

(* A confirmed join on a retyped column goes back to review, but not an `on` *)
(* join a person wrote, signed or edited.                                    *)
OnRetyped(e) == \E c \in Ends(e.link) : InBatch(TableOf[c]) /\ Retyped(c)

(* A bug: whoever's it is.                                                   *)
GoesBackWhoever(e) == e.confirmed /\ OnRetyped(e)

GoesBack(e) ==
    /\ e.confirmed /\ OnRetyped(e)
    /\ IsColumnForm(e.link) \/ (e.by = "system" /\ e.state # "stale")
Withdraw(e) ==
    IF GoesBack(e) THEN [e EXCEPT !.confirmed = FALSE, !.state = IF @ = "stale" THEN @ ELSE "unreviewed"]
    ELSE e

(* _build_relationships: the declared foreign keys between tables of the     *)
(* model, approved when the engine or the data vouches for them, and the     *)
(* references guessed from a name, which never are.                          *)
DeclaredKeys(m) ==
    IF option.linksUnread THEN {} ELSE {l \in db.links : InModel(m, FromTable(l)) /\ InModel(m, ToTable(l))}
DeclaredJoin(m, l) ==
    LET trusted == Enforced \/ l \in option.overlaps
    IN  Join(l, HomeOf(l), InferCardinality(m, l), IF trusted THEN "approved" ELSE "unreviewed",
             IF trusted THEN "system" ELSE None, trusted)

GuessedReferences(m) ==
    {l \in References :
        /\ FromColumns(l) \cap UNION {FromColumns(k) : k \in DeclaredKeys(m)} = {}
        /\ m.grain[ToTable(l)] = ToColumns(l)
        /\ \A p \in l : /\ Present(m, p[1]) /\ ~m.col[p[1]].key /\ p[1] \notin m.grain[FromTable(l)]
                         /\ m.col[p[1]].type = m.col[p[2]].type}
GuessedJoin(m, l) == Join(l, HomeOf(l), InferCardinality(m, l), "unreviewed", None, FALSE)

FreshJoins(m) == {DeclaredJoin(m, l) : l \in DeclaredKeys(m)} \cup {GuessedJoin(m, l) : l \in GuessedReferences(m)}

(* _merge_split_joins: the model's joins on some of a composite key's        *)
(* columns go when the engine approved them all; otherwise the key is not    *)
(* applied.                                                                  *)
Covered(c, prev, fresh) ==
    {p \in prev : p.link \subseteq c.link /\ p.link # c.link /\ p.link \notin {f.link : f \in fresh}}
Applied(prev, fresh) == {c \in fresh : \A p \in Covered(c, prev, fresh) : EngineApproved(p)}
Replaced(prev, fresh) == UNION {Covered(c, prev, fresh) : c \in Applied(prev, fresh)}

(* _suggest_data_unique: a join on one column, keyed on one side only, whose *)
(* other side is distinct in the data waits for a person.                    *)
ManySide(m, e) ==
    CASE e.card = "many_to_one" /\ UniqueOn(m, ToTable(e.link), ToColumns(e.link)) -> FromColumns(e.link)
      [] e.card = "one_to_many" /\ UniqueOn(m, FromTable(e.link), FromColumns(e.link)) -> ToColumns(e.link)
      [] OTHER -> {}
LooksOneToOne(m, e) ==
    /\ option.probes /\ IsColumnForm(e.link) /\ ~e.flagged
    /\ \E c \in ManySide(m, e) : c \in db.distinct /\ ~UniqueOn(m, TableOf[c], {c})
Suggest(m, e) ==
    IF LooksOneToOne(m, e) THEN [e EXCEPT !.state = "unreviewed", !.by = None, !.flagged = TRUE] ELSE e

(* _recheck_engine_joins: what the engine approved is labelled again from    *)
(* the keys as they are now, unless they could not be read.                  *)
KeysUnknown(l) == \E t \in {FromTable(l), ToTable(l)} : InBatch(t) /\ t \in option.uniquesUnread
(* A bug: labelled from the keys of the model on disk.                       *)
RelabelHeld(m, e) == [e EXCEPT !.card = InferCardinality(held, e.link)]
Relabel(m, e) == IF KeysUnknown(e.link) THEN e ELSE [e EXCEPT !.card = InferCardinality(m, e.link)]
Recheck(m, e) == IF EngineApproved(e) THEN Suggest(m, Relabel(m, e)) ELSE e

MergedJoins(m) ==
    LET prev == {Withdraw(e) : e \in held.joins}
        fresh == FreshJoins(m)
        kept == prev \ Replaced(prev, fresh)
    IN  {Recheck(m, e) : e \in kept}
        \cup {Suggest(m, c) : c \in {f \in Applied(prev, fresh) : f.link \notin {e.link : e \in kept}}}

MergedModel ==
    LET m == MergedTables IN [x \in DOMAIN m \cup {"joins"} |-> IF x = "joins" THEN MergedJoins(m) ELSE m[x]]

(* validate, as far as a refresh can break it: no confirmed join between two *)
(* columns of incompatible types.                                            *)
Valid(m) ==
    \A e \in m.joins :
        e.confirmed /\ IsColumnForm(e.link) =>
            \A p \in e.link : Present(m, p[1]) /\ Present(m, p[2]) => m.col[p[1]].type = m.col[p[2]].type

(* ------------------------------------------------------------------------ *)
(* The refresh.                                                               *)

Rest == option' = None /\ seen' = None /\ held' = None /\ merged' = None /\ phase' = "idle" /\ raced' = {}

(* The tables are read, one after the other, and then the model is loaded.   *)
(* A refresh of the whole catalog needs a table to be listed.                *)
ReadTables(o) ==
    /\ phase = "idle" /\ ops < MaxOps
    /\ o.all => InDatabase(db) # {}
    /\ option' = o /\ held' = model /\ phase' = "loaded" /\ ops' = ops + 1
    /\ seen' = [listed |-> InDatabase(db), table |-> [t \in Tables |-> BuildTable(t, o)]]
    /\ UNCHANGED <<db, model, merged, raced, synced>>

(* The foreign keys are read, and the values that the joins are checked on.  *)
MergeModel ==
    /\ phase = "loaded"
    /\ merged' = MergedModel /\ phase' = "merged"
    /\ UNCHANGED <<db, model, option, seen, held, raced, synced, ops>>

(* A preview, or a merged model that does not validate or load.              *)
NotWritten == phase = "merged" /\ Rest /\ UNCHANGED <<db, model, synced, ops>>

(* write_tree: datasource.yaml, which lists every join between areas that    *)
(* was loaded, whatever file it came from; then the tables; then each area's *)
(* joins, when there are any.  The separate file is read and never written.  *)
Listed(e) == [e EXCEPT !.place = "datasource"]
WriteDatasource ==
    /\ phase = "merged" /\ Valid(merged)
    /\ model' = [model EXCEPT !.joins =
            {e \in @ : e.place # "datasource"} \cup {Listed(e) : e \in {j \in merged.joins : j.place # "area"}}]
    /\ phase' = "listed" /\ synced' = {}
    /\ UNCHANGED <<db, option, seen, held, merged, raced, ops>>

WriteTables ==
    /\ phase = "listed"
    /\ model' = [merged EXCEPT !.joins = model.joins]
    /\ phase' = "tabled"
    /\ UNCHANGED <<db, option, seen, held, merged, raced, synced, ops>>

AreaJoins == {e \in merged.joins : e.place = "area"}
WriteAreas ==
    /\ phase = "tabled"
    /\ model' = [model EXCEPT !.joins = IF AreaJoins = {} THEN @ ELSE {e \in @ : e.place # "area"} \cup AreaJoins]
    /\ synced' = IF option.all /\ option.unreadable = {} /\ raced = {}
                 THEN {"columns"} \cup (IF option.uniquesUnread = {} THEN {"labels"} ELSE {}) ELSE {}
    /\ Rest /\ UNCHANGED <<db, ops>>

(* A refresh dies between two files.  A first build that does leaves a model *)
(* no command loads.                                                         *)
Crash ==
    /\ phase \in {"listed", "tabled"} /\ \E t \in Tables : InModel(held, t)
    /\ Rest /\ UNCHANGED <<db, model, synced, ops>>

(* ------------------------------------------------------------------------ *)
(* What happens around it.                                                    *)

ChangeSchema(d) ==
    /\ ops < MaxOps /\ d # db
    /\ db' = d /\ ops' = ops + 1 /\ synced' = {}
    /\ raced' = IF phase = "idle" THEN raced ELSE raced \cup {"schema"}
    /\ UNCHANGED <<model, option, seen, held, merged, phase>>

(* A curation batch of one: undone when the model does not validate.         *)
Decide(d, m) ==
    /\ d \in Decisions /\ ops < MaxOps /\ m # model /\ Valid(m)
    /\ model' = m /\ ops' = ops + 1 /\ synced' = {}
    /\ raced' = IF phase = "idle" THEN raced ELSE raced \cup {"decision"}
    /\ UNCHANGED <<db, option, seen, held, merged, phase>>

DecideTable(t, state) == InModel(model, t) /\ Decide(<<"table", t, state>>, [model EXCEPT !.table[t] = state])
DecideColumn(c, state) ==
    Present(model, c) /\ Decide(<<"column", c, state>>, [model EXCEPT !.col[c].state = state])

(* A person's grain for a table.                                             *)
StateGrain(t, g) ==
    (\A c \in g : Present(model, c)) /\ Decide(<<"grain", t, g>>, [model EXCEPT !.grain[t] = g])

(* A decision on a join needs one join to match.                             *)
Replace(l, f) == [model EXCEPT !.joins = {IF e.link = l THEN f ELSE e : e \in @}]
Match(l) == CHOOSE e \in model.joins : e.link = l
Matches(l) == Cardinality({e \in model.joins : e.link = l}) = 1
DecideJoin(l, state) ==
    /\ Matches(l)
    /\ Decide(<<"join", l, state>>,
              Replace(l, [Match(l) EXCEPT !.state = state, !.by = IF state = "approved" THEN "person" ELSE None]))
EditJoin(l, card) ==
    /\ Matches(l) /\ card # Match(l).card
    /\ Decide(<<"edit", l, card>>,
              Replace(l, [Match(l) EXCEPT !.card = card, !.state = IF @ = "approved" THEN "stale" ELSE @]))

(* _add_join: a join between two areas goes in a file of its own.            *)
AddJoin(l, card) ==
    /\ l \notin {e.link : e \in model.joins}
    /\ {model.table[FromTable(l)], model.table[ToTable(l)]} \cap (Unserved \cup {None}) = {}
    /\ \A c \in Ends(l) : Present(model, c)
    /\ Decide(<<"add", l, card>>, [model EXCEPT !.joins =
            @ \cup {Join(l, IF l \in Apart THEN "sidecar" ELSE "area", card, "unreviewed", None, FALSE)}])

NoTables ==
    [table |-> [t \in Tables |-> None],
     col |-> [c \in Columns |-> [state |-> "approved", type |-> None, key |-> FALSE]],
     grain |-> [t \in Tables |-> {}], uniques |-> [t \in Tables |-> {}], joins |-> {}]

Init ==
    /\ db \in FirstCatalogs /\ model = NoTables
    /\ option = None /\ seen = None /\ held = None /\ merged = None
    /\ phase = "idle" /\ raced = {} /\ synced = {} /\ ops = 0

Refreshing ==
    \/ \E o \in Options : ReadTables(o)
    \/ MergeModel \/ NotWritten \/ WriteDatasource \/ WriteTables \/ WriteAreas \/ Crash
Around ==
    \/ \E d \in Catalogs : ChangeSchema(d)
    \/ \E t \in Tables, s \in States : DecideTable(t, s)
    \/ \E c \in Columns, s \in States : DecideColumn(c, s)
    \/ \E t \in Tables, g \in SUBSET Columns : StateGrain(t, g)
    \/ \E l \in Links, s \in States : DecideJoin(l, s)
    \/ \E l \in Links, card \in Cardinalities : EditJoin(l, card)
    \/ \E l \in Links, card \in Cardinalities : AddJoin(l, card)
Next == Refreshing \/ Around
Spec == Init /\ [][Next]_vars

(* ------------------------------------------------------------------------ *)
(* Properties.                                                                *)

Served(c) == model.table[TableOf[c]] \notin Unserved \cup {None} /\ Present(model, c) /\ model.col[c].state \notin Unserved
Excluded(c) == "rejected" \in {model.table[TableOf[c]], model.col[c].state}

(* Once a refresh of the whole catalog is written, a column is served        *)
(* exactly when the database has it and no one took it out, with the type it *)
(* has there: dropped, retyped and restored columns and tables included.     *)
(* Where it could read the unique keys, each join the engine vouches for has *)
(* the cardinality its tables' keys now give it.                             *)
ServesTheDatabase ==
    /\ "columns" \in synced => \A c \in Columns :
        /\ Served(c) <=> db.type[c] # None /\ ~Excluded(c)
        /\ Served(c) => model.col[c].type = db.type[c]
    /\ "labels" \in synced => \A e \in model.joins :
        EngineApproved(e) => e.card = InferCardinality(model, e.link)

(* What people decided outlives every write of a refresh they did not race:  *)
(* a table or column taken out stays out, and a join signed, edited or       *)
(* rejected by a person is as it was.  A confirmed join on one column of     *)
(* another type now, and no other, is there again for review, as labelled.   *)
Writing == WriteDatasource \/ WriteTables \/ WriteAreas
Decided(e) == e.by = "person" \/ e.state \in Unserved
TypeMoved(e) == \E c \in Ends(e.link) : merged.col[c].type # held.col[c].type
ForReview(e, n) == \E f \in n.joins : f.link = e.link /\ f.card = e.card /\ ~f.confirmed
Keeps(m, n) ==
    /\ \A t \in Tables : m.table[t] = "rejected" => n.table[t] = "rejected"
    /\ \A c \in Columns : m.col[c].state = "rejected" => n.col[c].state = "rejected"
    /\ \A e \in m.joins :
        Decided(e) => \/ e \in n.joins
                      \/ e.confirmed /\ IsColumnForm(e.link) /\ TypeMoved(e) /\ ForReview(e, n)
DecisionsStand ==
    [][(Writing /\ "decision" \notin raced) => Keeps(model, model')]_vars
=============================================================================
