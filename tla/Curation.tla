------------------------------ MODULE Curation ------------------------------
(* Curation of a semantic model on disk (semantic_model/curate.py): batches  *)
(* of approve, reject, include, edit, move and add, each validated as a      *)
(* whole and then recorded or undone; items written outside a batch; and     *)
(* what the curation log says an item no longer approved has been through.   *)
(*                                                                           *)
(* An item is a metric, one per file, or a join of the two tables, a list    *)
(* per place.  Its id is the name of a metric and the condition of a join;   *)
(* def stands for every other field that says what it computes.  A table is  *)
(* in one area, a list is a set, and an operation that is skipped changes    *)
(* nothing and is no step.                                                   *)
EXTENDS Integers, Sequences, FiniteSets, SequencesExt, FiniteSetsExt

CONSTANTS
    Areas, Tables, None,
    Names,          \* metric names; a file is named after the name it was written with
    Conditions,     \* what a join may be on
    Definitions,    \* what an item may compute
    Invalid,        \* a definition the validation refuses
    Models,         \* what a model starts with: records [kind, owner, items, spent]
    AddedStates,    \* the states joins read from metadata are written in
    Writes,         \* the metrics `sm add` may write: records [id, def, state, reads]
    Verbs,          \* the trust operations considered, a subset of AllVerbs
    MaxBatch,       \* bound on the operations of a batch
    MaxOps          \* bound on the operations of a behaviour

Cross == "_cross"
AllVerbs == {"approve", "include", "reject"}
ASSUME CurationAssumption ==
    /\ Verbs \subseteq AllVerbs
    /\ Invalid \in Definitions /\ {None, Cross} \cap (Areas \cup Names \cup Conditions) = {}

VARIABLES
    files,          \* path -> content
    log,            \* curation_log.jsonl
    backups,        \* path -> content before the batch's first write to it
    staged,         \* the log entries of the batch
    refused,        \* an operation of the batch matched no entry, or several
    stale,          \* the entries the batch reports as sent back to review
    phase,          \* "idle" or "batch"
    base,           \* auxiliary: files when the running batch began
    unrecorded,     \* auxiliary: a change reached the files and not the log
    clashed,        \* auxiliary: two items of a place had one name
    focus,          \* the kind of item a behaviour is about, a bound
    ops             \* the operations so far, for the bound

vars == <<files, log, backups, staged, refused, stale, phase, base, unrecorded, clashed, focus, ops>>

MetricFile(a, stem) == <<"metric", a, stem>>
JoinFile(place) == <<"joins", place>>
TableFile(a, t) == <<"table", a, t>>
AreaFile(a) == <<"area", a>>
DatasourceFile == <<"datasource">>

MetricFiles == {MetricFile(a, s) : a \in Areas, s \in Names}
JoinFiles == {JoinFile(p) : p \in Areas \cup {Cross}}
ItemFiles == MetricFiles \cup JoinFiles
Paths == ItemFiles \cup {TableFile(a, t) : a \in Areas, t \in Tables}
                   \cup {AreaFile(a) : a \in Areas} \cup {DatasourceFile}

(* ------------------------------------------------------------------------ *)
(* Items.                                                                     *)

(* signed and fresh are auxiliary: what the last approval approved, and that *)
(* the running batch sent the item back to review.                           *)
Item(id, def, reads, state, by) ==
    [id |-> id, def |-> def, reads |-> reads, state |-> state, by |-> by,
     signed |-> IF state = "approved" THEN <<id, def>> ELSE <<>>, fresh |-> FALSE]

(* Items as they are read, each signed off as it stands.                      *)
ASSUME ModelsAssumption ==
    /\ IsFiniteSet(Tables) /\ None # "person"
    /\ \A model \in Models :
          /\ model.owner \in [Tables -> Areas] /\ IsFiniteSet(model.items)
          /\ \A h \in model.items : LET i == h[2] IN i = Item(i.id, i.def, i.reads, i.state, i.by)

Says(item) == <<item.id, item.def>>
KindOf(path) == path[1]
Place(path) == path[2]
Key(path, item) == <<KindOf(path), Place(path), item.id>>

(* _set_trust: what a trust operation makes of an item, {} when it refuses.  *)
Approved(item, signer) ==
    IF signer = None /\ item.state = "stale" THEN {}
    ELSE {[item EXCEPT !.state = "approved", !.by = IF signer = None THEN @ ELSE signer,
                       !.signed = Says(item), !.fresh = FALSE]}
Unsigned(item, state) == {[item EXCEPT !.state = state, !.by = None, !.fresh = FALSE]}
SetTrust(item, verb, signer) ==
    CASE verb = "approve" -> Approved(item, signer)
      [] verb = "include" -> Unsigned(item, "unreviewed")
      [] verb = "reject" -> Unsigned(item, "rejected")

(* A rename is taken for a cosmetic edit.                                    *)
StaleOnDef(prior, item) ==
    IF prior.state = "approved" /\ prior.def # item.def
    THEN [item EXCEPT !.state = "stale", !.fresh = TRUE] ELSE item

(* _stale_on_edit: an approved item whose definition an edit changes goes    *)
(* back to review and keeps its sign-off.                                    *)
StaleOnEdit(prior, item) ==
    IF prior.state = "approved" /\ Says(prior) # Says(item)
    THEN [item EXCEPT !.state = "stale", !.fresh = TRUE] ELSE item
Edited(item, field, value) == StaleOnEdit(item, [item EXCEPT ![field] = value])

(* ------------------------------------------------------------------------ *)
(* Finding the item an operation names; area is None when it gives none.      *)

Listed == files[DatasourceFile]
Owner(t) == CHOOSE a \in Areas : files[TableFile(a, t)]
HitsIn(paths) == UNION {{<<p, item>> : item \in files[p]} : p \in paths}

FindItem(name, area) ==
    IF area # None THEN HitsIn({MetricFile(area, name)})
    ELSE LET found == HitsIn({MetricFile(a, name) : a \in Listed})
             exact == {h \in found : h[2].id = name}
         IN  IF exact # {} THEN exact ELSE found

(* The joins of the table pair in an area and across areas, on a condition   *)
(* when one is named; every area when the one given holds none.              *)
FindJoin(on, area) ==
    LET search(as) == {h \in HitsIn({JoinFile(p) : p \in as \cup {Cross}}) : on \in {None, h[2].id}}
    IN  IF area # None /\ search({area}) # {} THEN search({area}) ELSE search(Listed)

Find(kind, id, area) == IF kind = "metric" THEN FindItem(id, area) ELSE FindJoin(id, area)

(* ------------------------------------------------------------------------ *)
(* The batch.                                                                 *)

Batching == phase = "batch"
Room == ops < MaxOps /\ (Batching => Len(staged) < MaxBatch)

(* A file is snapshotted at each write to it.                                *)
SnapshotLatest(kept, written) == [p \in (DOMAIN kept) \cup written |-> IF p \in written THEN files[p] ELSE kept[p]]

(* _snapshot: what each file held before the first write to it.              *)
Snapshot(kept, written) == [p \in (DOMAIN kept) \cup written |-> IF p \in DOMAIN kept THEN kept[p] ELSE files[p]]

(* What an operation writes: a path, or what two of its parts do.            *)
At(path, content) == [p \in {path} |-> content]
Both(c, d) == [p \in (DOMAIN c) \cup DOMAIN d |-> IF p \in DOMAIN c THEN c[p] ELSE d[p]]

(* The writes of an operation: content maps each path written to what it     *)
(* holds now.  The first operation of a batch opens it.                      *)
Write(content) ==
    /\ files' = [p \in Paths |-> IF p \in DOMAIN content THEN content[p] ELSE files[p]]
    /\ backups' = Snapshot(IF Batching THEN backups ELSE <<>>, DOMAIN content)
    /\ base' = IF Batching THEN base ELSE files
    /\ phase' = "batch"

(* An entry is reported under the name and place it was edited in.           *)
NotFollowed(reported, moved) == reported

(* The keys of what the batch reports as sent back, followed through moves   *)
(* and renames.                                                              *)
Follow(reported, moved) ==
    {IF \E m \in moved : m[1] = k THEN (CHOOSE m \in moved : m[1] = k)[2] ELSE k : k \in reported}
Reported == IF Batching THEN stale ELSE {}

Record(entry) ==
    /\ staged' = IF Batching THEN Append(staged, entry) ELSE <<entry>>
    /\ refused' = (Batching /\ refused)
    /\ ops' = ops + 1
    /\ UNCHANGED <<log, unrecorded>>

Entry(op, kind, where, id) ==
    [op |-> op, kind |-> kind, where |-> where, id |-> id, field |-> None, before |-> None,
     value |-> None, madeStale |-> FALSE, dst |-> None, carried |-> {}, joins |-> {}]

(* What an entry calls the item: a metric by its declared name, a join by    *)
(* the condition the operation gave, if any.                                 *)
Called(kind, id, item) == IF kind = "metric" THEN item.id ELSE id

TrustOp(kind, id, area, verb, signer) ==
    /\ Room
    /\ Cardinality(Find(kind, id, area)) = 1
    /\ \E h \in Find(kind, id, area) : \E new \in SetTrust(h[2], verb, signer) :
        /\ Write(At(h[1], (files[h[1]] \ {h[2]}) \cup {new}))
        /\ stale' = Reported \ {Key(h[1], new)}
        /\ Record(Entry(verb, kind, Place(h[1]), Called(kind, id, h[2])))

EditOp(kind, id, area, field, value) ==
    /\ Room
    /\ Cardinality(Find(kind, id, area)) = 1
    /\ \E h \in Find(kind, id, area) :
        LET new == Edited(h[2], field, value)
            staled == h[2].state = "approved" /\ new.state = "stale"
        IN  /\ Write(At(h[1], (files[h[1]] \ {h[2]}) \cup {new}))
            /\ stale' = Follow(Reported, {<<Key(h[1], h[2]), Key(h[1], new)>>})
                        \cup (IF staled THEN {Key(h[1], new)} ELSE {})
            /\ Record([Entry("edit", kind, Place(h[1]), Called(kind, id, h[2])) EXCEPT
                          !.field = field, !.before = h[2][field], !.value = value, !.madeStale = staled])

(* An operation with no area that names no entry, or several, refuses the    *)
(* batch; with an area it is skipped.                                        *)
BatchError(kind, id) ==
    /\ Batching /\ ~refused
    /\ Cardinality(Find(kind, id, None)) # 1
    /\ refused' = TRUE
    /\ UNCHANGED <<files, log, backups, staged, stale, phase, base, unrecorded, ops>>

(* _add_join: a join between the two tables, where their areas say.          *)
JoinPlace(owner) == IF Cardinality({owner[t] : t \in Tables}) = 1 THEN owner[CHOOSE t \in Tables : TRUE] ELSE Cross
Owners == [t \in Tables |-> Owner(t)]

AddJoin(on, card) ==
    LET path == JoinFile(JoinPlace(Owners))
        new == Item(on, card, Tables, "unreviewed", None)
    IN  /\ Room
        /\ \A h \in HitsIn(JoinFiles) : h[2].id # on
        /\ Write(At(path, files[path] \cup {new}))
        /\ stale' = Reported \ {Key(path, new)}
        /\ Record(Entry("add", "joins", IF Place(path) = Cross THEN None ELSE Place(path), on))

(* ------------------------------------------------------------------------ *)
(* Moving a table to another area.                                            *)

(* Only an approval counts as a person's word.                               *)
ApprovalRank(item) ==
    IF item.state # "approved" THEN 0
    ELSE IF item.by \in {"engine", "enrich", None} THEN 1 ELSE 2

(* _sign_off_rank: decided by a person, approved by the engine, unreviewed.  *)
SignOffRank(item) ==
    CASE item.state = "approved" -> IF item.by \in {"engine", "enrich", None} THEN 1 ELSE 2
      [] item.state \in {"rejected", "stale"} -> 2
      [] OTHER -> 0

(* _kept_copy: of two copies of one join.  Two that people decided           *)
(* differently are not merged: the move is refused.                          *)
Agree(have, moved) == have.state = moved.state /\ have.def = moved.def
Mergeable(have, moved) == SignOffRank(have) = 2 /\ SignOffRank(moved) = 2 => Agree(have, moved)
MovedIsKept(have, moved) == SignOffRank(moved) > SignOffRank(have)

Landing(from, to, before, after, merged) ==
    [from |-> from, to |-> to, before |-> before, after |-> after, merged |-> merged]

(* One join landing in a place: acc is the place's joins, the landings       *)
(* logged, and whether every merge was possible.                             *)
Land(from, to, moved, acc) ==
    LET same == {c \in acc.joins : c.id = moved.id}
        have == CHOOSE c \in same : TRUE
        kept == IF MovedIsKept(have, moved) THEN moved ELSE have
    IN  IF same = {}
        THEN [acc EXCEPT !.joins = @ \cup {moved},
                         !.landings = @ \cup {Landing(from, to, moved.id, moved.id, FALSE)}]
        ELSE [joins |-> (acc.joins \ {have}) \cup {kept}, ok |-> acc.ok /\ Mergeable(have, moved),
              landings |-> acc.landings \cup
                  {Landing(IF MovedIsKept(have, moved) THEN from ELSE to, to, kept.id, kept.id, TRUE)}]

(* The joins of a place landing, one after another.                          *)
LandAll(from, to, acc) == FoldSet(LAMBDA j, a : Land(from, to, j, a), acc, files[JoinFile(from)])

(* _plan_joins and _land_joins: the joins of the area left and the cross-    *)
(* area ones go where the two tables now are.                                *)
LandJoins(src, to) ==
    LET none == [joins |-> files[JoinFile(to)], landings |-> {}, ok |-> TRUE]
        stay == {Landing(Cross, Cross, j.id, j.id, FALSE) : j \in files[JoinFile(Cross)]}
    IN  IF to = Cross THEN LandAll(src, to, [none EXCEPT !.landings = stay])
        ELSE LandAll(Cross, to, LandAll(src, to, none))

(* _carry_items: the metrics that read the table and only tables of the area *)
(* it joins, unless that area has one by that name.                          *)
CarriedMetrics(t, src, dst) ==
    {p \in MetricFiles :
        /\ Place(p) # dst /\ files[MetricFile(dst, p[3])] = {}
        /\ \E item \in files[p] : t \in item.reads /\ \A u \in item.reads \ {t} : Owner(u) = dst}

CarriedContent(carried, dst) ==
    [p \in carried \cup {MetricFile(dst, c[3]) : c \in carried} |->
        IF p \in carried THEN {} ELSE files[CHOOSE c \in carried : c[3] = p[3]]]

JoinContent(landed, src, to) ==
    [p \in {JoinFile(src), JoinFile(to)} \cup (IF to = Cross THEN {} ELSE {JoinFile(Cross)}) |->
        IF p = JoinFile(to) THEN landed.joins ELSE {}]

(* _new_area: an area the datasource does not list yet is created.           *)
AreaContent(t, src, dst) ==
    Both(Both(At(AreaFile(src), files[AreaFile(src)] \ {t}), At(AreaFile(dst), files[AreaFile(dst)] \cup {t})),
         IF dst \in Listed THEN <<>> ELSE At(DatasourceFile, Listed \cup {dst}))

Move(t, dst) ==
    LET src == Owner(t)
        to == JoinPlace([Owners EXCEPT ![t] = dst])
        landed == LandJoins(src, to)
        carried == CarriedMetrics(t, src, dst)
        item(p) == CHOOSE i \in files[p] : TRUE
        moved == {<<Key(p, item(p)), <<"metric", dst, item(p).id>>>> : p \in carried}
                 \cup {<<Key(h[1], h[2]), <<"joins", to, h[2].id>>>> :
                         h \in HitsIn({JoinFile(src), JoinFile(Cross)})}
    IN  /\ Room /\ dst # src /\ landed.ok
        /\ Write(Both(Both(At(TableFile(src, t), FALSE), At(TableFile(dst, t), TRUE)),
                 Both(AreaContent(t, src, dst), Both(JoinContent(landed, src, to), CarriedContent(carried, dst)))))
        /\ stale' = Follow(Reported, moved)
        /\ Record([Entry("move", "table", src, t) EXCEPT
                      !.dst = dst, !.joins = landed.landings,
                      !.carried = {[id |-> item(p).id, from |-> Place(p)] : p \in carried}])

(* ------------------------------------------------------------------------ *)
(* The end of a batch.                                                        *)

Valid(fs) == \A p \in ItemFiles : \A item \in fs[p] : item.def # Invalid

(* fresh is about the running batch.                                         *)
Settled == [p \in Paths |-> IF p \in ItemFiles THEN {[i EXCEPT !.fresh = FALSE] : i \in files[p]} ELSE files[p]]

Idle == /\ phase' = "idle" /\ backups' = <<>> /\ staged' = <<>> /\ refused' = FALSE /\ stale' = {} /\ base' = <<>>

(* _restore: every file the batch wrote gets back what it held.              *)
Undo ==
    /\ Batching /\ (refused \/ ~Valid(files))
    /\ files' = [p \in Paths |-> IF p \in DOMAIN backups THEN backups[p] ELSE files[p]]
    /\ Idle /\ UNCHANGED <<log, unrecorded, ops>>

(* _record: the log is appended to; a failure to write it is swallowed.      *)
Commit ==
    /\ Batching /\ ~refused /\ Valid(files)
    /\ files' = Settled
    /\ \/ log' = log \o staged /\ UNCHANGED unrecorded
       \/ unrecorded' = TRUE /\ UNCHANGED log
    /\ Idle /\ UNCHANGED ops

(* The process dies in the middle of a batch.                                *)
Crash ==
    /\ Batching
    /\ files' = Settled /\ unrecorded' = TRUE
    /\ Idle /\ UNCHANGED <<log, ops>>

(* ------------------------------------------------------------------------ *)
(* Writes outside a batch.                                                    *)

Quiet == ~Batching /\ ops < MaxOps /\ ops' = ops + 1 /\ UNCHANGED <<backups, staged, refused, stale, phase, base, unrecorded>>

(* write_items: a metric replaces the file of its name, whatever it held.    *)
WriteItem(area, w) ==
    LET path == MetricFile(area, w.id)
        by == IF w.state = "approved" THEN "person" ELSE None
    IN  /\ Quiet /\ area \in Listed /\ w.def # Invalid
        /\ files' = [files EXCEPT ![path] = {Item(w.id, w.def, w.reads, w.state, by)}]
        /\ log' = Append(log, Entry("add", "metric", area, w.id))

(* add_relationships: a join read from metadata, placed as an added one.     *)
(* Its log entry is named after a label no join has.                         *)
AddRelationship(on, card, state) ==
    LET path == JoinFile(JoinPlace(Owners))
        by == IF state = "approved" THEN "enrich" ELSE None
    IN  /\ Quiet /\ card # Invalid
        /\ \A h \in HitsIn(JoinFiles) : h[2].id # on
        /\ files' = [files EXCEPT ![path] = @ \cup {Item(on, card, Tables, state, by)}]
        /\ log' = Append(log, Entry("add", "a label", None, None))

(* A refresh from the database: the cardinality of a join the engine         *)
(* approved, or a join on a retyped column back to review; nothing is logged.*)
Refresh(path, item) ==
    /\ Quiet
    /\ \E card \in Definitions \ {Invalid}, retyped \in BOOLEAN :
        LET engine == item.state = "approved" /\ item.by = "engine"
            new == [item EXCEPT !.state = IF retyped /\ @ # "stale" THEN "unreviewed" ELSE @,
                                !.def = IF engine /\ ~retyped THEN card ELSE @,
                                !.signed = IF engine /\ ~retyped THEN <<item.id, card>> ELSE @]
        IN  /\ new # item
            /\ files' = [files EXCEPT ![path] = (@ \ {item}) \cup {new}]
    /\ UNCHANGED log

(* ------------------------------------------------------------------------ *)

Start(model) ==
    [p \in Paths |->
        CASE KindOf(p) = "table" -> model.owner[p[3]] = Place(p)
          [] KindOf(p) = "area" -> {t \in Tables : model.owner[t] = Place(p)}
          [] KindOf(p) = "datasource" -> {model.owner[t] : t \in Tables}
          [] OTHER -> {h[2] : h \in {g \in model.items : g[1] = p}}]

Init ==
    /\ \E model \in Models : files = Start(model) /\ focus = model.kind /\ ops = model.spent
    /\ log = <<>> /\ backups = <<>> /\ staged = <<>> /\ refused = FALSE
    /\ stale = {} /\ phase = "idle" /\ base = <<>> /\ unrecorded = FALSE /\ clashed = FALSE

(* A cross-area join is in the history of both its areas.                    *)
HistoryAreas(path) == IF Place(path) = Cross THEN {Owner(t) : t \in Tables} \cup {Cross} ELSE {Place(path)}

Clash == \E h, g \in HitsIn(ItemFiles) :
            /\ h # g /\ h[2].id = g[2].id /\ KindOf(h[1]) = KindOf(g[1])
            /\ HistoryAreas(h[1]) \cap HistoryAreas(g[1]) # {}

Places == Areas \cup {None}
OnMetric == focus = "metric"

Step ==
    \/ \E id \in IF OnMetric THEN Names ELSE Conditions \cup {None}, area \in Places :
          \/ \E verb \in Verbs, signer \in {None, "person"} :
                (verb = "approve" \/ signer = None) /\ TrustOp(focus, id, area, verb, signer)
          \/ \E value \in IF OnMetric THEN Names ELSE Conditions : EditOp(focus, id, area, "id", value)
          \/ \E value \in Definitions : EditOp(focus, id, area, "def", value)
          \/ BatchError(focus, id)
    \/ \E on \in Conditions, card \in Definitions : ~OnMetric /\ AddJoin(on, card)
    \/ \E t \in Tables, dst \in Areas : Move(t, dst)
    \/ Undo \/ Commit \/ Crash
    \/ \E area \in Areas, w \in Writes : OnMetric /\ WriteItem(area, w)
    \/ \E on \in Conditions, card \in Definitions, state \in AddedStates :
          ~OnMetric /\ AddRelationship(on, card, state)
    \/ \E path \in JoinFiles : \E item \in files[path] : Refresh(path, item)

Next == Step /\ clashed' = (clashed \/ Clash') /\ UNCHANGED focus

Spec == Init /\ [][Next]_vars

(* ------------------------------------------------------------------------ *)
(* What the log says of an item sent back to review.                          *)

(* An entry of another area is read as the item's.                           *)
NotElsewhere(e, walk) == FALSE
Elsewhere(e, walk) == e.where # None /\ e.where \notin walk.areas

NamesEntry(kind, e, id) == IF kind = "metric" THEN e.id = id ELSE e.id \in {None, id}

(* A step of the walk over a move: the area, and for a join the condition,   *)
(* the item had before it.                                                   *)
BeforeMove(kind, e, walk) ==
    IF kind = "metric"
    THEN LET came == {c.from : c \in {d \in e.carried : d.id = walk.id}}
         IN  IF e.dst \in walk.areas /\ came # {} THEN [walk EXCEPT !.areas = {CHOOSE a \in came : TRUE}] ELSE walk
    ELSE LET landed == {l \in e.joins : l.to \in walk.areas /\ l.after = walk.id}
             l == CHOOSE l \in landed : TRUE
         IN  IF landed = {} THEN walk
             ELSE [walk EXCEPT !.id = l.before, !.whole = @ /\ ~l.merged,
                               !.areas = IF l.from # l.to THEN {l.from} ELSE @]

(* Over an operation on the item: an edit is undone; anything else is where  *)
(* the history the log holds begins.                                         *)
BeforeEntry(kind, e, walk) ==
    LET renamed == e.op = "edit" /\ e.field = "id"
        prior == IF renamed THEN e.before ELSE walk.id
        changes == IF e.before = e.value THEN walk.changes
                   ELSE <<[field |-> e.field, before |-> e.before, after |-> e.value]>> \o walk.changes
    IN  IF \/ e.kind # kind \/ Elsewhere(e, walk)
           \/ (renamed /\ e.value # walk.id) \/ ~NamesEntry(kind, e, prior)
        THEN walk
        ELSE IF e.op # "edit" THEN [walk EXCEPT !.at = "nowhere"]
        ELSE [walk EXCEPT !.id = prior, !.changes = changes, !.at = IF e.madeStale THEN "approval" ELSE @]

(* changes_since_approval: the log read backwards to the edit that took the  *)
(* approval away.                                                            *)
ChangesSinceApproval(path, item) ==
    FoldLeft(LAMBDA walk, e : IF walk.at # "walking" THEN walk
                              ELSE IF e.op = "move" THEN BeforeMove(KindOf(path), e, walk)
                              ELSE BeforeEntry(KindOf(path), e, walk),
             [at |-> "walking", id |-> item.id, areas |-> HistoryAreas(path), changes |-> <<>>, whole |-> TRUE],
             Reverse(log))

(* The changes, applied to what was approved.                                *)
Replayed(signed, changes) ==
    FoldLeft(LAMBDA acc, c : IF acc # <<>> /\ acc[IF c.field = "id" THEN 1 ELSE 2] = c.before
                             THEN IF c.field = "id" THEN <<c.after, acc[2]>> ELSE <<acc[1], c.after>>
                             ELSE <<>>, signed, changes)

(* ------------------------------------------------------------------------ *)
(* Properties.                                                                *)

Decided(item) == item.state \in {"rejected", "stale"} \/ (item.state = "approved" /\ item.by = "person")

(* An item that reads as approved says what the person who signed it off     *)
(* approved, at every point of a batch, after a batch undone or cut short    *)
(* (_stale_on_edit, _set_trust, _kept_copy).                                 *)
ApprovedIsAsSigned == \A h \in HitsIn(ItemFiles) : h[2].state = "approved" => h[2].signed = Says(h[2])

(* A history the log calls complete leads, change by change, from what was   *)
(* approved to what the item says now, through renames, moves and the        *)
(* batches in between (changes_since_approval), as long as no change missed  *)
(* the log and no two items of a place had one name.                         *)
HistoryExplainsStale ==
    ~Batching /\ ~unrecorded /\ ~clashed =>
        \A h \in HitsIn(ItemFiles) :
            LET walk == ChangesSinceApproval(h[1], h[2])
            IN  h[2].state = "stale" /\ walk.at = "approval" /\ walk.whole
                => Replayed(h[2].signed, walk.changes) = Says(h[2])

(* A batch undone leaves every file as the batch found it, whatever its      *)
(* operations wrote and however often (_snapshot, _restore).                 *)
UndoneIsUntouched == [][Undo => files' = base]_vars

(* What a person is told of an item sent back to review is true: a batch     *)
(* reports exactly the entries it leaves so, under the names and places they *)
(* have at its end (apply), and their history explains them.                 *)
StaleIsReported == Commit /\ ~clashed => stale = {Key(h[1], h[2]) : h \in {g \in HitsIn(ItemFiles) : g[2].fresh}}
StaleIsTold == []HistoryExplainsStale /\ [][StaleIsReported]_vars

(* No move loses what a person decided of a join: the move that would have   *)
(* to is refused (_land_joins, _kept_copy).                                  *)
MoveKeepsDecisions ==
    [][\A t \in Tables, dst \in Areas : Move(t, dst) =>
         \A h \in HitsIn(JoinFiles) : Decided(h[2]) =>
             \E p \in JoinFiles : \E i \in files'[p] : Says(i) = Says(h[2]) /\ i.state = h[2].state]_vars
=============================================================================
