----------------------------- MODULE ServedModel -----------------------------
(* What a load of a datasource serves (semantic_model/loader.py), and the     *)
(* rules a model is held to (semantic_model/validator.py).                    *)
(*                                                                            *)
(* A model has the copies <<area, table>> its areas define, with the columns, *)
(* groups, grain, keys and filters of each; the tables its areas list (refs), *)
(* and joins, entities and metrics, each of an area or of none (Cross).  A    *)
(* load is given `gone`: what is on disk and was rejected by a person or      *)
(* found missing from the database.  All tables are of one schema.            *)
EXTENDS Integers, FiniteSets, FiniteSetsExt, Sequences, Functions

CONSTANTS
    Cross,          \* the area of what belongs to no single area
    Vocabulary,     \* what a document names: its [tables, columns, groups, ids]
    Documents,      \* the documents considered
    MaxGone         \* bound on what is rejected or missing

VARIABLES onDisk, lostItems

TableItem(copy) == <<"table", copy>>
ColumnItem(copy, k) == <<"column", copy, k>>
JoinItem(j) == <<"join", j.id>>
EntityItem(e) == <<"entity", e.id>>
MetricItem(x) == <<"metric", x.id>>
ItemsOf(disk) ==
    {TableItem(c) : c \in disk.copies}
    \cup (UNION {{ColumnItem(c, k) : k \in disk.columns[c]} : c \in disk.copies})
    \cup {JoinItem(j) : j \in disk.joins} \cup {EntityItem(e) : e \in disk.entities}
    \cup {MetricItem(x) : x \in disk.metrics}

Of(copies, t) == {c \in copies : c[2] = t}
Names(metrics) == {x.name : x \in metrics}

(* ------------------------------------------------------------------------ *)
(* One area at a time.                                                        *)

Pruned(groups, live) ==
    [g \in {h \in DOMAIN groups : groups[h] \cap live # {}} |-> groups[g] \cap live]

(* The groups an area shows of a table it defines; none named shows all.      *)
Narrowed(r, copies, groups) ==
    LET own == <<r.area, r.table>>
        kept == r.shows \cap DOMAIN groups[own]
    IN  CASE r.shows = {} \/ own \notin copies -> r
          [] OTHER -> [r EXCEPT !.shows = IF kept = DOMAIN groups[own] THEN {} ELSE kept]

(* _load_subject_area of every area, and the rejections among what belongs    *)
(* to no area.                                                                *)
LoadAreas(disk, gone) ==
    LET copies == {c \in disk.copies : TableItem(c) \notin gone}
        columns == [c \in copies |-> {k \in disk.columns[c] : ColumnItem(c, k) \notin gone}]
        groups == [c \in copies |-> Pruned(disk.groups[c], columns[c])]
    IN  [disk EXCEPT
            !.copies = copies,
            !.columns = columns,
            !.groups = groups,
            !.grain = Restrict(@, copies),
            !.keys = [c \in copies |-> {k \in @[c] : k \subseteq columns[c]}],
            !.filters = Restrict(@, copies),
            !.refs = {Narrowed(r, copies, groups) : r \in @},
            !.joins = {j \in @ : /\ JoinItem(j) \notin gone
                                 /\ j.area # Cross => {<<j.area, j.from>>, <<j.area, j.to>>} \subseteq copies},
            !.entities = {e \in @ : EntityItem(e) \notin gone},
            !.metrics = {x \in @ : MetricItem(x) \notin gone}]

(* ------------------------------------------------------------------------ *)
(* _Hidden: what is on disk and no copy serves.                               *)

Serves(m, t) == UNION {m.columns[c] : c \in Of(m.copies, t)}
TableHidden(disk, m, t) == Of(disk.copies, t) # {} /\ Of(m.copies, t) = {}
ColumnHidden(disk, m, t, k) ==
    /\ \E c \in Of(m.copies, t) : k \in disk.columns[c] \ m.columns[c]
    /\ k \notin Serves(m, t)
EndHidden(disk, m, t, k) == TableHidden(disk, m, t) \/ ColumnHidden(disk, m, t, k)
GroupRemoved(disk, m, t, g) ==
    /\ \E c \in Of(m.copies, t) : g \in DOMAIN disk.groups[c] \ DOMAIN m.groups[c]
    /\ \A c \in Of(m.copies, t) : g \notin DOMAIN m.groups[c]
AnyHidden(disk, m) ==
    \E c \in disk.copies : \/ TableHidden(disk, m, c[2])
                           \/ \E k \in disk.columns[c] : ColumnHidden(disk, m, c[2], k)

JoinOk(disk, m, j) ==
    \A p \in j.pairs : ~EndHidden(disk, m, j.from, p[1]) /\ ~EndHidden(disk, m, j.to, p[2])

(* Only the tables of the metric are looked at.                               *)
MetricOkByTable(disk, m, x) == \A t \in x.tables : ~TableHidden(disk, m, t)

(* A column of the metric's SQL carries no table: it is lost when a source    *)
(* table hides it and no source table serves it.                              *)
MetricOk(disk, m, x) ==
    /\ \A t \in x.tables : ~TableHidden(disk, m, t)
    /\ \A k \in x.reads : (\E t \in x.tables : ColumnHidden(disk, m, t, k))
                              => \E t \in x.tables : k \in Serves(m, t)

EntitiesServed(disk, m, entities) ==
    LET mapped(e) == {p \in e.maps : ~EndHidden(disk, m, p[1], p[2])}
    IN  {[e EXCEPT !.maps = mapped(e)] : e \in {f \in entities : f.maps = {} \/ mapped(f) # {}}}

DropUses(disk, m) ==
    LET without(c, ks) == {k \in ks : ~ColumnHidden(disk, m, c[2], k)}
    IN  IF ~AnyHidden(disk, m) THEN m
        ELSE [m EXCEPT
                !.grain = [c \in m.copies |-> without(c, @[c])],
                !.keys = [c \in m.copies |-> {k \in @[c] : without(c, k) = k}],
                !.filters = [c \in m.copies |-> {f \in @[c] : without(c, f) = f}],
                !.refs = {r \in @ : ~TableHidden(disk, m, r.table)},
                !.joins = {j \in @ : JoinOk(disk, m, j)},
                !.entities = EntitiesServed(disk, m, @),
                !.metrics = {x \in @ : MetricOk(disk, m, x)}]

(* ------------------------------------------------------------------------ *)
(* What is built on a metric that is not served goes with it.                 *)

DroppedWith(metrics, removed) ==
    {x \in metrics : (x.bases \cap removed) \ Names(metrics) # {}}

(* Only what a removed metric was a base of, and nothing built on that.       *)
WithoutRemovedBasesOnce(metrics, removed) == metrics \ DroppedWith(metrics, removed)

(* Until no served metric is built on a removed one.                          *)
WithoutRemovedBases(metrics, removed) ==
    LET left[n \in 0..Cardinality(metrics)] ==
            IF n = 0 THEN metrics
            ELSE left[n - 1] \ DroppedWith(left[n - 1], removed \cup (Names(metrics) \ Names(left[n - 1])))
    IN  left[Cardinality(metrics)]

(* An ambiguity without the anchors that are not served; one left with none   *)
(* is not served, and one that never had any concerns every question.         *)
Anchored(a) == a.tables # {} \/ a.columns # {} \/ a.groups # {} \/ a.metrics # {}
AmbiguitiesServed(disk, m, removed) ==
    LET kept(a) == [a EXCEPT
            !.tables = {t \in @ : ~TableHidden(disk, m, t)},
            !.columns = {p \in @ : ~EndHidden(disk, m, p[1], p[2])},
            !.groups = {p \in @ : ~TableHidden(disk, m, p[1]) /\ ~GroupRemoved(disk, m, p[1], p[2])},
            !.metrics = @ \ removed]
    IN  {a \in disk.ambiguities : ~Anchored(a)}
        \cup {kept(a) : a \in {b \in disk.ambiguities : Anchored(b) /\ Anchored(kept(b))}}

Served(disk, gone) ==
    LET loaded == LoadAreas(disk, gone)
        used == DropUses(disk, loaded)
        metrics == WithoutRemovedBases(used.metrics, Names(disk.metrics) \ Names(used.metrics))
        removed == Names(disk.metrics) \ Names(metrics)
    IN  [used EXCEPT !.metrics = metrics, !.ambiguities = AmbiguitiesServed(disk, loaded, removed)]

(* ------------------------------------------------------------------------ *)
(* The rules: each gives what of a model breaks it.                           *)

(* The copy a name means to the rules that read across areas: the last.       *)
OrgTable(m, t) == CHOOSE c \in Of(m.copies, t) :
                    \A d \in Of(m.copies, t) : m.order[d[1]] <= m.order[c[1]]

OrphanTableRefs(m) == {r \in m.refs : Of(m.copies, r.table) = {}}
UnknownColumnGroups(m) ==
    {r \in m.refs \ OrphanTableRefs(m) : ~(r.shows \subseteq DOMAIN m.groups[OrgTable(m, r.table)])}
GroupsMissingColumn(m) ==
    {c \in m.copies : \E g \in DOMAIN m.groups[c] : ~(m.groups[c][g] \subseteq m.columns[c])}
FiltersUnknownColumn(m) == {c \in m.copies : ~(UNION m.filters[c] \subseteq m.columns[c])}
MappingsUnknownColumn(m) ==
    {e \in m.entities : \E p \in e.maps : /\ <<e.area, p[1]>> \in m.copies
                                          /\ p[2] \notin m.columns[<<e.area, p[1]>>]}
AmbiguityUnknownAnchors(m) ==
    {a \in m.ambiguities :
        \/ \E t \in a.tables : Of(m.copies, t) = {}
        \/ \E p \in a.columns : p[2] \notin Serves(m, p[1])
        \/ \E p \in a.groups : \A c \in Of(m.copies, p[1]) : p[2] \notin DOMAIN m.groups[c]
        \/ ~(a.metrics \subseteq Names(m.metrics))}

(* A derived metric expands when every base it reaches is there and none is   *)
(* its own base.                                                              *)
Expands(m, x) ==
    LET basesOf(ns) == UNION {y.bases : y \in {z \in m.metrics : z.name \in ns}}
        reach[n \in 0..Cardinality(m.metrics)] ==
            IF n = 0 THEN x.bases ELSE reach[n - 1] \cup basesOf(reach[n - 1])
        all == reach[Cardinality(m.metrics)]
    IN  all \subseteq Names(m.metrics) /\ x.name \notin all
DerivedUnexpandable(m) == {x \in m.metrics : ~Expands(m, x)}

(* The rules that read each copy by itself, and those that read across areas. *)
ValidCopies(m) ==
    GroupsMissingColumn(m) = {} /\ FiltersUnknownColumn(m) = {} /\ MappingsUnknownColumn(m) = {}
ValidAcross(m) ==
    /\ OrphanTableRefs(m) = {} /\ UnknownColumnGroups(m) = {}
    /\ AmbiguityUnknownAnchors(m) = {} /\ DerivedUnexpandable(m) = {}
Valid(m) == ValidCopies(m) /\ ValidAcross(m)

(* ------------------------------------------------------------------------ *)

(* A model that passes its rules still passes them as it is served, whatever  *)
(* was rejected or went missing since (load_datasource's filters, each there  *)
(* because some rule would fail without it).  Two cases are left out: an      *)
(* area's view of a table another area defines is not narrowed on load, and   *)
(* of a table two areas define, a column one of them lost counts as served.   *)
ServedStaysValid(disk, gone) ==
    LET m == Served(disk, gone)
        twice == {c[2] : c \in {d \in disk.copies : Cardinality(Of(disk.copies, d[2])) > 1}}
        own == {r \in m.refs : <<r.area, r.table>> \in m.copies /\ r.table \notin twice}
    IN  Valid(disk) => /\ ValidAcross([m EXCEPT !.refs = own])
                       /\ twice = {} => ValidCopies(m)

(* The reference for what is served: the most that is not itself rejected and *)
(* that names nothing unserved.  What the model never had is not unserved.    *)
Unserved(disk, m, t, k) ==
    \/ Of(disk.copies, t) # {} /\ Of(m.copies, t) = {}
    \/ k \in Serves(disk, t) \ Serves(m, t)
MetricStands(disk, m, x, names) ==
    /\ \A t \in x.tables : Of(disk.copies, t) # {} => Of(m.copies, t) # {}
    /\ \A k \in x.reads : (\E t \in x.tables : k \in Serves(disk, t)) => \E t \in x.tables : k \in Serves(m, t)
    /\ x.bases \cap Names(disk.metrics) \subseteq names

(* Nothing served names a table, a column or a metric that is on disk and not *)
(* served, and nothing else is left out: each join and entity that still has  *)
(* its ends, and the largest set of metrics that have theirs and their bases. *)
ServesWhatStands(disk, gone) ==
    LET m == Served(disk, gone)
        unrejected == {x \in disk.metrics : MetricItem(x) \notin gone}
    IN  /\ m.metrics = UNION {s \in SUBSET unrejected : \A x \in s : MetricStands(disk, m, x, Names(s))}
        /\ m.joins = {j \in disk.joins :
                /\ JoinItem(j) \notin gone
                /\ j.area # Cross => {<<j.area, j.from>>, <<j.area, j.to>>} \subseteq m.copies
                /\ \A p \in j.pairs : ~Unserved(disk, m, j.from, p[1]) /\ ~Unserved(disk, m, j.to, p[2])}
        /\ {e.id : e \in m.entities} = {e.id : e \in {f \in disk.entities :
                EntityItem(f) \notin gone /\ (f.maps = {} \/ \E p \in f.maps : ~Unserved(disk, m, p[1], p[2]))}}
        /\ \A e \in m.entities : \A p \in e.maps : ~Unserved(disk, m, p[1], p[2])
        /\ \A c \in m.copies : \A k \in m.grain[c] : ~Unserved(disk, m, c[2], k)

(* ------------------------------------------------------------------------ *)
(* The documents: any, over finite sets of copies and metrics, whose copies   *)
(* of a table list alike what is named of it.                                 *)

(* The documents over some copies of tables.                                  *)
DocumentsOn(Areas, Tables, Columns, Groups, Ids, copies) ==
    [order : [Areas -> Int], copies : {copies},
     columns : [copies -> SUBSET Columns],
     groups : [copies -> UNION {[gs -> SUBSET Columns] : gs \in SUBSET Groups}],
     grain : [copies -> SUBSET Columns], keys : [copies -> SUBSET SUBSET Columns],
     filters : [copies -> SUBSET SUBSET Columns],
     refs : SUBSET [area : Areas, table : Tables, shows : SUBSET Groups],
     joins : SUBSET [id : Ids, area : Areas \cup {Cross}, from : Tables, to : Tables,
                     pairs : SUBSET (Columns \X Columns)],
     entities : SUBSET [id : Ids, area : Areas \cup {Cross}, maps : SUBSET (Tables \X Columns)],
     metrics : SUBSET [id : Ids, name : Ids, area : Areas \cup {Cross}, tables : SUBSET Tables,
                       reads : SUBSET Columns, bases : SUBSET Ids],
     ambiguities : SUBSET [id : Ids, tables : SUBSET Tables, columns : SUBSET (Tables \X Columns),
                           groups : SUBSET (Tables \X Groups), metrics : SUBSET Ids]]

(* What is named of a table is in every copy of it on disk, or in none.       *)
EvenColumn(disk, t, k) ==
    \A c, d \in Of(disk.copies, t) : k \in disk.columns[c] => k \in disk.columns[d]
EvenGroup(disk, t, g) ==
    \A c, d \in Of(disk.copies, t) : g \in DOMAIN disk.groups[c] => g \in DOMAIN disk.groups[d]
EvenlyListed(disk) ==
    /\ \A j \in disk.joins : \A p \in j.pairs : EvenColumn(disk, j.from, p[1]) /\ EvenColumn(disk, j.to, p[2])
    /\ \A e \in disk.entities : \A p \in e.maps : EvenColumn(disk, p[1], p[2])
    /\ \A x \in disk.metrics : \A t \in x.tables : \A k \in x.reads : EvenColumn(disk, t, k)
    /\ \A c \in disk.copies : \A k \in disk.grain[c] : EvenColumn(disk, c[2], k)
    /\ \A a \in disk.ambiguities : /\ \A p \in a.columns : EvenColumn(disk, p[1], p[2])
                                   /\ \A p \in a.groups : EvenGroup(disk, p[1], p[2])

ASSUME DocumentsAssumption ==
    \A d \in Documents :
        /\ d.copies \in SUBSET ((DOMAIN d.order) \X Vocabulary.tables)
        /\ IsFiniteSet(d.copies) /\ IsFiniteSet(d.metrics)
        /\ d \in DocumentsOn(DOMAIN d.order, Vocabulary.tables, Vocabulary.columns, Vocabulary.groups,
                         Vocabulary.ids, d.copies)
        /\ EvenlyListed(d)

(* One more thing of the document is rejected or found missing.               *)
LoseItem ==
    /\ Cardinality(lostItems) < MaxGone
    /\ \E item \in ItemsOf(onDisk) \ lostItems : lostItems' = lostItems \cup {item}
    /\ UNCHANGED onDisk

ServedInit == onDisk \in Documents /\ lostItems = {}
ServedSpec == ServedInit /\ [][LoseItem]_<<onDisk, lostItems>>

(* A load serves what is not rejected and names nothing unserved, and no      *)
(* less, and a model that passes its rules passes them as it is loaded.       *)
LoadServesWhatStands ==
    onDisk \in Documents => ServesWhatStands(onDisk, lostItems) /\ ServedStaysValid(onDisk, lostItems)

=============================================================================
