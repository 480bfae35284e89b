----------------------------- MODULE SchemaReply -----------------------------
(* What get_datasource_schema answers (tools.py, with the table lookup of     *)
(* semantic_model/loader.py): which tables, joins, columns, metrics and       *)
(* ambiguities of a model a call receives.                                    *)
(*                                                                            *)
(* A model is [areas, tables, edges, metrics, ambiguities].  Each table is    *)
(* defined in one area; either every table has a schema or none has, and an   *)
(* edge gives its ends the schemas their tables have.  No two edges join the  *)
(* same ends on the same key.  A name, in a call or an anchor, is             *)
(* [schema, name], with no schema where it is written bare.  The size of the  *)
(* JSON is not modelled: a call's `mode` is the rung its reply ends on, and   *)
(* `shed` says that even the last rung was too large.                         *)
EXTENDS Integers, Sequences, FiniteSets, FiniteSetsExt, Functions, SequencesExt

CONSTANTS
    Unnamed,        \* no schema, no area, no table named
    ServedModels,   \* the models considered
    CallsFor(_)     \* the calls considered against a model

VARIABLES modelServed, request

Id(t) == [schema |-> t.schema, name |-> t.name]
NamesOf(ids) == {i.name : i \in ids}
TableOf(m, id) == CHOOSE t \in m.tables : Id(t) = id

(* ------------------------------------------------------------------------ *)
(* Tables by name.                                                            *)

(* A bare name is every table so called; one with a schema is that table, or  *)
(* the only one so called when it has no schema.                              *)
FindTables(m, q, area) ==
    LET called == {t \in m.tables : t.name = q.name /\ area \in {Unnamed, t.area}}
        exact == {t \in called : t.schema = q.schema}
        unique == Cardinality(called) = 1 /\ \A t \in called : t.schema = Unnamed
    IN  IF q.schema = Unnamed \/ (exact = {} /\ unique) THEN called ELSE exact

DisplayName(m, t) ==
    IF \E u \in m.tables : u.name = t.name /\ u.schema # t.schema THEN Id(t) ELSE [Id(t) EXCEPT !.schema = Unnamed]

(* ------------------------------------------------------------------------ *)
(* The joins of a call that names tables.                                     *)

(* The tables asked for are looked up area by area; the names no table        *)
(* answers to form a group of no area.                                        *)
Owners(m, q) == LET defining == {t.area : t \in FindTables(m, q, Unnamed)}
                IN  IF defining = {} THEN {Unnamed} ELSE defining
InGroup(m, asked, a) == {q \in ToSet(asked) : a \in Owners(m, q)}

(* An edge is read where its area is, or everywhere if it crosses areas.      *)
RelationshipsAmong(m, asked, a) ==
    LET names == NamesOf(InGroup(m, asked, a))
    IN  {e \in m.edges : /\ a = Unnamed \/ e.area \in {Unnamed, a}
                         /\ {e.from.name, e.to.name} \cap names # {}}

(* With full detail when both ends are among the names of the same group.     *)
BothEndsRequested(m, asked, a, e) ==
    LET group == InGroup(m, asked, a)
        requested(end) == IF \A q \in group : q.schema = Unnamed THEN end.name \in NamesOf(group)
                          ELSE end \in group \/ (end.schema = Unnamed /\ end.name \in NamesOf(group))
    IN  requested(e.from) /\ requested(e.to)

(* The edges of all groups, each as the first group that read it gave it: the *)
(* groups come in the order of the call, and those of a name by their areas.  *)
EdgesSent(m, asked) ==
    LET readers(k, e) == {a \in Owners(m, asked[k]) : e \in RelationshipsAmong(m, asked, a)}
        sent == {e \in m.edges : \E k \in DOMAIN asked : readers(k, e) # {}}
        first(e) == LET group == readers(Min({k \in DOMAIN asked : readers(k, e) # {}}), e)
                    IN  IF Unnamed \in group THEN Unnamed
                        ELSE m.areas[Min({i \in DOMAIN m.areas : m.areas[i] \in group})]
    IN  {[edge |-> e, full |-> BothEndsRequested(m, asked, first(e), e)] : e \in sent}

(* Bare edges that join the same two tables the same way become one entry.    *)
Entry(e, keys, full) == [from |-> e.from, to |-> e.to, card |-> e.card, join |-> e.join,
                         cond |-> e.cond, split |-> e.split, keys |-> keys, full |-> full]
MergeLeanPairs(sent) ==
    LET alike(s) == {u \in sent : Entry(u.edge, {}, u.full) = Entry(s.edge, {}, s.full)}
        whole(s) == s.full \/ s.edge.cond \/ s.edge.split
    IN  {Entry(s.edge, IF whole(s) THEN {s.edge.key} ELSE {u.edge.key : u \in alike(s)}, s.full) : s \in sent}

Reversed(key) == <<key[2], key[1]>>
Flip(card) == CASE card = "many_to_one" -> "one_to_many" [] card = "one_to_many" -> "many_to_one" [] OTHER -> card
FlipJoin(join) == CASE join = "LEFT" -> "RIGHT" [] join = "RIGHT" -> "LEFT" [] OTHER -> join

(* An entry to a table the call did not name, read from the end it did name.  *)
FromNear(r, forward) ==
    IF forward THEN r
    ELSE [r EXCEPT !.from = r.to, !.to = r.from, !.card = Flip(@), !.join = FlipJoin(@),
                   !.keys = IF r.cond THEN @ ELSE {Reversed(k) : k \in @}]

(* Whole only when both of its tables are named, or it crosses engines.       *)
StaysWholeByName(r, returned) == {r.from.name, r.to.name} \subseteq NamesOf(returned) \/ r.split

(* It stays whole when the table named is not surely the one it leaves from.  *)
StaysWhole(r, returned) ==
    LET named == NamesOf(returned)
        near == IF r.from.name \in named THEN r.from ELSE r.to
    IN  \/ {r.from.name, r.to.name} \subseteq named
        \/ r.split
        \/ near.schema # Unnamed /\ near \notin returned
        \/ Cardinality({i \in returned : i.name = near.name}) > 1

(* `returned` maps the names the reply gives its tables to their schemas.     *)
CompactOtherJoins(entries, shown) ==
    LET returned == {[schema |-> IF n.schema = Unnamed THEN shown[n] ELSE n.schema, name |-> n.name] :
                        n \in DOMAIN shown}
        kept == {r \in entries : StaysWhole(r, returned)}
        near(r) == FromNear(r, r.from.name \in NamesOf(returned))
        bare(name) == [schema |-> Unnamed, name |-> name]
        schemaOf(name) == IF bare(name) \in DOMAIN shown THEN shown[bare(name)] ELSE Unnamed
        slot(r) == [table |-> r.to.name, from |-> r.from.name, card |-> r.card, join |-> r.join,
                    cond |-> r.cond,
                    schema |-> IF r.to.schema = schemaOf(r.from.name) THEN Unnamed ELSE r.to.schema]
        others == {near(r) : r \in entries \ kept}
    IN  [kept |-> kept,
         compact |-> {[slot |-> slot(r), keys |-> UNION {o.keys : o \in {p \in others : slot(p) = slot(r)}}] :
                        r \in others}]

(* ------------------------------------------------------------------------ *)
(* Scope: what the call declared.                                             *)

Level(call) == CASE call.tables # <<>> -> "table"
                 [] call.tables = <<>> /\ call.area # Unnamed -> "area"
                 [] OTHER -> "datasource"

Refused(m, call) ==
    \/ call.area # Unnamed /\ call.area \notin ToSet(m.areas)
    \/ call.tables # <<>> /\ call.area # Unnamed
          /\ \E q \in ToSet(call.tables) : FindTables(m, q, call.area) = {}
    \/ call.tables # <<>> /\ \A q \in ToSet(call.tables) : \A t \in m.tables : q.name # t.name

(* The names looked up: an area's own copies, where an area is declared too.  *)
Wanted(m, call) ==
    IF call.area = Unnamed THEN call.tables
    ELSE SetToSeq(UNION {{DisplayName(m, t) : t \in FindTables(m, q, call.area)} : q \in ToSet(call.tables)})

AreasOwning(m, names) == {t.area : t \in {u \in m.tables : u.name \in names}}

ScopedMetrics(m, call) ==
    LET wanted == NamesOf(ToSet(call.tables))
    IN  CASE Level(call) = "datasource" -> m.metrics
          [] Level(call) = "area" -> {x \in m.metrics : x.area \in {Unnamed, call.area}}
          [] Level(call) = "table" ->
                {x \in m.metrics : \/ x.area = Unnamed
                                   \/ x.tables \cap wanted # {}
                                   \/ x.tables = {} /\ x.area \in AreasOwning(m, wanted)}

MetricsInFull(m, call) ==
    LET matched == {x \in ScopedMetrics(m, call) : x.name \in call.metrics}
        shed == call.shed /\ call.mode = "index" /\ Level(call) # "table"
    IN  CASE shed -> {}
          [] ~shed /\ matched # {} -> matched
          [] OTHER -> IF Level(call) = "table" \/ call.mode = "full" THEN ScopedMetrics(m, call) ELSE {}

(* ------------------------------------------------------------------------ *)
(* The columns of a table.                                                    *)

VisibleColumns(t) ==
    LET allowed == UNION {t.groups[g] : g \in t.shows \cap DOMAIN t.groups}
    IN  IF allowed = {} THEN t.columns ELSE t.columns \cap allowed

Grouped(t) == UNION Range(t.groups)
GroupsListed(t) ==
    Restrict([g \in DOMAIN t.groups |-> t.groups[g] \cap VisibleColumns(t)],
             {g \in DOMAIN t.groups : t.groups[g] \cap VisibleColumns(t) # {}})
GroupsWanted(t, asked) ==
    {g \in DOMAIN t.groups : \E p \in asked :
        /\ p.group = g
        /\ p.table = Unnamed \/ (p.table.name = t.name /\ p.table.schema \in {Unnamed, t.schema})}

(* In full: what every query needs, what the call asks for, and what no group *)
(* would name.                                                                *)
OnlyNeededColumns(m, call, t) ==
    LET words == UNION {x.reads : x \in MetricsInFull(m, call)}
        needed == t.grain \cup t.flagged \cup words \cup UNION {t.groups[g] : g \in GroupsWanted(t, call.groups)}
    IN  IF DOMAIN t.groups = {} THEN VisibleColumns(t) ELSE VisibleColumns(t) \cap needed
GroupWideColumns(m, call, t) ==
    LET words == UNION {x.reads : x \in MetricsInFull(m, call)}
        needed == t.grain \cup t.flagged \cup words \cup UNION {t.groups[g] : g \in GroupsWanted(t, call.groups)}
    IN  {k \in VisibleColumns(t) : DOMAIN t.groups = {} \/ k \in needed \/ k \notin Grouped(t)}

(* ------------------------------------------------------------------------ *)
(* The ambiguities: in full where the reply opens what one is about, and as a *)
(* signpost where it only reaches it.                                         *)

Candidates(m, q) == {t \in m.tables : t.name = q.name /\ (q.schema = Unnamed \/ t.schema \in {q.schema, Unnamed})}

(* opened: the tables the reply carries, each with the columns in full, or    *)
(* every column where it is not split into groups.                            *)
AmbiguityReach(m, call, opened, a) ==
    LET columns == {p \in a.columns : \E t \in Candidates(m, p[1]) :
                        t.shows = {} \/ \E g \in t.shows \cap DOMAIN t.groups : p[2] \in t.groups[g]}
        groups == {p \in a.groups : \E t \in Candidates(m, p[1]) : t.shows = {} \/ p[2] \in t.shows}
        copies(q) == Candidates(m, q) \cap DOMAIN opened
        open == \/ \E t \in DOMAIN opened : t.name \in a.tables
                \/ \E p \in columns : \E t \in copies(p[1]) : p[2] \in opened[t]
                \/ \E p \in groups : \E t \in copies(p[1]) :
                        \/ GroupsListed(t) = <<>>
                        \/ \E u \in Candidates(m, p[1]) : /\ p[2] \in DOMAIN u.groups /\ u.groups[p[2]] # {}
                                                         /\ u.groups[p[2]] \subseteq opened[t]
                \/ \E x \in MetricsInFull(m, call) : x.name \in a.metrics
        tables == a.tables \cup {p[1].name : p \in columns \cup groups}
        inScope == CASE Level(call) = "datasource" -> NamesOf(m.tables)
                     [] Level(call) = "area" -> NamesOf({t \in m.tables : t.area = call.area})
                     [] Level(call) = "table" -> NamesOf(ToSet(call.tables))
        tied == tables # {} \/ a.metrics # {}
    IN  CASE tied /\ open -> "open"
          [] tied /\ ~open /\ (\/ Level(call) = "datasource" \/ tables \cap inScope # {}
                               \/ \E x \in ScopedMetrics(m, call) : x.name \in a.metrics) -> "reached"
          [] OTHER -> "out"

AddAmbiguities(m, call, opened) ==
    LET whole == {a \in m.ambiguities : /\ a.tables = {} /\ a.columns = {} /\ a.groups = {} /\ a.metrics = {}}
        full == {a \in m.ambiguities : /\ a.name \notin call.ambiguities /\ a \notin whole
                                       /\ AmbiguityReach(m, call, opened, a) = "open"}
        named == {a \in m.ambiguities : a.name \in call.ambiguities}
    IN  [full |-> whole \cup named \cup full,
         signposts |-> {a \in m.ambiguities \ (whole \cup named) : AmbiguityReach(m, call, opened, a) = "reached"}]

(* ------------------------------------------------------------------------ *)

(* The reply: the tables with the columns each has in full, the names it      *)
(* could not resolve, the joins, the metrics listed, and the ambiguities.     *)
Reply(m, call) ==
    LET byTable == Level(call) = "table"
        asked == Wanted(m, call)
        found == UNION {FindTables(m, q, Unnamed) : q \in ToSet(asked)}
        missed == {q \in ToSet(asked) : FindTables(m, q, Unnamed) = {}}
        inArea == {t \in m.tables : call.area \in {Unnamed, t.area}}
        tables == IF byTable THEN found ELSE IF call.mode = "full" THEN inArea ELSE {}
        columns == [t \in tables |-> IF byTable THEN GroupWideColumns(m, call, t) ELSE VisibleColumns(t)]
        opened == [t \in tables |-> IF byTable /\ GroupsListed(t) # <<>> THEN columns[t] ELSE t.columns]
        shown == [n \in {DisplayName(m, t) : t \in found} \cup missed |->
                    IF n \in missed THEN Unnamed ELSE (CHOOSE t \in found : DisplayName(m, t) = n).schema]
    IN  [columns |-> columns,
         groups |-> [t \in tables |-> IF byTable THEN GroupsListed(t) ELSE <<>>],
         listed |-> IF byTable \/ call.mode = "index" THEN {} ELSE inArea,
         missed |-> missed,
         joins |-> IF byTable THEN CompactOtherJoins(MergeLeanPairs(EdgesSent(m, asked)), shown)
                   ELSE [kept |-> {}, compact |-> {}],
         metricsInFull |-> MetricsInFull(m, call),
         metricIndex |-> {x \in ScopedMetrics(m, call) : x.described},
         undescribed |-> Cardinality({x \in ScopedMetrics(m, call) : ~x.described}),
         unknownMetrics |-> call.metrics \ {x.name : x \in ScopedMetrics(m, call)},
         unknownGroups |-> {p \in call.groups : byTable /\ \A t \in tables : p.group \notin GroupsWanted(t, {p})},
         ambiguities |-> AddAmbiguities(m, call, opened)]

(* ------------------------------------------------------------------------ *)
(* The reference.                                                             *)

(* The joins a reader finds in a reply.  The compact form names the table at  *)
(* hand and, only when it differs, the schema of the other one.               *)
JoinOf(from, to, key, card, join, cond, split) ==
    [from |-> from, to |-> to, key |-> key, card |-> card, join |-> join, cond |-> cond, split |-> split]
ReadWhole(r) == {JoinOf(r.from, r.to, k, r.card, r.join, r.cond, r.split) : k \in r.keys}
ReadCompact(returned, c) ==
    {JoinOf(Id(near),
          [schema |-> IF c.slot.schema = Unnamed THEN near.schema ELSE c.slot.schema, name |-> c.slot.table],
          k, c.slot.card, c.slot.join, c.slot.cond, FALSE) :
        near \in {t \in returned : t.name = c.slot.from}, k \in c.keys}

(* A join read from its other end is the same join.                           *)
Turned(j) == [j EXCEPT !.from = j.to, !.to = j.from, !.card = Flip(@), !.join = FlipJoin(@),
                       !.key = IF j.cond THEN @ ELSE Reversed(@)]
EitherWay(js) == js \cup {Turned(j) : j \in js}
DeclaredJoins(edges) == {JoinOf(e.from, e.to, e.key, e.card, e.join, e.cond, e.split) : e \in edges}

(* Whatever way the joins of a reply were merged, turned round and shortened, *)
(* reading it back gives every declared join of a table it returns, with its  *)
(* cardinality, its outer side and its condition, and no join the model does  *)
(* not declare (_table_contexts, _merge_lean_pairs, _compact_other_joins).    *)
JoinsReadBack(m, call) ==
    Level(call) = "table" /\ ~Refused(m, call) =>
        LET reply == Reply(m, call)
            returned == DOMAIN reply.columns
            read == (UNION {ReadWhole(r) : r \in reply.joins.kept})
                    \cup (UNION {ReadCompact(returned, c) : c \in reply.joins.compact})
            touching == {e \in m.edges : {e.from, e.to} \cap {Id(t) : t \in returned} # {}}
        IN  /\ EitherWay(read) \subseteq EitherWay(DeclaredJoins(m.edges))
            /\ DeclaredJoins(touching) \subseteq EitherWay(read)

GroupsShown(t) == IF t.shows = {} THEN DOMAIN t.groups ELSE t.shows \cap DOMAIN t.groups

(* Within the scope a call declared nothing is left out without a word.       *)
(* Every table asked for is returned or named as missed.  Every column its    *)
(* area shows is sent in full or named in a group the call can ask for.       *)
(* Every metric that may read a table in scope is listed, sent or counted,    *)
(* and every metric asked for is sent or reported.  An ambiguity about        *)
(* anything sent is sent, and about anything else named, it is signposted,    *)
(* but for the groups its area does not show (_tool_get_datasource_schema,    *)
(* _group_wide_columns, _scoped_metrics, _add_ambiguities).                   *)
NothingInScopeIsHidden(m, call) ==
    ~Refused(m, call) =>
        LET reply == Reply(m, call)
            tables == DOMAIN reply.columns
            named(t) == reply.columns[t] \cup UNION Range(reply.groups[t])
            scope == CASE Level(call) = "table" -> tables
                       [] Level(call) # "table" -> {t \in m.tables : call.area \in {Unnamed, t.area}}
            mayRead(x) == \/ x.area = Unnamed
                          \/ \E t \in scope : t.area = x.area /\ (x.tables = {} \/ t.name \in x.tables)
            about(a, t, ks) == \/ \E p \in a.columns : t \in Candidates(m, p[1]) /\ p[2] \in ks
                               \/ \E p \in a.groups : /\ t \in Candidates(m, p[1]) /\ p[2] \in GroupsShown(t)
                                                       /\ t.groups[p[2]] # {} /\ t.groups[p[2]] \subseteq ks
        IN  /\ \A q \in ToSet(call.tables) : \/ q \in reply.missed
                                             \/ {} # FindTables(m, q, call.area) /\ FindTables(m, q, call.area) \subseteq tables
            /\ \A t \in tables : VisibleColumns(t) \subseteq named(t)
            /\ \A g \in call.groups : g \in reply.unknownGroups \/ Level(call) # "table" \/ \E t \in tables :
                    g.group \in DOMAIN t.groups /\ t.groups[g.group] \cap VisibleColumns(t) \subseteq reply.columns[t]
            /\ LET apply == {x \in m.metrics : mayRead(x)}
               IN  /\ {x \in apply : x.described} \subseteq reply.metricIndex
                   /\ Cardinality({x \in apply : ~x.described}) <= reply.undescribed
                   /\ \A n \in call.metrics : \/ n \in reply.unknownMetrics
                                              \/ call.shed /\ Level(call) # "table"
                                              \/ \E x \in reply.metricsInFull : x.name = n
            /\ \A a \in m.ambiguities :
                /\ \/ \E t \in tables : t.name \in a.tables \/ about(a, t, reply.columns[t])
                   \/ \E x \in reply.metricsInFull : x.name \in a.metrics
                   => a \in reply.ambiguities.full
                /\ \/ \E t \in tables : about(a, t, named(t))
                   \/ \E t \in reply.listed : t.name \in a.tables
                   \/ \E x \in reply.metricIndex : x.name \in a.metrics
                   => a \in reply.ambiguities.full \cup reply.ambiguities.signposts

(* ------------------------------------------------------------------------ *)

(* A model as it is loaded: the groups an area shows of a table are groups of *)
(* it and none is empty (_prune_column_groups, _reconcile_table_ref_exposes), *)
(* and the joins of an area are between its own tables.                       *)
AsLoaded(m) ==
    /\ IsFiniteSet(m.tables) /\ IsFiniteSet(m.metrics)
    /\ m.areas \in Seq(ToSet(m.areas)) /\ Unnamed \notin ToSet(m.areas)
    /\ \A t \in m.tables :
          /\ t.area \in ToSet(m.areas)
          /\ t.shows \subseteq DOMAIN t.groups
          /\ \A g \in DOMAIN t.groups : t.groups[g] # {} /\ t.groups[g] \subseteq t.columns
    /\ \A t, u \in m.tables : (Id(t) = Id(u) => t = u) /\ (t.schema = Unnamed => u.schema = Unnamed)
    /\ \A e \in m.edges :
          /\ \E t, u \in m.tables : /\ e.from = Id(t) /\ e.to = Id(u)
                                    /\ e.area # Unnamed => t.area = e.area /\ u.area = e.area
          /\ e.key = <<e.key[1], e.key[2]>> /\ {e.cond, e.split} \subseteq BOOLEAN

ASSUME RepliesAssumption ==
    \A m \in ServedModels : AsLoaded(m) /\ \A c \in CallsFor(m) : c.tables \in Seq(ToSet(c.tables))

(* A call is made of a model.                                                 *)
AskInit == modelServed \in ServedModels /\ request = Unnamed
AskNext == request = Unnamed /\ request' \in CallsFor(modelServed) /\ UNCHANGED modelServed
AskSpec == AskInit /\ [][AskNext]_<<modelServed, request>>

(* A schema reply says what the model says: its joins read back as the joins  *)
(* the model declares, and nothing of its scope is left out without a word.   *)
ReplyIsWhole ==
    request # Unnamed => JoinsReadBack(modelServed, request) /\ NothingInScopeIsHidden(modelServed, request)

=============================================================================
