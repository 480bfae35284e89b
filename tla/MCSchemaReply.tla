---------------------------- MODULE MCSchemaReply ----------------------------
(* Models of two areas with up to two joins, and calls of up to two names.    *)
EXTENDS SchemaReply, TLC

Named(schema, name) == [schema |-> schema, name |-> name]
ATable(schema, name, area) ==
    [schema |-> schema, name |-> name, area |-> area, columns |-> {"k", "x", "y", "z"},
     groups |-> <<>>, grain |-> {"k"}, flagged |-> {}, shows |-> {}]

(* `o` is in two schemas, each in its own area; or no table has a schema.     *)
Orders == [ATable("p", "o", "A") EXCEPT !.groups = "g" :> {"x"} @@ "h" :> {"y"}]
InTwoSchemas == {Orders, ATable("q", "o", "B"), ATable("p", "c", "A")}
SomeTables == {InTwoSchemas,
               {ATable(Unnamed, "o", "A"), ATable(Unnamed, "c", "A"), ATable(Unnamed, "d", "B")}}

Kind(card, join, cond, split) == [card |-> card, join |-> join, cond |-> cond, split |-> split]
KeyKinds == {Kind("many_to_one", "LEFT", FALSE, FALSE), Kind("one_to_many", "RIGHT", FALSE, FALSE)}
Kinds == KeyKinds \cup {Kind("one_to_one", "INNER", TRUE, FALSE), Kind("many_to_one", "LEFT", FALSE, TRUE)}
AnEdge(e, f, key, kind) ==
    [from |-> Id(e), to |-> Id(f), key |-> key, area |-> IF e.area = f.area THEN e.area ELSE Unnamed,
     card |-> kind.card, join |-> kind.join, cond |-> kind.cond, split |-> kind.split]
KindOf(e) == Kind(e.card, e.join, e.cond, e.split)

(* One join, or two that share an end by name and are of one kind, or that    *)
(* join the same two tables.                                                  *)
FirstEdges(ts) == {AnEdge(e, f, <<1, 2>>, kind) : e, f \in ts, kind \in Kinds}
SecondEdges(ts, first) ==
    {g \in {AnEdge(e, f, <<1, 3>>, kind) : e, f \in ts, kind \in KeyKinds} :
        \/ {g.from, g.to} = {first.from, first.to}
        \/ KindOf(g) = KindOf(first) /\ {g.from.name, g.to.name} \cap {first.from.name, first.to.name} # {}}
EdgeSets(ts) == {{e} : e \in FirstEdges(ts)}
                \cup UNION {{{e, f} : f \in SecondEdges(ts, e)} : e \in FirstEdges(ts)}

SomeMetrics ==
    {[name |-> "m1", area |-> "A", described |-> TRUE, tables |-> {"o"}, reads |-> {"x"}],
     [name |-> "m2", area |-> "A", described |-> FALSE, tables |-> {}, reads |-> {}],
     [name |-> "m3", area |-> Unnamed, described |-> TRUE, tables |-> {"d"}, reads |-> {"y"}]}
AmbiguityOn(name, tables, columns, groups, metrics) ==
    [name |-> name, tables |-> tables, columns |-> columns, groups |-> groups, metrics |-> metrics]
SomeAmbiguities ==
    {AmbiguityOn("a1", {"o"}, {}, {}, {}), AmbiguityOn("a2", {}, {<<Named(Unnamed, "o"), "x">>}, {}, {}),
     AmbiguityOn("a3", {}, {<<Named("p", "o"), "y">>}, {<<Named("p", "o"), "h">>}, {}),
     AmbiguityOn("a4", {}, {}, {}, {"m3"}), AmbiguityOn("a5", {}, {}, {}, {"m2"}),
     AmbiguityOn("a6", {}, {}, {}, {})}

JoinModels == {[areas |-> <<"A", "B">>, tables |-> ts, edges |-> es, metrics |-> {}, ambiguities |-> {}] :
                    <<ts, es>> \in UNION {{ts} \X EdgeSets(ts) : ts \in SomeTables}}
WideModels ==
    {[areas |-> <<"A", "B">>, edges |-> {}, metrics |-> SomeMetrics, ambiguities |-> SomeAmbiguities,
      tables |-> (InTwoSchemas \ {Orders}) \cup {ATable("q", "d", "B"), [Orders EXCEPT !.shows = shows, !.flagged = flagged]}] :
        shows \in {{"g"}, {"h"}}, flagged \in {{}, {"y"}}}
SchemaModels == JoinModels \cup WideModels

(* Every name bare and with its schema, and one with a schema it is not in.   *)
NamesIn(m) == {Id(t) : t \in m.tables} \cup {Named(Unnamed, t.name) : t \in m.tables} \cup {Named("q", "c")}
Asks(m) == {<<n>> : n \in NamesIn(m)} \cup {SetToSeq(pair) : pair \in kSubset(2, NamesIn(m))}
Plain == [tables |-> <<>>, area |-> Unnamed, mode |-> "full", shed |-> FALSE, metrics |-> {}, groups |-> {},
          ambiguities |-> {}]
SomeCalls(m) ==
    IF m.edges # {} THEN {[Plain EXCEPT !.tables = ask] : ask \in Asks(m)}
    ELSE [tables: {<<>>} \cup Asks(m), area: {Unnamed, "A"}, mode: {"full", "summary", "index"}, shed: BOOLEAN,
          metrics: {{}, {"m2", "other"}}, ambiguities: {{}},
          groups: {{}, {[table |-> Unnamed, group |-> "g"]}, {[table |-> Named("q", "o"), group |-> "h"]}}]

=============================================================================
