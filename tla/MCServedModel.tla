---------------------------- MODULE MCServedModel ----------------------------
(* Two documents of two areas: in the second, both areas define table t.      *)
EXTENDS ServedModel, TLC

At(area, table) == <<area, table>>
InTwoGroups == "g" :> {"k"} @@ "h" :> {"x"}
Shown(area, table, groups) == [area |-> area, table |-> table, shows |-> groups]
AMetric(name, tables, reads, bases) ==
    [id |-> name, name |-> name, area |-> Cross, tables |-> tables, reads |-> reads, bases |-> bases]
AnAmbiguity(id, tables, columns, groups, metrics) ==
    [id |-> id, tables |-> tables, columns |-> columns, groups |-> groups, metrics |-> metrics]

DefinedOnce ==
    [order |-> "A" :> 1 @@ "B" :> 2,
     copies |-> {At("A", "t"), At("A", "u"), At("B", "v")},
     columns |-> At("A", "t") :> {"k", "x"} @@ At("A", "u") :> {"k", "y"} @@ At("B", "v") :> {"k"},
     groups |-> At("A", "t") :> InTwoGroups @@ At("A", "u") :> <<>> @@ At("B", "v") :> <<>>,
     grain |-> [c \in {At("A", "t"), At("A", "u"), At("B", "v")} |-> {"k"}],
     keys |-> At("A", "t") :> {{"k"}, {"k", "x"}} @@ At("A", "u") :> {} @@ At("B", "v") :> {},
     filters |-> At("A", "t") :> {{"x"}} @@ At("A", "u") :> {{"y"}} @@ At("B", "v") :> {},
     refs |-> {Shown("A", "t", {"h"}), Shown("A", "u", {}), Shown("B", "v", {}), Shown("B", "t", {"h"})},
     joins |-> {[id |-> "j1", area |-> "A", from |-> "t", to |-> "u", pairs |-> {<<"k", "k">>}],
                [id |-> "j2", area |-> Cross, from |-> "t", to |-> "v", pairs |-> {<<"k", "k">>}]},
     entities |-> {[id |-> "e1", area |-> "A", maps |-> {<<"t", "x">>, <<"u", "y">>}]},
     metrics |-> {AMetric("m1", {"t"}, {"x"}, {}), AMetric("m2", {"t", "u"}, {"y", "k"}, {}),
                  AMetric("m3", {}, {}, {"m1"}), AMetric("m4", {}, {}, {"m3", "m2"})},
     ambiguities |-> {AnAmbiguity("a1", {}, {<<"t", "x">>}, {<<"t", "h">>}, {"m3"}),
                      AnAmbiguity("a2", {"u"}, {}, {}, {}), AnAmbiguity("a3", {}, {}, {}, {"m4"})}]

DefinedTwice ==
    LET again == At("B", "t")
    IN  [DefinedOnce EXCEPT
            !.copies = @ \cup {again}, !.columns = @ @@ again :> {"k", "x"},
            !.groups = @ @@ again :> InTwoGroups, !.grain = @ @@ again :> {"k"},
            !.keys = @ @@ again :> {}, !.filters = @ @@ again :> {}]

SomeDocuments == {DefinedOnce, DefinedTwice}

SomeNames == [tables |-> {"t", "u", "v"}, columns |-> {"k", "x", "y"}, groups |-> {"g", "h"},
              ids |-> {"m1", "m2", "m3", "m4", "j1", "j2", "e1", "a1", "a2", "a3"}]

=============================================================================
