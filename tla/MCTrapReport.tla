---------------------------- MODULE MCTrapReport ----------------------------
(* Instances of TrapReport: three tables and two columns, and one of two      *)
(* dimensions with a measure between them and one on either side.             *)
EXTENDS TrapReport, TLC

CONSTANTS a, b, c, k, l

ThreeTables == {a, b, c}
TwoColumns == {k, l}

(* One declared edge of a - b, or one on a composite key and another the     *)
(* other way round on a simple one, both tables with keys; or, without keys, *)
(* a chain of two many-to-one edges.  A join of a and c is never declared.   *)
EdgeOn(ends, ones, cols) == [ends |-> ends, ones |-> ones, on |-> cols]
OneLink ==
    {{EdgeOn({a, b}, ones, {k})} : ones \in {{a}, {a, b}}}
    \cup {{EdgeOn({a, b}, {a}, {k, l}), EdgeOn({a, b}, {b}, {k})}}
TwoLinks == {{EdgeOn({a, b}, {e[1]}, {k}), EdgeOn({b, c}, {e[2]}, {k})} : e \in {<<b, b>>, <<a, c>>, <<a, b>>}}
Keyed(ts) == [t \in ThreeTables |-> IF t \in ts THEN {{k}} ELSE {}]
SomeModels == [edges: OneLink, keys: {Keyed({a, b})}] \cup [edges: TwoLinks, keys: {Keyed({})}]

TableOrGrouped == {"table", "grouped"}
SomeGrains == {{k}}
ACte == {"cte"}
ArmOrCte == {"arm", "cte"}
AnAgg(reads, arms, immune) == [reads |-> reads, arms |-> arms, immune |-> immune]
Read(t) == AnAgg({t}, {{t}}, FALSE)
SomeSelections ==
    {{Read(b)}, {Read(a), Read(c)}, {AnAgg({}, {{}}, FALSE)}}
    \cup {{AnAgg({a, b}, m, FALSE)} : m \in {{{a, b}}, {{a}, {b}}}}

(* Returns and sales meet at the products, sales and targets at the stores.   *)
FiveTables == {"returns", "products", "sales", "stores", "targets"}
OneColumn == {k}
ManyToOne(many, one) == [ends |-> {many, one}, ones |-> {one}, on |-> {k}]
TwoDimensions ==
    {[edges |-> {ManyToOne("returns", "products"), ManyToOne("sales", "products"),
                 ManyToOne("sales", "stores"), ManyToOne("targets", "stores")},
      keys |-> [t \in FiveTables |-> IF t \in {"products", "stores"} THEN {{k}} ELSE {}]]}
ThreeMeasures == {{Read("returns"), Read("sales"), Read("targets")}}
OnlyTables == {"table"}

=============================================================================
