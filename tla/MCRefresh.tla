----------------------------- MODULE MCRefresh -----------------------------
(* A refresh over a child and a parent table joined on one column, on         *)
(* another, or on both, in a schema that retypes, drops, restores, keys and   *)
(* splits them; the sheets are those of MCModelSpec.                          *)
EXTENDS ModelFiles, MCModelSpec
CONSTANTS child, parent, ca, cb, pa, pb, int, txt

MCTables == {child, parent}
MCColumns == {ca, cb, pa, pb}
MCTableOf == [c \in MCColumns |-> IF c \in {ca, cb} THEN child ELSE parent]
LinkA == {<<ca, pa>>}
LinkB == {<<cb, pb>>}
MCLinks == {LinkA, LinkB, LinkA \cup LinkB}
MCApart == {LinkB}
MCReferences == {LinkA}
MCIds == {ca, pa}
MCTypes == {int, txt}

Ints == [c \in MCColumns |-> int]
Catalog(type, ck, pk, cu, pu, links, distinct) ==
    [type |-> type, key |-> [t \in MCTables |-> IF t = child THEN ck ELSE pk],
     uniques |-> [t \in MCTables |-> IF t = child THEN cu ELSE pu], links |-> links, distinct |-> distinct]

Split == Catalog(Ints, {}, {pa}, {}, {{pb}}, {LinkA, LinkB}, {pa, pb})
Simple == Catalog([Ints EXCEPT ![cb] = NoType], {}, {pa}, {}, {}, {LinkA}, {pa})
Distinct == [Split EXCEPT !.distinct = MCColumns]
Keyed == [Distinct EXCEPT !.key[child] = {cb}, !.uniques[child] = {{ca}}]
Retyped_ == [Split EXCEPT !.type = [Ints EXCEPT ![pa] = txt], !.links = {LinkB}]
Composite == Catalog(Ints, {}, {pa, pb}, {}, {}, {LinkA \cup LinkB}, {})
NoParent == [Catalog(Ints, {ca}, {}, {}, {}, {}, {ca}) EXCEPT !.type[pa] = NoType, !.type[pb] = NoType]
MCCatalogs == {Split, Simple, Distinct, Keyed, Retyped_, Composite, NoParent}
MCFirst == {Split}

Full ==
    [all |-> TRUE, scope |-> MCTables, unreadable |-> {}, keyUnread |-> {}, uniquesUnread |-> {},
     linksUnread |-> FALSE, overlaps |-> {}, probes |-> TRUE, excluded |-> {}]
MCOptions ==
    {Full, [Full EXCEPT !.all = FALSE, !.scope = {child}], [Full EXCEPT !.unreadable = {parent}],
     [Full EXCEPT !.uniquesUnread = {child}], [Full EXCEPT !.keyUnread = {parent}, !.probes = FALSE],
     [Full EXCEPT !.linksUnread = TRUE]}

Either == {"approved", "rejected"}
MCDecisions ==
    {"table"} \X {parent} \X Either \cup {"column"} \X {pa} \X {"rejected"} \cup {"join"} \X {LinkA} \X Either
    \cup {"join"} \X {LinkA \cup LinkB} \X Either \cup {"edit"} \X {LinkA, LinkA \cup LinkB} \X {"one_to_one"}
    \cup {<<"grain", child, {cb}>>, <<"add", LinkB, "many_to_one">>}
=============================================================================
