----------------------------- MODULE MCModelSpec -----------------------------
(* What ModelSpec is given: three tables in two areas, one join inside an     *)
(* area and one between, in its own file or in datasource.yaml, and a metric  *)
(* a person signed off; sheets that keep the areas, make them one, drop a     *)
(* table with its area, and name an area they do not declare.                 *)
EXTENDS TLC
CONSTANTS nowhere, north, south, t1, t2, t3, j12, j23, total, other_total, rule

MSAreas == {north, south}
MSTables == {t1, t2, t3}
MSJoins == {j12, j23}
MSFrom == j12 :> t1 @@ j23 :> t2
MSTo == j12 :> t2 @@ j23 :> t3

MSDir(listed, owned, joins, metrics) ==
    [listed |-> listed, owned |-> owned, hidden |-> {}, joins |-> joins, metrics |-> metrics]
Guessed == [link |-> j23, state |-> "unreviewed"]
Signed == [name |-> total, reads |-> {t1}, state |-> "approved"]

MSFirst ==
    {[areas |-> MSAreas, cross |-> {Guessed} \ b, beside |-> b, anchors |-> {}, rules |-> {},
      dir |-> north :> MSDir({t1, t2}, {t1, t2}, {[link |-> j12, state |-> "approved"]}, {Signed})
           @@ south :> MSDir({t3, t2}, {t3}, {}, {})] : b \in {{}, {Guessed}}}

Summed(area) == [area |-> area, name |-> total, reads |-> {t2}, approved |-> TRUE]
Sheet(areas, owner, also, joins, approved, metrics, rules) ==
    [wellFormed |-> TRUE, areas |-> areas, owner |-> t1 :> owner[1] @@ t2 :> owner[2] @@ t3 :> owner[3],
     also |-> [t \in MSTables |-> IF t = t2 THEN also ELSE {}],
     joins |-> joins, approved |-> approved, metrics |-> metrics, rules |-> rules]

MSSpecs ==
    {Sheet(MSAreas, <<north, south, south>>, {north}, MSJoins, {j12}, {}, {}),
     Sheet({north}, <<north, north, north>>, {}, {j23}, {}, {Summed(north)}, {rule}),
     Sheet({south}, <<nowhere, south, south>>, {}, {j23}, {j23}, {}, {rule}),
     Sheet({north}, <<north, south, nowhere>>, {}, {j12}, {}, {}, {})}

MSAdditions == {<<south, [name |-> other_total, reads |-> {t3}, state |-> "unreviewed"]>>,
                <<north, [name |-> other_total, reads |-> {t1}, state |-> "unreviewed"]>>}
=============================================================================
