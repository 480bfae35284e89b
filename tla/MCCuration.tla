----------------------------- MODULE MCCuration -----------------------------
(* Two areas and two tables: together or apart; one metric a person signed   *)
(* off, or one join the engine or a person did, alone or with a copy a hand  *)
(* left in the list it would move to.  Of MaxOps operations a behaviour about *)
(* joins has one less.                                                       *)
EXTENDS Curation
CONSTANTS a1, a2, t1, t2, m, n, k1, k2

Together == [t \in Tables |-> a1]
Apart == [t \in Tables |-> IF t = t1 THEN a1 ELSE a2]
Signed(by) == Item(k1, 0, Tables, "approved", by)
Copies == {Item(k1, 1, Tables, "rejected", None), Item(k1, 0, Tables, "unreviewed", None)}

MCModels ==
    {[kind |-> "metric", spent |-> 0, owner |-> Together, items |-> {<<MetricFile(a1, m), Item(m, 0, r, "approved", "person")>>}] :
        r \in {{t1}, Tables}}
    \cup {[kind |-> "joins", spent |-> 1, owner |-> Together, items |-> {<<JoinFile(a1), Signed(by)>>}] : by \in {"engine", "person"}}
    \cup {[kind |-> "joins", spent |-> 1, owner |-> Apart, items |-> {<<JoinFile(Cross), Signed(by)>>, <<JoinFile(a2), c>>}] :
            by \in {"engine", "person"}, c \in Copies}

MCWrites == {[id |-> n, def |-> 0, state |-> "approved", reads |-> {t1}],
             [id |-> m, def |-> 1, state |-> "unreviewed", reads |-> {t1}]}
=============================================================================
