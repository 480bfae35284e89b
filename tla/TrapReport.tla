----------------------------- MODULE TrapReport -----------------------------
(* The fan and chasm analysis of one SELECT (semantic_model/runtime.py):     *)
(* for each aggregate the statement outputs, whether a join repeats the rows *)
(* behind the number.  A statement is built one join at a time over a model  *)
(* that declares keys and relationships; Report(a) is what the receipt says  *)
(* of aggregate a.                                                           *)
(*                                                                           *)
(* A column stands for one column of every table, and a written or declared  *)
(* equality x.c = y.c for the column c.  A fixed-value condition counts as   *)
(* one more column.  Each name is read once.                                 *)
EXTENDS FiniteSets, Integers, FiniteSetsExt

CONSTANTS
    Tables,         \* the names a statement reads
    Columns,
    Models,         \* the models considered: records [edges, keys]
    Selections,     \* the SELECT lists considered: sets of [reads, arms, immune]
    ReadKinds,      \* how a name may be bound, a subset of Bindings
    Grains,         \* what a grouping CTE may group by
    MaxJoins,       \* bound on the joins of the SELECT
    MaxRebound,     \* bound on the names that are no table
    Scopes,         \* where a join of no declaration may be written besides
    JoinCap         \* _RECEIPT_MAX_REFS: the joins a receipt reads

VARIABLES
    model,          \* the datasource: declared edges, and the keys of each table
    bound,          \* name -> how this SELECT binds it
    grain,          \* name -> the columns a grouping CTE groups by
    joins,          \* the joins of this SELECT
    elsewhere,      \* scopes of joins no declaration settles: another arm, a CTE
    aggs            \* the aggregates of the SELECT list

trapVars == <<model, bound, grain, joins, elsewhere, aggs>>

(* A declared relationship: its two ends, the ends that are the ONE side     *)
(* (both of a one_to_one), and the columns it is keyed on.                   *)
Edge == {e \in [ends: {{p[1], p[2]} : p \in {q \in Tables \X Tables : q[1] # q[2]}},
                ones: (SUBSET Tables) \ {{}}, on: (SUBSET Columns) \ {{}}] : e.ones \subseteq e.ends}

ASSUME ModelsAssumption ==
    \A m \in Models : m.edges \subseteq Edge /\ m.keys \in [Tables -> SUBSET (SUBSET Columns)]

(* What a FROM item may be: a table, a CTE that hands a table's rows back    *)
(* one for one, a CTE that groups, or a relation the analysis cannot read.   *)
Bindings == {"table", "same", "grouped", "opaque"}
ASSUME KindsAssumption == ReadKinds \subseteq Bindings
Absent == "absent"
InScope == {t \in Tables : bound[t] # Absent}

(* The ends a join connects, and the other end of it.                        *)
Ends(j) == {j.left, j.right}
Other(j, t) == CHOOSE u \in Ends(j) : u # t

(* ------------------------------------------------------------------------ *)
(* What a name stands for.                                                    *)

(* The model sees behind a name that is a table or hands one back unchanged. *)
Declared(t) == bound[t] \in {"table", "same"}

(* One row per value: exactly the grain or exactly one unique key.           *)
UniqueOn(keys, cols) == cols \in keys

(* infer_cardinality over a grouping CTE and the far table.  Neither side    *)
(* keyed reads as many_to_one, the CTE on the many side.                     *)
InferOnes(cte, far, cols) ==
    LET cteOne == UniqueOn({grain[cte]}, cols)
        farOne == UniqueOn(model.keys[far], cols)
    IN  IF cteOne THEN {cte} \cup (IF farOne THEN {far} ELSE {}) ELSE {far}

(* The equalities the joins write on a name.                                 *)
EqualitiesOf(t) == {q \in joins \X Columns : t \in Ends(q[1]) /\ q[2] \in q[1].cols}

(* _cte_edge: exactly one equality names the CTE, and the far side is a      *)
(* declared table with a key.                                                *)
CteEdges(t) ==
    LET touching == {j \in joins : t \in Ends(j)}
        far(j) == Other(j, t)
    IN  IF /\ bound[t] = "grouped" /\ grain[t] # {}
           /\ \E q \in EqualitiesOf(t) : EqualitiesOf(t) = {q}
        THEN {[ends |-> Ends(j), on |-> j.cols, ones |-> InferOnes(t, far(j), j.cols)] :
                j \in {k \in touching : k.cols # {} /\ Declared(far(k))
                                                    /\ model.keys[far(k)] # {}}}
        ELSE {}

(* A name that resolves to no relation the analysis can read: the empty      *)
(* binding of _resolve_cte_scope.                                            *)
Unread(t) == bound[t] = "opaque" \/ (bound[t] = "grouped" /\ CteEdges(t) = {})

(* The model's edges between names that stand for its tables, and the edges  *)
(* the grouping CTEs derive.                                                 *)
CardinalityIndex == {e \in model.edges : \A t \in e.ends : bound[t] # "grouped"}
                    \cup UNION {CteEdges(t) : t \in InScope}

(* ------------------------------------------------------------------------ *)
(* The edges the statement's own joins could have taken.                      *)

WrittenOn(ends) == UNION {j.cols : j \in {k \in joins : Ends(k) = ends}}

(* A declared edge between two joined tables counts only if the join wrote   *)
(* its key, unless no declared edge between the two was written whole.       *)
EdgesAsWritten(edges) ==
    {e \in edges : LET matching == {f \in edges : f.ends = e.ends /\ f.on \subseteq WrittenOn(e.ends)}
                   IN  WrittenOn(e.ends) = {} \/ matching = {} \/ e \in matching}

(* A declared composite key of which a join wrote some columns and not all,  *)
(* with no declared edge between the two tables written whole.               *)
PartialKeyJoins ==
    {e \in CardinalityIndex :
        \E j \in joins :
            /\ Ends(j) = e.ends
            /\ Cardinality(e.on) > 1
            /\ e.on \cap j.cols \notin {{}, e.on}
            /\ ~\E f \in CardinalityIndex : f.ends = e.ends /\ f.on \subseteq j.cols}

Edges == EdgesAsWritten(CardinalityIndex) \ PartialKeyJoins

OneSideFacingMany(t, others) == {e \in Edges : t \in e.ones /\ e.ends \ {t} \subseteq others \ e.ones}
ManySideFacingOne(t, dim) == \E e \in Edges : e.ends = {t, dim} /\ e.ones = {dim}

(* ------------------------------------------------------------------------ *)
(* The aggregates.                                                            *)

(* Every table a column of the aggregate is read from, its tests included.   *)
Sources(a) == {t \in a.reads : ~Unread(t)}

(* The tables the value is at the grain of on every path through it: an arm  *)
(* of a choice (CASE, COALESCE, GREATEST, DECODE) is a set of tables its     *)
(* value is combined from; a SUM's zero and NULL arms are left out of arms.  *)
ValueSources(a) == {t \in Sources(a) : \A arm \in a.arms : t \in arm} \cap UNION a.arms

(* _why_unresolved: no column, a name that resolves to nothing in this       *)
(* SELECT, or a relation the statement computed.                             *)
Resolved(a) == /\ a.reads # {}
               /\ \A t \in InScope : ~Unread(t)
               /\ \A t \in a.reads : Declared(t)

AggSources == UNION {Sources(a) : a \in aggs}

Joined == {Ends(j) : j \in {k \in joins : k.cols # {}}}

(* A dimension at least two sources are each many to, where some two of them *)
(* are not joined to each other.                                             *)
Crossed(s, t, d) == /\ s # t /\ {s, t} \notin Joined
                    /\ ManySideFacingOne(s, d) /\ ManySideFacingOne(t, d)
SharedDimensions == {d \in InScope \ AggSources : \E s, t \in AggSources : Crossed(s, t, d)}

(* The code takes the first of them in the order of their names, and tells   *)
(* the aggregates over that one.                                             *)
Chasm(a) == /\ SharedDimensions # {}
            /\ LET d == CHOOSE d \in SharedDimensions : TRUE
               IN  \E s \in Sources(a) : ManySideFacingOne(s, d)

(* Per edge: a many side on the value path is the grain the value is defined *)
(* at, and every other edge still repeats it.                                *)
Fan(a) == \E t \in Sources(a) :
            \E e \in OneSideFacingMany(t, InScope \ {t}) : ~(e.ends \ {t} \subseteq ValueSources(a))

PartialKey(a) == \E e \in PartialKeyJoins : e.ends \cap Sources(a) # {}

(* ------------------------------------------------------------------------ *)
(* The joins a receipt weighs.                                                *)

JoinSiteStatus(j) ==
    LET computed == \E t \in Ends(j) : bound[t] # "table"
        declared == \E e \in model.edges : e.ends = Ends(j) /\ e.on \subseteq j.cols
    IN  CASE computed -> "undeclarable"
          [] ~computed /\ j.cols = {} -> "undetermined"
          [] OTHER -> IF declared THEN "declared" ELSE "undeclared"

(* The join's columns are the whole of a key on both sides.                  *)
KeyedOneToOne(j) == /\ JoinSiteStatus(j) = "undeclared"
                    /\ \A t \in Ends(j) : UniqueOn(model.keys[t], j.cols)

(* The relationship a declared join matched; the code takes the first in the *)
(* model's order.                                                            *)
MatchIsOneToOne(j) ==
    /\ JoinSiteStatus(j) = "declared"
    /\ (CHOOSE e \in model.edges : e.ends = Ends(j) /\ e.on \subseteq j.cols).ones = Ends(j)

(* An undeclared join is settled by the keys alone only if no other join     *)
(* that can feed the same numbers could fan.                                 *)
Weighed(j) == \/ JoinSiteStatus(j) \in {"declared", "undeclarable"}
              \/ /\ KeyedOneToOne(j)
                 /\ \A k \in joins \ {j} : KeyedOneToOne(k) \/ MatchIsOneToOne(k)
                 /\ "cte" \notin elsewhere

Dropped == Cardinality(joins) + Cardinality(elsewhere) > JoinCap

(* ------------------------------------------------------------------------ *)
(* What is said of one aggregate.                                             *)

MultiplicationStatus(a) ==
    IF Chasm(a) \/ Fan(a) \/ PartialKey(a) THEN "multiplied"
    ELSE IF Resolved(a) THEN "not_multiplied" ELSE "undetermined"

(* A number is cleared although a join next to it was never weighed.         *)
StatusUnweighed(a) ==
    IF MultiplicationStatus(a) = "not_multiplied" /\ ("cte" \in elsewhere \/ Dropped)
    THEN "undetermined" ELSE MultiplicationStatus(a)

(* not_multiplied is withdrawn when a join that can feed the number was not  *)
(* weighed: of its own branch, of a CTE, or past the cap.                    *)
Status(a) ==
    IF /\ MultiplicationStatus(a) = "not_multiplied"
       /\ (\E j \in joins : ~Weighed(j)) \/ "cte" \in elsewhere \/ Dropped
    THEN "undetermined" ELSE MultiplicationStatus(a)

(* Whether the duplication can have changed the value; the chasm finding     *)
(* does not grade immunity.                                                  *)
ResultAffected(a) ==
    CASE Status(a) = "undetermined" -> "unknown"
      [] Status(a) = "multiplied" /\ (Chasm(a) \/ ~a.immune) -> "yes"
      [] OTHER -> IF Resolved(a) THEN "no" ELSE "unknown"

(* ------------------------------------------------------------------------ *)
(* A statement, join by join.                                                 *)

TrapInit ==
    /\ model \in Models
    /\ bound \in {[t \in Tables |-> IF t = r THEN b ELSE Absent] : r \in Tables, b \in ReadKinds}
    /\ grain \in [Tables -> Grains]
    /\ joins = {} /\ elsewhere = {} /\ aggs = {}

Join(left, right, kind, cols) ==
    /\ aggs = {} /\ Cardinality(joins) < MaxJoins
    /\ bound[left] # Absent /\ bound[right] = Absent
    /\ bound' = [bound EXCEPT ![right] = kind]
    /\ Cardinality({t \in Tables : bound'[t] \notin {"table", Absent}}) <= MaxRebound
    /\ joins' = joins \cup {[left |-> left, right |-> right, cols |-> cols]}
    /\ UNCHANGED <<model, grain, elsewhere, aggs>>

JoinElsewhere(scope) ==
    /\ aggs = {} /\ scope \notin elsewhere
    /\ elsewhere' = elsewhere \cup {scope}
    /\ UNCHANGED <<model, bound, grain, joins, aggs>>

Select(as) ==
    /\ aggs = {} /\ \A a \in as : a.reads \subseteq InScope
    /\ aggs' = as
    /\ UNCHANGED <<model, bound, grain, joins, elsewhere>>

TrapNext == \/ \E l, r \in Tables, k \in ReadKinds, cs \in SUBSET Columns : Join(l, r, k, cs)
            \/ \E s \in Scopes : JoinElsewhere(s)
            \/ \E as \in Selections : Select(as)

TrapSpec == TrapInit /\ [][TrapNext]_trapVars

(* ------------------------------------------------------------------------ *)
(* The reference: when a row can meet several rows across a join.             *)

(* The column sets a name's rows are unique on, by its own keys or by a      *)
(* declaration that makes it the one side.                                   *)
UniqueSets(t) ==
    CASE Declared(t) -> model.keys[t] \cup {e.on : e \in {f \in model.edges : t \in f.ones}}
      [] bound[t] = "grouped" -> {grain[t]} \ {{}}
      [] OTHER -> {}

CanRepeat(j, t) == ~\E u \in UniqueSets(Other(j, t)) : u \subseteq j.cols

(* A join written on a table the aggregate reads may repeat that table's     *)
(* rows, and the value is not at the grain of the other side.                *)
NearFan(a, j) == \E t \in Sources(a) \cap Ends(j) :
                    CanRepeat(j, t) /\ Other(j, t) \notin ValueSources(a)

(* Two measures that each repeat a dimension's rows repeat each other's.     *)
MeasuredFan(a) ==
    \E t \in Sources(a), j, k \in joins :
        /\ t \in Ends(j) /\ j # k /\ Other(j, t) \in Ends(k)
        /\ LET dim == Other(j, t)
               far == Other(k, dim)
           IN  /\ CanRepeat(j, dim) /\ CanRepeat(k, dim)
               /\ far \in AggSources \ Sources(a) /\ dim \notin AggSources

(* A join of two tables, or of a grouping CTE on some column.                *)
KnownJoin(j) == LET how == {bound[t] : t \in Ends(j)}
                IN  how \subseteq {"table", "grouped"} /\ ("grouped" \in how => j.cols # {})

(* The receipt clears a number only when it is true of the joins next to it: *)
(* if a join on a table the aggregate reads can repeat its rows, or another  *)
(* measure repeats a dimension the two share, the receipt does not say that  *)
(* the result is unaffected (_preflight_select, _downgrade_unweighed).       *)
(* A CTE that does not group is never weighed, and a number beside it is      *)
(* cleared all the same: joins to those are left out.  So are the measures   *)
(* of a statement with two shared dimensions, of which one is told           *)
(* (EveryChasmIsTold).                                                       *)
NearFanIsTold ==
    \A a \in aggs :
        ResultAffected(a) = "no" /\ ~a.immune =>
            /\ \A j \in joins : KnownJoin(j) => ~NearFan(a, j)
            /\ (\A t \in InScope : bound[t] = "table") /\ (\A d, e \in SharedDimensions : d = e)
               => ~MeasuredFan(a)

(* What the module says of itself, that it finds every chasm among the       *)
(* declared relationships: an aggregate over one of two sources that meet    *)
(* at a dimension and nowhere else is told that its rows are multiplied      *)
(* (_shared_dimension gives one dimension, and a second is not looked for).  *)
EveryChasmIsTold ==
    \A a \in aggs : (\E s \in Sources(a), t \in AggSources, d \in InScope \ AggSources : Crossed(s, t, d))
                      => Status(a) # "not_multiplied"

=============================================================================
