------------------------------ MODULE Comparator ------------------------------
(* Scoring a generated result against an answer key (semantic_model/          *)
(* comparator.py).  A result is [names, rows]; a row is a sequence of cells.  *)
(*                                                                            *)
(* A cell is what canonical_cell makes of a driver's value, so two spellings  *)
(* of one value are one cell, and a name is a column name after folding.      *)
(* RoundsTo is the nine-digit bucket of the `values` level: it moves only     *)
(* numbers that are not whole.                                                *)
EXTENDS Integers, Sequences, FiniteSets, FiniteSetsExt, Functions, SequencesExt

CONSTANTS
    None,           \* no band
    Null,           \* the NULL cell
    Number,         \* cell -> its value, for the cells that are numbers
    TypeOf,         \* cell -> its coarse type
    RoundsTo,       \* cell -> the cell it is bucketed as
    ColumnNames,    \* the names of columns
    Bands,          \* the bands considered
    Goldens,        \* the keys considered
    GeneratedFor(_) \* the results considered against a key

VARIABLES goldenResult, generatedResult

Canonical(cell, quantize) == IF quantize THEN RoundsTo[cell] ELSE cell

ColumnsOf(t) == 1..Len(t.names)
Rows(t) == 1..Len(t.rows)
Ragged(t) == \E r \in Rows(t) : Len(t.rows[r]) # Len(t.names)

(* The elements of a sequence with how often each is there.                   *)
Counter(s) == [x \in ToSet(s) |-> Cardinality({k \in DOMAIN s : s[k] = x})]

(* How many elements two sequences share: in place when the order is part of  *)
(* the answer, as multisets otherwise.                                        *)
OverlapAsSets(s, u, ordered) ==
    IF ordered THEN Cardinality({k \in DOMAIN s \cap DOMAIN u : s[k] = u[k]})
    ELSE MapThenSumSet(LAMBDA x : Counter(s)[x], ToSet(s) \cap ToSet(u))
Overlap(s, u, ordered) ==
    IF ordered THEN Cardinality({k \in DOMAIN s \cap DOMAIN u : s[k] = u[k]})
    ELSE MapThenSumSet(LAMBDA x : Min({Counter(s)[x], Counter(u)[x]}), ToSet(s) \cap ToSet(u))

(* One column, as what is compared of it.                                     *)
Vector(t, i, quantize) == [r \in Rows(t) |-> Canonical(t.rows[r][i], quantize)]
SameVector(v, w, ordered) == IF ordered THEN v = w ELSE Counter(v) = Counter(w)

(* compare_rows over a pairing, which maps golden columns to generated ones.  *)
Project(t, cols, quantize) == [r \in Rows(t) |-> [k \in DOMAIN cols |-> Canonical(t.rows[r][cols[k]], quantize)]]
CompareRows(golden, generated, pairing, ordered, quantize) ==
    Overlap(Project(golden, [i \in DOMAIN pairing |-> i], quantize), Project(generated, pairing, quantize), ordered)

(* ------------------------------------------------------------------------ *)
(* Which generated column answers which golden one.                           *)

Pair(pairing, i, j) == [k \in DOMAIN pairing \cup {i} |-> IF k = i THEN j ELSE pairing[k]]
Nothing == [i \in {} |-> 0]

(* One pass over the golden columns: each still unpaired takes the first      *)
(* of its partners that is not claimed.                                       *)
TakeInOrder(golden, pairing, partners) ==
    LET free(p, i) == partners[i] \ Range(p)
    IN  FoldLeft(LAMBDA p, i : IF i \in DOMAIN p \/ free(p, i) = {} THEN p ELSE Pair(p, i, Min(free(p, i))),
                 pairing, [i \in ColumnsOf(golden) |-> i])

PairEqualVectors(golden, generated, ordered, quantize, namesFirst) ==
    LET equal == [i \in ColumnsOf(golden) |-> {j \in ColumnsOf(generated) :
                    SameVector(Vector(golden, i, quantize), Vector(generated, j, quantize), ordered)}]
        named == [i \in ColumnsOf(golden) |-> {j \in equal[i] : generated.names[j] = golden.names[i]}]
    IN  TakeInOrder(golden, IF namesFirst THEN TakeInOrder(golden, Nothing, named) ELSE Nothing, equal)

(* Stage one.  When the order does not count, columns with equal multisets    *)
(* are told apart by name, and the names are checked against the plain order. *)
StageOneByOrder(golden, generated, ordered, quantize) ==
    PairEqualVectors(golden, generated, ordered, quantize, FALSE)
StageOneByName(golden, generated, ordered, quantize) ==
    PairEqualVectors(golden, generated, ordered, quantize, TRUE)
StageOne(golden, generated, ordered, quantize) ==
    LET byName == PairEqualVectors(golden, generated, ordered, quantize, TRUE)
        byOrder == PairEqualVectors(golden, generated, ordered, quantize, FALSE)
        lined(p) == CompareRows(golden, generated, p, FALSE, quantize)
    IN  IF ~ordered /\ lined(byOrder) > lined(byName) THEN byOrder ELSE byName

Telling(v, ordered) ==
    /\ Len(v) >= 2
    /\ IF ordered THEN 2 * Max(Range(Counter(v))) <= Len(v) ELSE 2 * Cardinality(ToSet(v)) > Len(v)

(* Stage two, for one golden column: a namesake at any agreement, else the    *)
(* one that agrees on most rows, if that is more than half of them and the    *)
(* values are telling.                                                        *)
BestEffort(golden, generated, pairing, i, ordered, quantize) ==
    LET v == Vector(golden, i, quantize)
        free == ColumnsOf(generated) \ Range(pairing)
        named == {j \in free : generated.names[j] = golden.names[i]}
        shared(j) == Overlap(v, Vector(generated, j, quantize), ordered)
        best == {j \in free : \A k \in free : shared(k) <= shared(j)}
    IN  CASE i \in DOMAIN pairing \/ free = {} -> pairing
          [] i \notin DOMAIN pairing /\ named # {} -> Pair(pairing, i, Min(named))
          [] OTHER -> IF Telling(v, ordered) /\ 2 * shared(Min(best)) > Len(v)
                      THEN Pair(pairing, i, Min(best)) ELSE pairing

PairColumns(golden, generated, ordered, quantize) ==
    FoldLeft(LAMBDA p, i : BestEffort(golden, generated, p, i, ordered, quantize),
             StageOne(golden, generated, ordered, quantize), [i \in ColumnsOf(golden) |-> i])

(* ------------------------------------------------------------------------ *)
(* The score of one item: hits of rows, or that it could not be judged.       *)

Scored(hits, of) == [status |-> "scored", hits |-> hits, of |-> of]
Wrong == Scored(0, 1)
Right == Scored(1, 1)
Error == [status |-> "error", hits |-> 0, of |-> 1]
Unscored == [Error EXCEPT !.status = "unscored"]
Passes(score) == score.status = "scored" /\ score.hits = score.of

ScoreValues(golden, generated, ordered, loose) ==
    LET pairing == PairColumns(golden, generated, ordered, loose)
    IN  CASE Len(golden.rows) # Len(generated.rows) -> Wrong
          [] Len(golden.rows) = Len(generated.rows) /\ (Ragged(golden) \/ Ragged(generated)) -> Error
          [] OTHER ->
             IF \/ DOMAIN pairing # ColumnsOf(golden)
                \/ ~loose /\ Len(generated.names) > Len(golden.names)
             THEN Wrong
             ELSE Scored(CompareRows(golden, generated, pairing, ordered, loose), Len(golden.rows))

ColumnTypes(t, i) == {TypeOf[c] : c \in ToSet(Vector(t, i, FALSE)) \ {Null}}
ScoreShape(golden, generated) ==
    LET alike == Len(golden.rows) = Len(generated.rows) /\ Len(golden.names) = Len(generated.names)
    IN  CASE ~alike -> Wrong
          [] alike /\ (Ragged(golden) \/ Ragged(generated)) -> Error
          [] OTHER -> IF \A i \in ColumnsOf(golden) :
                            \/ {} \in {ColumnTypes(golden, i), ColumnTypes(generated, i)}
                            \/ ColumnTypes(golden, i) = ColumnTypes(generated, i)
                      THEN Right ELSE Wrong

(* A band is [rows, values], each a set of the numbers it lets through or     *)
(* None, which is no edge on either side.                                     *)
ScoreBounds(generated, bounds) ==
    LET single == /\ Len(generated.rows) = 1 /\ Len(generated.names) = 1
                  /\ Len(generated.rows[1]) = 1 /\ generated.rows[1][1] \in DOMAIN Number
    IN  CASE bounds.values # None /\ generated.rows = <<>> -> Wrong
          [] bounds.values # None /\ generated.rows # <<>> /\ ~single /\ bounds.rows = None -> Error
          [] OTHER ->
             IF \/ bounds.values # None /\ single /\ Number[generated.rows[1][1]] \notin bounds.values
                \/ bounds.rows # None /\ Len(generated.rows) \notin bounds.rows
             THEN Wrong ELSE Right

Judge(golden, generated, match, ordered, bounds) ==
    CASE match \in {"exact", "values", "shape"} /\ golden.rows = <<>> /\ generated.rows = <<>> -> Unscored
      [] match \in {"exact", "values"} /\ (golden.rows # <<>> \/ generated.rows # <<>>) ->
            ScoreValues(golden, generated, ordered, match = "values")
      [] match = "shape" /\ (golden.rows # <<>> \/ generated.rows # <<>>) -> ScoreShape(golden, generated)
      [] match = "bounded" -> ScoreBounds(generated, bounds)
      [] match = "nonempty" -> IF generated.rows # <<>> THEN Right ELSE Wrong

(* ------------------------------------------------------------------------ *)
(* The reference.                                                             *)

(* The generated rows are the golden ones under a placing of the columns, in  *)
(* some order of the rows (in order, when the order is part of the answer).   *)
RowOrders(t, ordered) ==
    {o \in [Rows(t) -> Rows(t)] : IF ordered THEN \A r \in Rows(t) : o[r] = r
                                  ELSE \A r, q \in Rows(t) : o[r] = o[q] => r = q}
SameUnder(golden, generated, placing, ordered, quantize) ==
    /\ Len(golden.rows) = Len(generated.rows) /\ ~Ragged(golden) /\ ~Ragged(generated)
    /\ \E o \in RowOrders(golden, ordered) : \A r \in Rows(golden), i \in ColumnsOf(golden) :
          Canonical(golden.rows[r][i], quantize) = Canonical(generated.rows[o[r]][placing[i]], quantize)
Placings(golden, generated) ==
    {f \in [ColumnsOf(golden) -> ColumnsOf(generated)] : \A i, j \in ColumnsOf(golden) : f[i] = f[j] => i = j}

(* What makes the right placing findable by value: the order counts, so two   *)
(* equal columns are interchangeable; the names say it; no two columns hold   *)
(* the same values; or every column is in its place.                          *)
Findable(golden, generated, placing, ordered, quantize) ==
    LET values(j) == Counter(Vector(generated, j, quantize))
    IN  \/ ordered
        \/ /\ \A i \in ColumnsOf(golden) : generated.names[placing[i]] = golden.names[i]
           /\ IsInjective(generated.names)
        \/ \A i, j \in ColumnsOf(generated) : values(i) = values(j) => i = j
        \/ \A i \in ColumnsOf(golden) : placing[i] = i

(* ------------------------------------------------------------------------ *)
(* The results: any, over cells of which a bucket holds numbers only, or one  *)
(* (canonical_cell rounds a number and leaves the rest alone).                *)
Results(Columns, Cells) == [names : Seq(Columns), rows : Seq(Seq(Cells))]
BucketsAreOfAKind(Cells) ==
    \A c, d \in Cells : RoundsTo[c] = RoundsTo[d] =>
        (c = Null <=> d = Null) /\ TypeOf[c] = TypeOf[d] /\ (c \in DOMAIN Number <=> d \in DOMAIN Number)

ASSUME CellsAssumption == BucketsAreOfAKind(DOMAIN RoundsTo)
ASSUME ResultsAssumption ==
    \A golden \in Goldens :
        {golden} \cup GeneratedFor(golden) \subseteq Results(ColumnNames, DOMAIN RoundsTo)

ScoreInit == goldenResult \in Goldens /\ generatedResult = None
(* The statement under test has answered.                                     *)
ScoreNext ==
    /\ generatedResult = None /\ generatedResult' \in GeneratedFor(goldenResult)
    /\ UNCHANGED goldenResult
ScoreSpec == ScoreInit /\ [][ScoreNext]_<<goldenResult, generatedResult>>

(* A pass is never given to an answer that is not the key's: at `exact` and   *)
(* `values` some placing of the columns makes the rows the same rows, though  *)
(* the columns are matched by what they hold and rows are compared after.     *)
(* And the key's own answer passes, however its columns are placed and its    *)
(* rows ordered, wherever the placing can be found by value; in place, it     *)
(* passes every looser level too, and every band the key itself fits.         *)
PassesAreTheKeys(golden, generated, bands) ==
    \A match \in {"exact", "values"}, ordered \in BOOLEAN :
        LET loose == match = "values"
            wide == Len(generated.names) > Len(golden.names)
            same == {f \in Placings(golden, generated) : SameUnder(golden, generated, f, ordered, loose)}
            score == Judge(golden, generated, match, ordered, [rows |-> None, values |-> None])
        IN  /\ Passes(score) => same # {} /\ (wide => loose)
            /\ golden.rows # <<>> /\ (wide => loose)
                  /\ (\E f \in same : Findable(golden, generated, f, ordered, loose))
                  => Passes(score)
            /\ golden.rows # <<>> /\ ~wide /\ (\E f \in same : \A i \in ColumnsOf(golden) : f[i] = i)
                  => \A band \in bands :
                        /\ Passes(Judge(golden, generated, "shape", ordered, band))
                        /\ Passes(Judge(golden, generated, "nonempty", ordered, band))
                        /\ Passes(Judge(golden, golden, "bounded", ordered, band))
                              /\ ({golden.rows[1], generated.rows[1]} \in SUBSET {<<c>> : c \in DOMAIN Number} => ~loose)
                              => Passes(Judge(golden, generated, "bounded", ordered, band))

PassIsTheKeysAnswer ==
    generatedResult # None => PassesAreTheKeys(goldenResult, generatedResult, Bands)

=============================================================================
