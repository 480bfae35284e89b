---------------------------- MODULE MCComparator -----------------------------
(* Results of up to two rows over two of three cells, two numbers of one      *)
(* bucket and a text, and of three rows whose columns are those cells in some *)
(* order.                                                                     *)
EXTENDS Comparator, TLC

Numbers == "one" :> 1 @@ "nearly" :> 2
Types == "one" :> "numeric" @@ "nearly" :> "numeric" @@ "text" :> "string"
Buckets == "one" :> "one" @@ "nearly" :> "one" @@ "text" :> "text"
TheNull == "null"
SomeColumns == {"n", "m", "o", "p"}

ResultsOf(names, cells, n) ==
    {[names |-> names, rows |-> rows] : rows \in UNION {[1..k -> [1..Len(names) -> cells]] : k \in 0..n}}
AllCells == {"one", "nearly", "text"}

Orders3 == {f \in [1..3 -> AllCells] : \A c \in AllCells : \E r \in 1..3 : f[r] = c}
InSomeOrder(names, firsts) ==
    {[names |-> names, rows |-> [r \in 1..3 |-> <<x[r], y[r]>>]] : x \in firsts, y \in Orders3}

Keys == ResultsOf(<<"n", "m">>, {"one", "text"}, 2) \cup ResultsOf(<<"n", "m">>, {"one", "nearly"}, 2)
SomeGoldens == InSomeOrder(<<"n", "m">>, {<<"one", "nearly", "text">>}) \cup Keys \cup ResultsOf(<<"n">>, AllCells, 1)
SomeGenerated(golden) ==
    IF Len(golden.names) = 1 THEN ResultsOf(<<"n">>, AllCells, 1)
    ELSE Keys \cup ResultsOf(<<"m", "n">>, {"one", "text"}, 2) \cup ResultsOf(<<"o", "p">>, {"one", "nearly"}, 2)
         \cup ResultsOf(<<"o", "p", "m">>, {"nearly", "text"}, 1)
         \cup (IF Len(golden.rows) = 3 THEN InSomeOrder(<<"m", "n">>, Orders3) \cup InSomeOrder(<<"o", "p">>, Orders3) ELSE {})
         \cup {[names |-> <<"n", "m">>, rows |-> <<<<"one">>>>]}

SomeBands == [rows: {None, {1}}, values: {None, {1}}]

=============================================================================
