----------------------------- MODULE Reconcile -----------------------------
(* A reconcile run (plugins/agami/scripts): the person's statements are      *)
(* checked part by part (check_statement.py), agami is asked the same        *)
(* question, the two results are compared, the parts are graded into a       *)
(* ledger and the row is recorded in rows.jsonl (reconcile.py), which is at  *)
(* once the checkpoint a broken run resumes from and what the report page    *)
(* and the parser of its decisions read.                                     *)
(*                                                                           *)
(* A session follows the skill's order for each row of a chunk and may stop  *)
(* anywhere.  A statement, with its question, is a version number: a file    *)
(* carries the version it was made from.  Every row here has a statement, a  *)
(* question and no other number; agami's result has the shape the statement  *)
(* asks for.  Which parts hold, and whether the answers agree, is chosen by  *)
(* the environment each time it is measured.  The claims, which name where   *)
(* two statements differ and may only lower a verdict, are left out.         *)
EXTENDS Integers, FiniteSets, Subsequences

CONSTANTS
    Rows,        \* the rows of intake.json, numbered
    ChunkSize,   \* CHUNK_SIZE
    Outcomes,    \* Outcomes[r]: what checks of the row's statements can find
    Tables,      \* Tables[r]: whether the row's statements return a table
    MayAddWords, \* whether the session may hand the renderer sentences
    MaxReword,   \* bound: MaxReword[r], the rewordings of a row
    MaxStops     \* bound: times the session stops in the middle of its work

ASSUME RowsAssumption == Rows \subseteq Nat /\ Rows # {} /\ ChunkSize \in Nat \ {0}

\* No version is 0.
NoFile == [of |-> 0]

\* The verdicts a part can have, and their rank; noted is a fact and no grade.
Verdicts == {"noted", "confirmed", "model_gap", "unresolved", "query_defect"}
Rank(v) == CASE v = "noted" -> -1
             [] v = "confirmed" -> 0
             [] v = "model_gap" -> 1
             [] v = "unresolved" -> 2
             [] v = "query_defect" -> 3

\* What the check writes after the zero-row wrap held, in order; the part of
\* the ledger each file is read for bears its name.
Written == <<"prepare", "run", "receipt", "probes", "judge">>
Parts == {"prepare", "receipt", "probes", "judge"}
OwnFiles == Parts \cup {"run", "csv"}

\* The gate that ends a check writes why the statement did not run; a statement
\* that ran, and a reading of it, is graded; a part's file may be unusable.
ASSUME OutcomesAssumption ==
    \A r \in Rows : \A o \in Outcomes[r] :
        /\ o["gate"] \in {"passed"} \cup (Verdicts \ {"noted", "confirmed"})
        /\ o["run"] \in Verdicts \ {"noted"} /\ o["fit"] \in Verdicts \ {"noted"}
        /\ \A p \in Parts : o[p] \in Verdicts \cup {"unusable"}
ASSUME TablesAssumption == \A r \in Rows : Tables[r] \subseteq BOOLEAN

VARIABLES
    intake,  \* intake[r]: the version of the row and whether it returns a table
    files,   \* files[r]: the files of rows/<r>, each with the version it is of
    lines,   \* rows.jsonl: the records, in the order of its lines
    torn,    \* rows.jsonl ends in a line that cannot be read
    page,    \* report.html and report-items.json
    phase,   \* phase[r]: how far the session is with the row
    stops    \* counts the session's stops

vars == <<intake, files, lines, torn, page, phase, stops>>

Phases == {"away", "todo", "checked", "asked", "compared", "graded"}
FileNames == OwnFiles \cup {"fit", "answer", "comparison", "diff", "ledger"}

----------------------------------------------------------------------------
(* Grading *)

\* A part read from a file, one that is not usable passed over.
PartOfLenient(f, p, ran) ==
    IF f[p] # NoFile /\ f[p].verdict # "unusable"
    THEN {[part |-> p, of |-> f[p].of, verdict |-> f[p].verdict]}
    ELSE {}

\* A part read from a file: nothing when the statement did not run and the file
\* is not there, and never taken for checked when it ran and the file is not
\* usable.
PartOf(f, p, ran) ==
    IF f[p] # NoFile /\ f[p].verdict # "unusable"
    THEN {[part |-> p, of |-> f[p].of, verdict |-> f[p].verdict]}
    ELSE IF ran THEN {[part |-> p, of |-> f["run"].of, verdict |-> "unresolved"]} ELSE {}

Ran(f) == f["run"] # NoFile /\ f["run"].verdict = "confirmed"

RunPart(f) ==
    IF f["run"] = NoFile THEN [part |-> "run", of |-> 0, verdict |-> "unresolved"]
    ELSE [part |-> "run", of |-> f["run"].of, verdict |-> f["run"].verdict]

\* A column of the person's that matched a differently named one of agami's
\* only through one repeated value stays open.
ValuePairs(f, withClaims) ==
    IF withClaims /\ f["comparison"] # NoFile /\ f["comparison"].result = "lookalike"
    THEN {[part |-> "values", of |-> f["comparison"].of, verdict |-> "unresolved"]}
    ELSE {}

OwnParts(f) == UNION {PartOf(f, p, Ran(f)) : p \in Parts}
PartsOf(f, withClaims) == {RunPart(f)} \cup PartOf(f, "fit", Ran(f)) \cup OwnParts(f) \cup ValuePairs(f, withClaims)

\* The row's verdict is that of its worst part.
Worst(parts) == CHOOSE x \in parts : \A y \in parts : Rank(x.verdict) >= Rank(y.verdict)

Ledger(f, withClaims) ==
    LET parts == PartsOf(f, withClaims)
    IN [parts |-> parts, verdict |-> Worst(parts).verdict]

\* The status of a row without a look at its ledger.
RowStatusUngraded(match, verdict) ==
    CASE match = "none" -> "error"
      [] match = "yes" -> "match"
      [] match = "no" -> IF verdict = "query_defect" THEN "expected_doubtful" ELSE "mismatch"

\* "none" is a comparison that gave no answer.
RowStatus(match, verdict) ==
    CASE match = "none" -> "error"
      [] match = "yes" -> IF verdict \in {"no ledger", "confirmed"} THEN "match" ELSE "match_unverified"
      [] match = "no" -> IF verdict = "query_defect" THEN "expected_doubtful" ELSE "mismatch"

\* A comparison of tables is preferred to the difference of two numbers.
Compared(f) ==
    IF f["comparison"] # NoFile
    THEN [by |-> "comparison", of |-> f["comparison"].of,
          match |-> CASE f["comparison"].result \in {"match", "lookalike"} -> "yes"
                      [] f["comparison"].result = "differ" -> "no"
                      [] OTHER -> "none"]
    ELSE IF f["diff"] # NoFile
    THEN [by |-> "diff", of |-> f["diff"].of,
          match |-> IF f["diff"].result = "match" THEN "yes" ELSE "no"]
    ELSE [by |-> "nothing", of |-> 0, match |-> "none"]

RecordOf(r, row, f) ==
    LET compared == IF f["answer"].ran THEN Compared(f) ELSE [by |-> "nothing", of |-> 0, match |-> "none"]
        verdict == IF f["ledger"] = NoFile THEN "no ledger" ELSE f["ledger"].verdict
    IN [row |-> r, of |-> row.of, table |-> row.table, compared |-> compared,
        ledger |-> f["ledger"], status |-> RowStatus(compared.match, verdict)]

----------------------------------------------------------------------------
(* rows.jsonl, the page and the decisions *)

Others(recs, r) == Within(recs, {rec \in ToSet(recs) : rec.row # r})
DoneRows == {rec.row : rec \in ToSet(lines)}

\* The first ChunkSize rows of intake.json that are not in rows.jsonl.
Remaining == Rows \ DoneRows
NextRows == {r \in Remaining : Cardinality({s \in Remaining : s < r}) < ChunkSize}

FitConfirmed(ledger) ==
    ledger # NoFile /\ \E x \in ledger.parts : x.part = "fit" /\ x.verdict = "confirmed"

\* Whatever agrees, offered to keep.
KeepAllowedUnfit(rec) == rec.status \in {"match", "match_unverified"} /\ ~rec.table

\* What the page offers to keep: a match of two numbers, by the grades the
\* record carries.
KeepAllowed(rec) == rec.status = "match" /\ ~rec.table /\ FitConfirmed(rec.ledger)

\* One item for each record, with the sample the row's two CSVs give.
ReportItems == {[rec |-> rec, keep |-> KeepAllowed(rec),
                 sample |-> <<files[rec.row]["csv"], files[rec.row]["answer"]>>] : rec \in ToSet(lines)}

\* The page's stamp is the digest of the items the renderer had, the session's
\* sentences in them.
Digest(items, words) == <<items, words>>

\* check-run: every file is there and the stamp is the digest of the present
\* items.
Stamped == page # NoFile /\ page.stamp = Digest(ReportItems, FALSE)
CheckRun ==
    /\ \A rec \in ToSet(lines) : files[rec.row]["answer"] # NoFile /\ files[rec.row]["ledger"] # NoFile
    /\ IF lines = <<>> THEN page # NoFile ELSE Stamped
    /\ ~torn

\* What the parser of the page's block lets through as a keep: it reads the
\* record again, and the ledger beside the row and not the record's own.
Keepable == {r \in Rows : \E rec \in ToSet(lines) :
                 rec.row = r /\ rec.status = "match" /\ ~rec.table /\ FitConfirmed(files[r]["ledger"])}

----------------------------------------------------------------------------
(* The session *)

NoFiles == [n \in FileNames |-> NoFile]

Init ==
    /\ \E table \in [Rows -> BOOLEAN] :
         /\ \A r \in Rows : table[r] \in Tables[r]
         /\ intake = [r \in Rows |-> [of |-> 1, table |-> table[r]]]
    /\ files = [r \in Rows |-> NoFiles]
    /\ lines = <<>>
    /\ torn = FALSE
    /\ page = NoFile
    /\ phase = [r \in Rows |-> "away"]
    /\ stops = 0

Away == \A r \in Rows : phase[r] = "away"
Holds(r, p) == phase[r] = p
AllAway == [r \in Rows |-> "away"]

\* next-chunk refuses a checkpoint with a line it cannot read.
NextChunk ==
    /\ Away /\ ~torn /\ NextRows # {}
    /\ phase' = [r \in Rows |-> IF r \in NextRows THEN "todo" ELSE "away"]
    /\ UNCHANGED <<intake, files, lines, torn, page, stops>>

\* The person rewords a recorded row's statement or question, and the session
\* takes the row up again.
Reword(r) ==
    /\ Away /\ ~torn /\ r \in DoneRows /\ intake[r].of <= MaxReword[r]
    /\ \E table \in Tables[r] : intake' = [intake EXCEPT ![r] = [of |-> @.of + 1, table |-> table]]
    /\ phase' = [phase EXCEPT ![r] = "todo"]
    /\ UNCHANGED <<files, lines, torn, page, stops>>

\* The files of an earlier check of the row, left there.
ClearNothing(f) == f

\* The files of an earlier check of the row are removed first.
Clear(f) == [n \in FileNames |-> IF n \in OwnFiles THEN NoFile ELSE f[n]]

\* The first n files of a check that found o; the csv is there from the
\* run on, and filled when the statement ran.
Wrote(f, v, o, n) ==
    LET made == {Written[i] : i \in 1..n}
    IN [x \in FileNames |->
          IF x \in made THEN [of |-> v, verdict |-> o[x]]
          ELSE IF x = "csv" /\ "run" \in made /\ o["run"] = "confirmed" THEN [of |-> v]
          ELSE Clear(f)[x]]

\* A statement a gate refused, or whose zero-row wrap the database rejected:
\* run.json is the only file.
Ended(f, v, verdict) == [Clear(f) EXCEPT !["run"] = [of |-> v, verdict |-> verdict]]

\* check_statement.py, and then the session's reading of the statement against
\* its question.  o["gate"] is "passed" when the gates and the zero-row wrap let
\* the statement through.
Check(r) ==
    /\ Holds(r, "todo")
    /\ \E o \in Outcomes[r] :
         LET v == intake[r].of
             checked == IF o["gate"] = "passed" THEN Wrote(files[r], v, o, Len(Written))
                                                ELSE Ended(files[r], v, o["gate"])
         IN files' = [files EXCEPT ![r] = [checked EXCEPT !["fit"] = [of |-> v, verdict |-> o["fit"]]]]
    /\ phase' = [phase EXCEPT ![r] = "checked"]
    /\ UNCHANGED <<intake, lines, torn, page, stops>>

\* The check ends the run, since every later row would fail as this one did
\* (exit 3), or is killed after some of its files: the session stops.
CheckStops(r) ==
    /\ Holds(r, "todo") /\ stops < MaxStops
    /\ \/ files' = [files EXCEPT ![r] = Ended(@, intake[r].of, "unresolved")]
       \/ \E o \in Outcomes[r], n \in 0..Len(Written) :
            files' = [files EXCEPT ![r] = Wrote(@, intake[r].of, o, n)]
    /\ phase' = AllAway
    /\ stops' = stops + 1
    /\ UNCHANGED <<intake, lines, torn, page>>

\* agami answers the row's question, and its statement runs or does not.
Ask(r) ==
    /\ Holds(r, "checked")
    /\ \E ran \in BOOLEAN :
         files' = [files EXCEPT ![r]["answer"] = [of |-> intake[r].of, ran |-> ran]]
    /\ phase' = [phase EXCEPT ![r] = "asked"]
    /\ UNCHANGED <<intake, lines, torn, page, stops>>

\* Two results are compared, as tables or as numbers; with one of them missing
\* there is nothing to compare and no file is written.
Compare(r) ==
    /\ Holds(r, "asked")
    /\ IF files[r]["csv"] # NoFile /\ files[r]["answer"].ran
       THEN \E result \in IF intake[r].table THEN {"match", "lookalike", "differ", "unscored"}
                                             ELSE {"match", "differ"} :
              files' = [files EXCEPT ![r][IF intake[r].table THEN "comparison" ELSE "diff"] =
                          [of |-> intake[r].of, result |-> result]]
       ELSE UNCHANGED files
    /\ phase' = [phase EXCEPT ![r] = "compared"]
    /\ UNCHANGED <<intake, lines, torn, page, stops>>

\* The row's one ledger, with the claims and the comparison when agami's
\* statement is there to compare.
Grade(r) ==
    /\ Holds(r, "compared")
    /\ files' = [files EXCEPT ![r]["ledger"] = Ledger(files[r], files[r]["answer"].ran)]
    /\ phase' = [phase EXCEPT ![r] = "graded"]
    /\ UNCHANGED <<intake, lines, torn, page, stops>>

\* The other rows' records are kept and the row's own is written after them.
Kept(r) == Others(lines, r)

Record(r) ==
    /\ Holds(r, "graded")
    /\ lines' = Append(Kept(r), RecordOf(r, intake[r], files[r]))
    /\ phase' = [phase EXCEPT ![r] = "away"]
    /\ UNCHANGED <<intake, files, torn, page, stops>>

\* rows.jsonl is written in place: a stop in the middle of the write leaves
\* some of the new file, its last line perhaps in part.
RecordStops(r) ==
    /\ Holds(r, "graded") /\ stops < MaxStops
    /\ \E n \in 0..Len(Kept(r)), half \in BOOLEAN :
         /\ lines' = SubSeq(Kept(r), 1, n)
         /\ torn' = half
    /\ phase' = AllAway
    /\ stops' = stops + 1
    /\ UNCHANGED <<intake, files, page>>

\* The person removes a line that cannot be read, as the refusal asks.
Mend ==
    /\ torn /\ Away
    /\ torn' = FALSE
    /\ UNCHANGED <<intake, files, lines, page, phase, stops>>

\* The session stops between two steps: what is on disk stays.
Stop ==
    /\ ~Away /\ stops < MaxStops
    /\ phase' = AllAway
    /\ stops' = stops + 1
    /\ UNCHANGED <<intake, files, lines, torn, page>>

\* The page of every row finished so far, rendered from the run's files.
Render ==
    /\ Away /\ ~torn /\ lines # <<>>
    /\ \E words \in IF MayAddWords THEN BOOLEAN ELSE {FALSE} :
         page' = [items |-> ReportItems, stamp |-> Digest(ReportItems, words)]
    /\ UNCHANGED <<intake, files, lines, torn, phase, stops>>

Next ==
    \/ NextChunk \/ Mend \/ Stop \/ Render
    \/ \E r \in Rows :
         \/ Reword(r) \/ Check(r) \/ CheckStops(r) \/ Ask(r) \/ Compare(r)
         \/ Grade(r) \/ Record(r) \/ RecordStops(r)

Spec == Init /\ [][Next]_vars

----------------------------------------------------------------------------
(* Properties *)

\* A record speaks of one statement.  Its ledger grades nothing that the check
\* of an earlier wording measured, however that check or a later one ended; and
\* it is a match only when every part was measured and none fell short, the
\* statement ran and reads as an answer to its question, and the answers compared
\* are its own: two wrong statements agree easily, and a match is what may be
\* kept.  Left out are the comparison of a number whose statement returned a
\* table before, since record still finds the table's comparison.json and takes
\* its word, and the values it would lend to the grades.
MatchIsMeasured ==
    \A rec \in ToSet(lines) :
        /\ \A x \in rec.ledger.parts : x.part # "values" => x.of = rec.of
        /\ rec.status = "match" =>
             /\ {x.part : x \in rec.ledger.parts} = Parts \cup {"run", "fit"}
             /\ \A x \in rec.ledger.parts :
                   x.verdict = "confirmed" \/ (x.part \in Parts /\ x.verdict = "noted")
             /\ (rec.compared.by = "comparison" <=> rec.table) => rec.compared.of = rec.of

\* The page and the parser of its block agree on what may be kept.  Each has
\* its own reading of it, one from the record and the other from the row's
\* ledger as it is now: while check-run accepts the page, nothing passes the
\* parser that the page does not offer, and what it offers passes unless the
\* row was taken up again and is not yet recorded.  An emptied checkpoint is
\* left out: check-run looks at no stamp then and accepts any page.
OffersAgree ==
    CheckRun /\ lines # <<>> =>
        LET offered == {item.rec.row : item \in {i \in page.items : i.keep}}
            midway == {r \in DoneRows : phase[r] # "away" \/ \E rec \in ToSet(lines) : rec.row = r /\ rec.of # intake[r].of}
        IN Keepable \subseteq offered /\ offered \subseteq Keepable \cup midway

\* What the documentation says of the page: rendered from the run's own files
\* it passes check-run.
RenderedPagePasses ==
    [][page' # page => Stamped']_vars
=============================================================================
