------------------------------ MODULE MCScripts ------------------------------
(* The two scripts whose files outlive the session that writes them: a        *)
(* reconcile run (Reconcile) and the golden datasets with their runs          *)
(* (GoldenSuite).  They share nothing: one moves, the other is as it began.   *)
(* There are two datasets, one of two cases that every door writes to and one *)
(* of a single case that is only run.                                         *)
EXTENDS MCReconcile, GoldenSuite

CONSTANTS suite, other, i, j, q, today, k, dated, smoke

Case(id, query, sql, confirmed) ==
    [id |-> id, query |-> query, sql |-> sql, confirmed |-> confirmed, match |-> "exact", bounds |-> FALSE, tags |-> {}]
Tagged == [Case(i, q, k, TRUE) EXCEPT !.tags = {smoke}]
Pending == Case(j, today, None, FALSE)
MCFirst == {suite :> <<Tagged, Pending>> @@ other :> <<Case(i, q, k, TRUE)>>}

World(gen, key, made, same, gated) == [gen |-> gen, key |-> key, made |-> made, same |-> same, gated |-> gated]
Right == World("sql", "ok", "ok", TRUE, FALSE)
MCWorlds ==
    {Right, World("raises", "ok", "ok", FALSE, FALSE), World("none", "ok", "ok", FALSE, FALSE),
     [Right EXCEPT !.same = FALSE], [Right EXCEPT !.gated = TRUE], [Right EXCEPT !.made = "refused"],
     World("sql", "refused", "uncompared", FALSE, FALSE), World("sql", "failed", "failed", FALSE, FALSE)}

MCSheets == {<<suite, <<[id |-> j, query |-> q, sql |-> dated]>>>>, <<suite, <<[id |-> i, query |-> q, sql |-> None]>>>>}
MCAnswers == {<<suite, [Case(j, today, k, TRUE) EXCEPT !.match = "bounded", !.bounds = TRUE]>>,
              <<suite, Case(j, today, dated, TRUE)>>}
Queued(op, id, value) == [op |-> op, id |-> id, value |-> value]
MCPages ==
    {<<suite, <<Queued("withdraw", i, None)>>>>,
     <<suite, <<Queued("match", i, "bounded"), Queued("untag", i, smoke)>>>>,
     <<suite, <<Queued("question", j, today), Queued("tag", j, smoke)>>>>,
     <<suite, <<Queued("match", j, "nonempty"), Queued("remove", i, None)>>>>}
MCEdits == {<<suite, <<Tagged, [Pending EXCEPT !.confirmed = TRUE]>>>>, <<suite, <<Tagged, Tagged, Pending>>>>,
            <<suite, <<Tagged>>>>}

MCDatasets == {suite, other}
MCRelative == {today}
MCFrozen == {dated}
MCSelections == {"all", "rerun", smoke}

(* ------------------------------------------------------------------------ *)

VARIABLE script

ScriptsInit ==
    /\ Init /\ GoldenInit
    /\ script = "reconcile" \/ (script = "golden" /\ \A r \in Rows : ~intake[r].table)
ScriptsNext ==
    \/ script = "reconcile" /\ Next /\ UNCHANGED <<script, goldenVars>>
    \/ script = "golden" /\ GoldenNext /\ UNCHANGED <<script, vars>>
ScriptsSpec == ScriptsInit /\ [][ScriptsNext]_<<script, vars, goldenVars>>

=============================================================================
