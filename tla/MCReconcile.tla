---- MODULE MCReconcile ----
(* A reconcile run of two rows in one chunk; the first is the one whose       *)
(* parts may fall short and that is reworded.                                *)
EXTENDS Reconcile, TLC

MCRows == {1, 2}

AllHeld == [x \in ToSet(Written) \cup {"fit"} |-> "confirmed"] @@ ("gate" :> "passed")

\* One part short is enough to tell the verdicts apart.  The second row's judge
\* notes something and grades nothing.
MCOutcomes ==
    1 :> {AllHeld,
          [AllHeld EXCEPT !["gate"] = "query_defect"],
          [AllHeld EXCEPT !["run"] = "unresolved"],
          [AllHeld EXCEPT !["probes"] = "unusable"],
          [AllHeld EXCEPT !["fit"] = "unresolved"]}
    @@ 2 :> {[AllHeld EXCEPT !["judge"] = "noted"]}

\* The first row's statement returns a table or a number, and a rewording may
\* change that; the second's returns a number.
MCTables == 1 :> BOOLEAN @@ 2 :> {FALSE}

MCMaxReword == 1 :> 1 @@ 2 :> 0
====
