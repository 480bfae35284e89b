----------------------------- MODULE MCProcess -----------------------------
(* What one process does on its own threads and on its own connection.      *)
(* BoundedExec: three calls, of which one runs on an engine with a watchdog *)
(* and two on an injected executor.  StoreConn: two instances that boot     *)
(* together.  They share nothing: one moves, the other is as it began.      *)
EXTENDS BoundedExec, MCStoreConn

CONSTANTS c1, c2, c3

ThreeCalls == {c1, c2, c3}
OneWatched == {c1}

VARIABLE part

ProcessInit == ExecInit /\ Init /\ part \in {"execution", "connection"}
ProcessNext ==
    \/ part = "execution" /\ ExecNext /\ UNCHANGED <<part, vars>>
    \/ part = "connection" /\ Next /\ UNCHANGED <<part, execVars>>
ProcessSpec ==
    /\ ProcessInit /\ [][ProcessNext]_<<part, execVars, vars>>
    /\ CallerFairness /\ ConnFairness

=============================================================================
