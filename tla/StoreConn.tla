----------------------------- MODULE StoreConn -----------------------------
(***************************************************************************)
(* store.Store on Postgres: one connection that the server may close at    *)
(* any time, statements that reopen it once when nothing can be lost by    *)
(* that, units of work of two rows that must land together, and the        *)
(* migrations several instances run at boot under one advisory lock.       *)
(*                                                                         *)
(* What is written is told apart by pieces: a migration file's script and  *)
(* its schema_migrations row, a unit's first and second row.  db counts    *)
(* how often each has been committed.                                      *)
(***************************************************************************)
EXTENDS Naturals, FiniteSets

CONSTANTS
    Stores,     \* instances, each with one Store
    NFiles,     \* migration files, applied in the order of their names
    NUnits,     \* bound: units of work ever begun
    MaxLosses,  \* bound: connections the server closes
    MaxBoots,   \* bound: starts of an instance
    NoOne

ASSUME StoreAssumption ==
    /\ NFiles \in Nat /\ NUnits \in Nat /\ MaxLosses \in Nat /\ MaxBoots \in Nat
    /\ NoOne \notin Stores

Files == 1 .. NFiles
Units == 1 .. NUnits
Pieces == ({"script", "row"} \X Files) \cup ({"change", "audit"} \X Units)

VARIABLES
    db,     \* committed pieces
    lock,   \* the instance whose session holds _MIGRATION_LOCK_KEY
    conn,   \* Store.conn, and what the server holds for it
    st,     \* Store's flags and where its caller is
    bounds  \* losses, boots and units so far

vars == <<db, lock, conn, st, bounds>>

\* Statements sent through execute.  Only the second set marks the
\* transaction: pg_advisory_lock is a SELECT, and so a read.
Writes == {"create", "row", "change", "audit"}
Statements == {"lock", "read", "unlock", "cleanup_unlock", "probe"} \cup Writes
Commits == {"create_commit", "file_commit", "unlock_commit", "cleanup_commit", "unit_commit"}
Rollbacks == {"cleanup_rollback", "unwind"}
Migrating == {"create", "create_commit", "read", "script", "row", "file_commit"}
Pcs == Statements \cup Commits \cup Rollbacks \cup Migrating \cup {"boot", "idle", "failed"}

Lost == [up |-> FALSE, tx |-> {}, aborted |-> FALSE]
Fresh == [up |-> TRUE, tx |-> {}, aborted |-> FALSE]
New(pc) == [pc |-> pc, retry |-> "first", mid |-> FALSE, held |-> FALSE,
            applied |-> {}, file |-> 0, unit |-> 0]

Init ==
    /\ db = [p \in Pieces |-> 0]
    /\ lock = NoOne
    /\ conn = [s \in Stores |-> Lost]
    /\ st = [s \in Stores |-> New("boot")]
    /\ bounds = [losses |-> 0, boots |-> 0, units |-> 0]

Freed(s) == IF lock = s THEN NoOne ELSE lock
Recorded == {f \in Files : db[<<"row", f>>] > 0}

-----------------------------------------------------------------------------
(* The server and the process                                              *)

\* The server ends a session: its transaction is rolled back and its advisory
\* lock freed, and nothing tells the process.
LoseConnection(s) ==
    /\ conn[s].up
    /\ bounds.losses < MaxLosses
    /\ conn' = [conn EXCEPT ![s] = Lost]
    /\ lock' = Freed(s)
    /\ bounds' = [bounds EXCEPT !.losses = @ + 1]
    /\ UNCHANGED <<db, st>>

\* Store.from_env, then run_migrations.
Boot(s) ==
    /\ st[s].pc = "boot"
    /\ bounds.boots < MaxBoots
    /\ conn' = [conn EXCEPT ![s] = Fresh]
    /\ st' = [st EXCEPT ![s] = New("lock")]
    /\ bounds' = [bounds EXCEPT !.boots = @ + 1]
    /\ UNCHANGED <<db, lock>>

Crash(s) ==
    /\ st[s].pc # "boot"
    /\ conn' = [conn EXCEPT ![s] = Lost]
    /\ lock' = Freed(s)
    /\ st' = [st EXCEPT ![s] = New("boot")]
    /\ UNCHANGED <<db, bounds>>

\* Mutant of Close: the session outlives the Store that opened it.
CloseLeaks(s) ==
    /\ st[s].pc = "failed"
    /\ conn' = [conn EXCEPT ![s] = Lost]
    /\ st' = [st EXCEPT ![s] = New("boot")]
    /\ UNCHANGED <<db, lock, bounds>>

\* The finally of the lifespan, after migrations that failed.
Close(s) ==
    /\ st[s].pc = "failed"
    /\ conn' = [conn EXCEPT ![s] = Lost]
    /\ lock' = Freed(s)
    /\ st' = [st EXCEPT ![s] = New("boot")]
    /\ UNCHANGED <<db, bounds>>

-----------------------------------------------------------------------------
(* execute, and the ways a statement ends                                  *)

To(s, pc) == [st[s] EXCEPT !.pc = pc, !.retry = "first"]

\* Where an exception takes the caller: run_migrations' except clause (its
\* own cleanup is suppressed and ends in _session_state_held = False), or the
\* caller of a unit of work.
Raised(s) ==
    LET pc == st[s].pc IN
    IF pc \in Migrating THEN To(s, "cleanup_rollback")
    ELSE IF pc \in {"cleanup_rollback", "cleanup_unlock", "cleanup_commit"}
         THEN [To(s, "failed") EXCEPT !.held = FALSE]
    ELSE IF pc \in {"lock", "unlock", "unlock_commit"} THEN To(s, "failed")
    ELSE IF pc \in {"change", "audit", "unit_commit"} THEN To(s, "unwind")
    ELSE To(s, "idle")

\* A statement that a healthy connection runs; a write marks the transaction
\* once it has run.
Runs(s, pc, pieces, next) ==
    /\ st[s].pc = pc
    /\ st[s].retry # "reconnect"
    /\ conn[s].up /\ ~conn[s].aborted
    /\ conn' = [conn EXCEPT ![s].tx = @ \cup pieces]
    /\ st' = [st EXCEPT ![s] = [next EXCEPT !.mid = @ \/ pc \in Writes]]
    /\ UNCHANGED <<db, bounds>>

\* The database refuses the statement and the connection lives: never retried
\* (_is_dead), and the transaction is aborted until it is rolled back.
Fails(s) ==
    /\ st[s].pc \in Statements \cup {"script"}
    /\ st[s].retry # "reconnect"
    /\ conn[s].up
    /\ conn' = [conn EXCEPT ![s] = [@ EXCEPT !.tx = {}, !.aborted = TRUE]]
    /\ st' = [st EXCEPT ![s] = Raised(s)]
    /\ UNCHANGED <<db, lock, bounds>>

\* Mutant of MayReconnect: any statement may be sent again.
MayReconnectAlways(s) == TRUE

\* Mutant of MayReconnect: the advisory lock is forgotten.
MayReconnectUnlocked(s) == ~st[s].mid

\* _reconnected's refusal.
MayReconnect(s) == ~st[s].mid /\ ~st[s].held

\* The connection is gone.  execute asks for a new one, once.
FindsDead(s) ==
    /\ st[s].pc \in Statements
    /\ st[s].retry # "reconnect"
    /\ ~conn[s].up
    /\ st' = [st EXCEPT ![s] = IF st[s].retry = "first" /\ MayReconnect(s)
                               THEN [st[s] EXCEPT !.retry = "reconnect"] ELSE Raised(s)]
    /\ UNCHANGED <<db, lock, conn, bounds>>

Reconnect(s) ==
    /\ st[s].retry = "reconnect"
    /\ \/ /\ conn' = [conn EXCEPT ![s] = Fresh]
          /\ st' = [st EXCEPT ![s].retry = "again"]
       \/ /\ st' = [st EXCEPT ![s] = Raised(s)]
          /\ UNCHANGED conn
    /\ UNCHANGED <<db, lock, bounds>>

-----------------------------------------------------------------------------
(* commit and rollback                                                     *)

Landed(s) == [p \in Pieces |-> IF p \in conn[s].tx THEN db[p] + 1 ELSE db[p]]

\* The applied set with the file whose row is being committed.
Ran(s) == st[s].applied \cup {st[s].file}

\* What follows the commit that returned.
Committed(s) ==
    LET pc == st[s].pc
        me == [st[s] EXCEPT !.mid = FALSE]
    IN
    CASE pc = "create_commit" -> [me EXCEPT !.pc = "read"]
      [] pc = "file_commit" -> [me EXCEPT !.applied = Ran(s),
                                          !.pc = IF Ran(s) = Files THEN "unlock" ELSE "script"]
      [] pc = "unlock_commit" -> [me EXCEPT !.pc = "idle", !.held = FALSE, !.applied = {},
                                            !.file = 0]
      [] pc = "cleanup_commit" -> [me EXCEPT !.pc = "failed", !.held = FALSE]
      [] OTHER -> [me EXCEPT !.pc = "idle", !.unit = 0]

CommitReturns(s) ==
    /\ st[s].pc \in Commits
    /\ conn[s].up
    /\ db' = Landed(s)
    /\ conn' = [conn EXCEPT ![s].tx = {}]
    /\ st' = [st EXCEPT ![s] = Committed(s)]
    /\ UNCHANGED <<lock, bounds>>

\* The connection goes while COMMIT is on its way: it landed or it did not,
\* and the caller is told of an error either way.
CommitLost(s) ==
    /\ st[s].pc \in Commits
    /\ conn[s].up
    /\ bounds.losses < MaxLosses
    /\ db' \in {db, Landed(s)}
    /\ conn' = [conn EXCEPT ![s] = Lost]
    /\ lock' = Freed(s)
    /\ st' = [st EXCEPT ![s] = Raised(s)]
    /\ bounds' = [bounds EXCEPT !.losses = @ + 1]

RollbackReturns(s) ==
    /\ st[s].pc \in Rollbacks
    /\ conn[s].up
    /\ conn' = [conn EXCEPT ![s] = [@ EXCEPT !.tx = {}, !.aborted = FALSE]]
    /\ st' = [st EXCEPT ![s] =
                [To(s, IF st[s].pc = "unwind" THEN "idle" ELSE "cleanup_unlock")
                   EXCEPT !.mid = FALSE]]
    /\ UNCHANGED <<db, lock, bounds>>

\* The driver raises on a closed connection before the flag is cleared.
EndsDead(s) ==
    /\ st[s].pc \in Commits \cup Rollbacks \cup {"script"}
    /\ ~conn[s].up
    /\ st' = [st EXCEPT ![s] = Raised(s)]
    /\ UNCHANGED <<db, lock, conn, bounds>>

-----------------------------------------------------------------------------
(* run_migrations                                                          *)

\* Mutant of Lock: it is tried and not waited for.
LockTried(s) ==
    /\ Runs(s, "lock", {}, [To(s, "create") EXCEPT !.held = TRUE])
    /\ lock' = IF lock = NoOne THEN s ELSE lock

Lock(s) ==
    /\ lock = NoOne
    /\ Runs(s, "lock", {}, [To(s, "create") EXCEPT !.held = TRUE])
    /\ lock' = s

CreateLedger(s) == Runs(s, "create", {}, To(s, "create_commit")) /\ UNCHANGED lock

ReadApplied(s) ==
    /\ Runs(s, "read", {}, [To(s, IF Recorded = Files THEN "unlock" ELSE "script")
                              EXCEPT !.applied = Recorded])
    /\ UNCHANGED lock

\* The next file in order that is not applied.  _run_script goes past execute:
\* no reconnect, and no mark.
RunScript(s) ==
    \E f \in Files \ st[s].applied :
        /\ \A g \in Files \ st[s].applied : f <= g
        /\ Runs(s, "script", {<<"script", f>>}, [To(s, "row") EXCEPT !.file = f])
        /\ UNCHANGED lock

\* The primary key refuses a file that is already recorded.
InsertRow(s) ==
    /\ st[s].file \notin Recorded
    /\ Runs(s, "row", {<<"row", st[s].file>>}, To(s, "file_commit"))
    /\ UNCHANGED lock

Unlock(s) ==
    /\ \/ Runs(s, "unlock", {}, To(s, "unlock_commit"))
       \/ Runs(s, "cleanup_unlock", {}, To(s, "cleanup_commit"))
    /\ lock' = Freed(s)

-----------------------------------------------------------------------------
(* The Store's other callers                                               *)

\* A role change and its audit line, a credential and who set it.
BeginUnit(s) ==
    /\ st[s].pc = "idle"
    /\ bounds.units < NUnits
    /\ bounds' = [bounds EXCEPT !.units = @ + 1]
    /\ st' = [st EXCEPT ![s].pc = "change", ![s].unit = bounds.units + 1]
    /\ UNCHANGED <<db, lock, conn>>

Change(s) == Runs(s, "change", {<<"change", st[s].unit>>}, To(s, "audit")) /\ UNCHANGED lock

Audit(s) == Runs(s, "audit", {<<"audit", st[s].unit>>}, To(s, "unit_commit")) /\ UNCHANGED lock

BeginRead(s) ==
    /\ st[s].pc = "idle"
    /\ st' = [st EXCEPT ![s].pc = "probe"]
    /\ UNCHANGED <<db, lock, conn, bounds>>

Probe(s) == Runs(s, "probe", {}, To(s, "idle")) /\ UNCHANGED lock

-----------------------------------------------------------------------------
\* What a call that has begun does until it returns.
Step(s) ==
    \/ Fails(s) \/ FindsDead(s) \/ Reconnect(s)
    \/ CommitReturns(s) \/ CommitLost(s) \/ RollbackReturns(s) \/ EndsDead(s) \/ Close(s)
    \/ Lock(s) \/ CreateLedger(s) \/ ReadApplied(s) \/ RunScript(s) \/ InsertRow(s) \/ Unlock(s)
    \/ Change(s) \/ Audit(s) \/ Probe(s)

Next ==
    \E s \in Stores :
        \/ Step(s) \/ LoseConnection(s) \/ Boot(s) \/ Crash(s) \/ BeginUnit(s) \/ BeginRead(s)

Spec == Init /\ [][Next]_vars

\* Calls into the driver return, but a wait for the lock need not: Postgres
\* grants a free lock to a waiter, and a dead connection is noticed.
ConnFairness ==
    \A s \in Stores :
        /\ WF_vars(Step(s) /\ st[s].pc # "lock")
        /\ WF_vars(FindsDead(s) \/ Reconnect(s))
        /\ SF_vars(Lock(s))
FairSpec == Spec /\ ConnFairness

-----------------------------------------------------------------------------
TypeOK ==
    /\ db \in [Pieces -> Nat]
    /\ lock \in Stores \cup {NoOne}
    /\ conn \in [Stores -> [up : BOOLEAN, tx : SUBSET Pieces, aborted : BOOLEAN]]
    /\ st \in [Stores -> [pc : Pcs, retry : {"first", "reconnect", "again"}, mid : BOOLEAN,
                          held : BOOLEAN, applied : SUBSET Files, file : 0 .. NFiles,
                          unit : 0 .. NUnits]]
    /\ bounds \in [losses : 0 .. MaxLosses, boots : 0 .. MaxBoots, units : 0 .. NUnits]

\* Two rows of one unit of work land together or not at all, wherever the
\* connection is lost and however the Store recovers (_reconnected).
UnitIsWhole == \A u \in Units : db[<<"change", u>>] = db[<<"audit", u>>]

\* A migration's script and its schema_migrations row land together, and once,
\* whichever instances boot together or lose their connection (run_migrations).
AppliedMeansRun ==
    \A f \in Files : db[<<"row", f>>] = db[<<"script", f>>] /\ db[<<"row", f>>] <= 1

\* The applied set is read once and acted on for the length of the run: while
\* the connection lives nobody else changes what it says (pg_advisory_lock).
PlanIsCurrent ==
    \A s \in Stores :
        conn[s].up /\ st[s].pc \in {"script", "row", "file_commit"} => st[s].applied = Recorded

\* What the server would lose with the connection is never unguarded: a
\* transaction with pieces in it refuses a reconnect (_mid_transaction,
\* _session_state_held).
UncommittedIsGuarded == \A s \in Stores : conn[s].tx # {} => ~MayReconnect(s)

\* No instance waits for good behind another's migrations, failed or not.
BootEnds ==
    \A s \in Stores : st[s].pc = "lock" ~> st[s].pc \in {"idle", "failed", "boot"}

(* A statement of the repository that the code does not keep. *)

\* test_rolling_back_ends_it_too: rolling back ends the transaction, "Otherwise
\* a connection abandoned by a failed transaction could never reconnect again".
\* A Store whose caller has rolled back may reconnect.
RolledBackMayReconnect == \A s \in Stores : st[s].pc = "idle" => MayReconnect(s)
=============================================================================
