----------------------------- MODULE ModelFiles -----------------------------
(* The two writers that replace a model's files whole: a sheet applied over a *)
(* model (ModelSpec), and a refresh from the database (Refresh).  Each runs   *)
(* against the tools beside it; while one moves, the other is as it began.    *)
EXTENDS ModelSpec

CONSTANTS
    DbTables, Columns, NoType, TableOf, Links, Apart, IdColumns, References, Types,
    Catalogs, FirstCatalogs, Enforced, Options, Decisions, MaxRefreshes

VARIABLES writer, db, model, option, seen, held, merged, step, under, synced, refreshes

Base == INSTANCE Refresh WITH
            Tables <- DbTables, None <- NoType, MaxOps <- MaxRefreshes,
            phase <- step, raced <- under, ops <- refreshes
baseVars == <<db, model, option, seen, held, merged, step, under, synced, refreshes>>

ASSUME InputsAssumption == InputsAreWhole /\ Base!CatalogsAreOne

FilesInit ==
    /\ Init /\ Base!Init
    /\ \/ writer = "refresh" /\ files.beside = {}
       \/ writer = "sheet" /\ db = CHOOSE d \in FirstCatalogs : TRUE
FilesNext ==
    \/ writer = "refresh" /\ Base!Next /\ UNCHANGED <<writer, vars>>
    \/ writer = "sheet" /\ Next /\ UNCHANGED <<writer, baseVars>>
FilesSpec == FilesInit /\ [][FilesNext]_<<writer, vars, baseVars>>

(* What is served is what the database has, once a refresh has written it.    *)
ServesTheDatabase == Base!ServesTheDatabase

(* No refresh undoes what a person decided before it began.                   *)
DecisionsStand == Base!DecisionsStand
=============================================================================
