# TLA+ verification of agami-core

agami-core answers questions about a warehouse over MCP. A client calls tools
(`get_datasource_schema`, `execute_sql`, ...); every statement passes one
chokepoint that vets it against a curated semantic model, runs it bounded, and
records it before it answers. The hosted form adds an OAuth server, user
accounts, a Postgres store, deploys of the model and several instances at once.

Beside the server stand the tools that make the model: introspection of a
database, curation by people, reconciliation of known numbers, and golden
datasets that an answer is scored against.

This directory models the parts where order, concurrency, failure or a long
chain of small rules decides whether the program is right. TLC checks each on
small instances; TLAPS proves theorems about fourteen modules, for all values of
their constants.

All paths below are under `src/packages/agami-core/src/` unless they say otherwise.

## Contents

| module | what it is | source |
|---|---|---|
| `BoundedExec` | the two time bounds around a statement | `execute_sql.py` (`_execute_bounded`, `_deadline`) |
| `GuardedCall` | one `execute_sql` call from the transport to the audit rows | `tools.py`, `execute_sql.py`, `mcp_http.py` |
| `ToolCallRow` | what the row of a tool call says of it | `tools.py` (`record_tool_call`) |
| `Conversations` | which conversation a recorded call is put in | `tools.py`, `model_store.py` |
| `CallLogs` | the three above composed: a call and what its logs keep of it | |
| `CallLogsProofs` | TLAPS proofs of the invariants of all three | |
| `ModelServing` | deploys of a model against calls that read it | `model_deploy.py`, `model_store.py`, `tools.py`, `execute_sql.py` |
| `ModelServingProofs` | TLAPS proofs of its invariants, of what `ServedModel` serves and what `SchemaReply` says | |
| `OAuthTokens` | authorization codes and refresh tokens | `oauth_server.py` |
| `RefreshLineage` | what the refresh-token table promises, abstractly | |
| `UserAccount` | everything that changes one account's credential | `user_store.py`, `onboarding.py`, `oauth_server.py` |
| `AccountsProofs` | TLAPS proofs of the invariants of `OAuthTokens` and `UserAccount`, and that the first implements `RefreshLineage` | |
| `StoreConn` | the store's connection, its reconnect, boot migrations | `store.py` |
| `StoreConnProofs` | TLAPS proofs of its invariants | |
| `Curation` | batches, undo and the log of a person's decisions on a model | `semantic_model/curate.py`, `derived.py` |
| `CurationProofs` | TLAPS proofs of its invariants | |
| `Refresh` | merging a changed database into a curated model on disk | `semantic_model/introspect.py`, `build.py` |
| `ModelSpec` | a person's sheet applied over a model, with failures and other writers | `semantic_model/model_spec.py`, `build.py`, `snapshot.py` |
| `ModelFiles` | the two above side by side: the writers that replace a model's files whole | |
| `ModelFilesProofs` | TLAPS proofs of the properties of both | |
| `Reconcile` | the files, checkpoint and page of a reconcile run | `src/plugins/agami/scripts/` |
| `GoldenSuite` | the doors that write golden datasets, runs over them, and their records | `semantic_model/golden.py`, `golden_run.py`, `src/plugins/agami/scripts/` |
| `Subsequences` | picking the elements of a sequence, used by the two above | |
| `ScriptsProofs` | TLAPS proofs of the invariants and action properties of `Reconcile` and `GoldenSuite` | |
| `TrapReport` | the fan and chasm report of a statement | `semantic_model/runtime.py` |
| `StatementProofs` | TLAPS proofs of the invariants of `BoundedExec` and `TrapReport`, and of the score `Comparator` gives | |
| `ServedModel` | what a load serves of a model, and the rules it is held to | `semantic_model/loader.py`, `validator.py` |
| `Comparator` | scoring an answer against a golden key | `semantic_model/comparator.py` |
| `SchemaReply` | the reply to `get_datasource_schema` | `tools.py`, `semantic_model/loader.py` |
| `MC*` | instances for TLC, with their `.cfg` files; `MCReadings` runs the four pure modules, `MCScripts` runs `Reconcile` and `GoldenSuite`, `MCRefresh` runs `ModelFiles`, `MCCalls` runs `CallLogs` and `UserAccount`, `MCProcess` runs `BoundedExec` and `StoreConn` | |

`PROJECT.json` gives, for every definition, the lines it stands for, and lists
the runs, mutants, findings, hazards and theorems.

## Inventory of the system

For each component: its state, its operations, what is hard about it, and what
makes it correct.

**Bounded execution** (`execute_sql.py`). State: the process-wide count
`_abandoned_workers` under `_abandoned_lock`; per call an outcome box, a worker
thread, a watchdog timer with its own lock and an Event. Operations: enter and
test the cap, start the worker, join with a timeout, settle from either side,
arm, fire, disarm. Hard: three threads per call, a cancel that may hang while a
lock is held, a join that expires as the worker finishes. Correct if no slot
leaks or is returned twice, the answer tells what happened, and a hanging
driver keeps nobody.

**The guarded call** (`execute_sql.execute_guarded`, `tools._tool_execute_sql`,
`tools._emit`, `mcp_http._call_tool`). State: none of its own beyond the call,
but it reads an audit store that comes and goes and an environment switch that
may move, may fork a child, and may be cancelled. Operations: the edge's gates,
the audit probe, the hard gates, the model gates, credentials, engine, the
execution, the receipt, the two audit rows. Hard: the order of some ten gates,
partial failure at each, a posture read in two processes. Correct if nothing
runs that a gate did not pass, a served answer is never unrecorded, and a
laptop is never refused for want of a disk.

**Model deploy and serving** (`model_deploy.py`, `model_store.py`,
`tools.get_cached_org`). State: the datasource's rows with the version row
beside them, and each process's `_ORG_CACHE` under `_ORG_CACHE_LOCK`.
Operations: four writers, each its own commit, version last; readers that take
the version first and the content query by query; eviction; the refusal of a
statement with another version. Hard: readers interleave with half a deploy;
cached mixtures; a deploy that dies. Correct if a stale client can always be
told, and a cache settles on the live model.

**OAuth tokens** (`oauth_server.py`). State: `oauth_state`,
`oauth_refresh_token`. Operations: issue, exchange, renew (overwrite or
rotate), burn on replay, prune, revoke. Hard: row locks and READ COMMITTED
snapshots, bulk updates that miss concurrent inserts, a failure between two
statements. Correct if nothing is spent twice and each session has one live
token.

**User accounts** (`user_store.py`, `onboarding.py`, `_resolve_oidc_user`).
State: the `users` row. Operations: setup, reset, login with rehash, provider
claim and bind, migration, status. Hard: check-then-act around slow hashing.
Correct if links are single-use, an account is claimed once and by one
identity, and a reset decides.

**Store** (`store.py`). State: one connection, the marks `_mid_transaction` and
`_session_state_held`, `schema_migrations`, an advisory lock. Operations:
execute with one reconnect, commit, rollback, `run_migrations`. Hard: a server
that closes sessions, a COMMIT whose reply is lost, several instances booting.
Correct if a unit of work lands whole, a migration once.

**The activity log** (`tools.record_tool_call`, `_conversation_id_for`,
`model_store.list_sessions`). State: the `tool_calls` rows. Operations: stamp a
call, derive its outcome from what it raised, returned and published, look up
the caller's newest row, insert, group. Hard: a context inherited from an
earlier call; parallel calls that read the same predecessor, on clocks that
differ. Correct if a row tells its own call's outcome, and a conversation is one
person's and has no pause in it.

**Curation** (`semantic_model/curate.py`). State: YAML files, one per metric
and one list of joins per place, and `curation_log.jsonl`. Operations: a batch
of trust verbs, edits, adds and moves, validated as a whole, then logged or
undone from in-memory copies; items other tools write in between. Hard: a batch
undone half way, a sign-off that must not survive an edit, a join that changes
files, a history read from an incomplete log. Correct if approved means that
this definition was approved, and what was undone was never seen.

**Introspection and refresh** (`semantic_model/introspect.py`, `build.py`).
State: the same files, in three groups written one after another. Operations:
read the catalog, load the model, merge, propose joins, probe the grain, check,
write. Hard: reads that fail in part, a schema that changed under decisions
made on it, a crash between two groups, a decision saved while a refresh runs.
Correct if what is served can be run on the database and what people decided
stands.

**Model specs** (`semantic_model/model_spec.py`, `snapshot.py`). State: the same
files, a copy of them aside, the newest snapshot. Operations: check a sheet
against the model, build and validate in memory, copy aside, remove, write, stamp,
read back, restore. Hard: a failure at any of some ten writes, tools that write
under it, joins that validate where nobody would be served them. Correct if the
model is the sheet's or the one before, whole, and its version is its own.

**Reconcile** (`src/plugins/agami/scripts/reconcile.py`, `check_statement.py`,
`render_reconcile_report.py`, `parse_reconcile_report.py`). State: a directory
per row, `rows.jsonl`, `checkpoint.json`, the rendered page. Operations: check,
ask, compare, grade, record, next chunk, render, check the page, parse what to
keep. Hard: a session that stops anywhere and resumes from files of different
ages, rows reworded in between. Correct if a match was measured on the
statements it is shown with, and only what stands can be kept.

**Golden datasets** (`semantic_model/golden.py`, `golden_run.py`,
`src/plugins/agami/scripts/golden_author.py`, `run_golden_eval.py`). State: a
YAML file per dataset, and a record per run, named by its stamp. Operations:
import a sheet, save an accepted answer, apply a page's queue, edit by hand; run
the whole, the cases of a tag, or the last failures. Hard: a write refused after
it is on disk, a file with cases the reader drops, failures on either side of a
comparison, records of runs that mean less than they seem to. Correct if a
confirmed case has a statement somebody accepted, a door leaves other cases
alone, the exit code says what happened, and a rerun is of what failed.

**Trap analysis** (`semantic_model/runtime.py`), **loading**
(`semantic_model/loader.py`, `validator.py`), **the comparator**
(`semantic_model/comparator.py`), **the schema reply** (`tools.py`). No state:
each is worked out from a model, a statement or two results at once. Hard: many
small rules that must agree with each other. Correct if a join that repeats
rows is told, a load never breaks a rule the model was valid under, an answer
passes only if it is the key's, and a compacted reply still says what the model
says.

**Transport, admin pages, OIDC client, preflight** keep no protocol state of
their own; **the SQL guard, dialects, units** and the rest of the runtime and
the validator are pure functions over documents and syntax trees; **the
plugin's other scripts** are a single user's sequential tools;
**the vendored library of the plugin** is a byte copy. See `PROJECT.json` for
every one of them with the reason it is left out.

### How they interact

    client --MCP--> transport --thread--> tool edge --in process or fork--> chokepoint
                      |                     |  |                               |
                      | finally: tool row   |  +-- version, cached model       +-- guard model, gates
                      v                     v           ^                      +-- bounded execution --> warehouse
                    store <-- query row -- emit         |                      
                      ^                                 |
                      +-- oauth, accounts, migrations   model rows <-- deploy

    database --introspect--> model files <--curate-- people     rows --reconcile--> ledger, page
                                  |                                                  |
                                  +--deploy--> model rows              what to keep <+
                                  +--load-->   schema reply, trap reports

    sheet, answer, page --doors--> golden datasets --run (asks, compares)--> records --rerun--+
                                         ^----------------------------------------------------+

Calls are synchronous; concurrency comes from the threads the transport lends
to calls, the worker and timer threads of a bounded execution, the forked
child, several instances, and operators' commands. All shared state of the
server is the store, two locks and two module-level variables; the authoring
tools share the model's files and lock nothing.

## How each module corresponds to the code

**BoundedExec.** One action per section under `_abandoned_lock` (the code holds
it over no blocking call) and one per step of a thread outside it. `Enter` is the cap
check; `StartWorker`, `JoinReturns` (with or without the worker done) and
`CallerSettles` are the rest of the caller; `WorkerSettles` is the `finally` of
the worker; `ConnectFails`, `SendStatement`, `StatementSucceeds`,
`StatementFails`, `Disarm` are an engine function inside its `_deadline`;
`UnwatchedReturns` is an engine with no cancellable connection; `Fire` and
`CancelReturns` are the timer. The thirteen engine functions have one shape.
Time is abstract: a join or a timer may expire at any moment.

**GuardedCall.** A statement is the set of things wrong with it (`Faults`), so
one statement may trip several gates and the order decides which answers.
`site`, chosen at the start, is whether the deployment is hosted, whether an
executor is injected, and whether the package that reads a model is installed
with its parser. `EdgeGates` and `StaleModel` are the tool edge;
`Probe`, `HardGates`, `ModelSafety`, `LoadCredentials`, `EngineGate`,
`ExecuteBounded` are `execute_guarded` in order; `ChildLost` is the fork's death
or its supervisor's timeout; `Receipt`, `Emit`, `RecordToolCall` the way out.
`StoreFlips`, `DiskFlips`, `SwitchFlips`, `Cancel` are the surroundings. What a
gate decides about a text is abstracted to the fault.

The guard model is read twice in a call. `ModelSafety` refuses when a served
deployment can read none. `_engine_mismatch` reads it again and, finding none,
compares nothing, so `EngineGate` refuses only while `Resolves`. A call's `held` is
auxiliary: it says that a model could be read at every moment between the two,
and `Notice` clears it when one could not.

**ToolCallRow.** `Handlings` are the ways a handler can end: what it returned,
whether it raised, what it published. `Derived` reads the body, `Overridden` and
`RowVerdict` are the seam where an outcome is stated beside it, and `TransportRow`
is the `finally` of the HTTP transport. A refusal's sentences are the rule they
are about.

**Conversations.** `Stamp` makes the record with its time, `Lookup` reads the
newest row, `Insert` commits or fails; an instance's clock may be `Skew` behind.
An id is the number of the call that minted it. `blurred` keeps the callers
whose calls overlapped, so that only for the others a split would be a fault.

**ModelServing.** A tree of YAML is a number, and its content hash, which is its
version, is the same number. A loaded model is the pair of what its first query
and its later ones saw. The writers are one action per commit. A call reads the
version, then looks up the cache, loads, or is vetted and executed; `inProcess`,
chosen at the start, decides where the receipt's model comes from.
`Rollback` says whether an older tree may be put back; `Deployers` how many
deploys may be under way.

**OAuthTokens.** The unit of interleaving is the SQL statement under READ
COMMITTED, described in the module's head: a conditional UPDATE waits for the
holder of the row and tests again; a bulk UPDATE never sees a row inserted
meanwhile. A request that holds a row has written nothing visible, and `Fail`
drops it at any point, which also stands for a deadlock victim. `Modes` is the
set of refresh modes in use, both while a change of mode rolls out. Client
registration and PKCE are one Boolean, `proof`.

**UserAccount.** One row. Each handler is a read (`Begin...`), during which it
computes a slow hash off the loop, and one UPDATE whose WHERE is the guard
(`Write...`, `Claim...`, `Bind...`, `Move`). A hash is the password with the
handler that computed it, since no two salted digests are equal.

**StoreConn.** The Postgres side. `Runs` is a statement that succeeds, `Fails`
one the database refuses on a living connection (never retried), `FindsDead`
and `Reconnect` are `execute`'s single retry with `MayReconnect` its guard.
`CommitReturns`, `CommitLost` (the reply is lost; it landed or not),
`RollbackReturns`, `EndsDead` are commit and rollback. The migration is one
action per statement, with its `except` clause in `Raised`. A unit of work is
two statements and a commit, as `onboarding._write_password` has it: the reset
and the revocation that must land with it. psycopg2 and Postgres are external: a
session's end rolls back its transaction and frees its advisory lock; commit and
rollback raise on a closed connection.

**Curation.** `files` maps a path to its content: a set of items, or the lists
an area keeps. `TrustOp`, `EditOp`, `AddJoin` and `Move` are the operations of a
batch, `BatchError` one that matches no entry or several; then `Commit` (validate,
append to the log), `Undo` (write the backups back) or `Crash`. `WriteItem` and
`AddRelationship` are the writes outside a batch. `ChangesSinceApproval` is the
code's reading of the log: what an item went through since it was approved.

**Refresh.** `ReadTables` reads the database and loads the files; `MergeModel` merges
tables, columns, keys and joins, proposes and relabels joins, probes the grain;
`WriteDatasource`, `WriteTables` and `WriteAreas` write the three groups of
files, or `NotWritten` finds the result invalid; `Crash` comes between any two.
`ChangeSchema` and the `Decide...` actions are the world's, at any moment. A
join is the set of column pairs it is on.

**ModelSpec.** The files are what the loader reads of them; a sheet is a record.
`Begin` is everything up to the first write: `CheckSpec` is `_check_spec`, whose
checks of the sheet on itself are one flag, `Built` the model it makes. Each
write is an action (`RemoveAreas`, `UnlinkCross`, `WriteRoot`, `WriteArea` per
area, `Stamp`, `WriteRules`), `Over` is what writing into a directory leaves of
the old one, and `Restore` may follow any of them. `Exclude`, `AddJoin` and
`AddMetric` are other tools, atomic, refused while the files do not load.

**Reconcile.** A statement is a version number; a file carries the version it
was made from. `Check`, `Ask`, `Compare`, `Grade` and `Record` are a row in the
skill's order, `NextChunk` the checkpoint, `Reword` the person; `CheckStops`,
`RecordStops` and `Stop` are a session that ends, inside a check, inside the write of
`rows.jsonl`, or anywhere else, and `Mend` the next one's clean-up. `Render` may
happen at any pause. `KeepAllowed` and `CheckRun` are what the page offers and its check.

**GoldenSuite.** A file is the sequence of its cases, the ones the reader drops
included; `Load` is what the reader keeps. The doors `Import`, `Save` and `Apply`
all end in `WriteItems`, which merges, writes, and puts back (`Written`) what the
reader then refuses; `WriteDies` stops in it. What asking a case, its two
statements and their comparison come to is a `world` of `RunCase`, scored by
`Score`; `Finish` folds the outcomes into the exit code and a record, which
`LastFailures` reads back. `vouched` and `told` are histories: what people
accepted, and what a whole run told them had failed. A statement that came in a
sheet counts as accepted, as `_import` has it; the rest of the file says it is not,
and `KeysAreAccepted` shows nothing of that: see `golden_imports`.

**The pure modules.** `TrapReport` builds a statement one join at a time and
`Report` is what the receipt says of an aggregate. `ServedModel`, `Comparator` and
`SchemaReply` are operators, one per function of the code, each with a
reference beside it that is stated without the code's steps: what may stand of a
model once items are lost, when two results are one answer, what edges a reader
of a compact reply can recover. What they are given changes by steps:
`LoseItem` rejects or misses one more item of `onDisk`, `ScoreNext` is the answer to a
`goldenResult`, `AskNext` a `request` made of `modelServed`. `MCReadings` puts the four side
by side.

## Runs

Each run asks all its questions of one instance. Every property of it has a
mutant of the code (a dropped guard, an off-by-one, a swapped order) that makes
TLC refute it.

| run | what it checks | size |
|---|---|---|
| `process` | `SlotAccounting`, `OverrunBound`, `AnswersAreTrue`, `NoLateCancel`; `EveryCallAnswered`, `SaturationEnds` (`BoundedExec`), `UnitIsWhole`, `AppliedMeansRun`; `BootEnds` (`StoreConn`) | 157 thousand states |
| `edge` | `NothingRunsUnvetted`, `NoAnswerUnrecorded` (`GuardedCall`), `RowTellsTheCall` (`ToolCallRow`), `ConversationsHold` (`Conversations`), `OneResetPerCredential`, `ClaimedOnce` (`UserAccount`) | 3.1 million |
| `serving` | `NewAsLabelled`, `StaleTextIsDetectable`, `SettledCacheIsLive`; `EveryCallEnds` | 563 thousand |
| `oauth` | `SpentOnce`, `OneLiveRow`, `ResetEndsOneRowSession`; refinement `LineageSpec` | 517 thousand up to symmetry |
| `curation` | `ApprovedIsAsSigned`; `UndoneIsUntouched`, `StaleIsTold`, `MoveKeepsDecisions` | 744 thousand |
| `refresh` | `ServesTheDatabase`, `SpecIsWhole` (`ModelSpec`); `DecisionsStand` | 644 thousand |
| `scripts` | `MatchIsMeasured`, `OffersAgree` (`Reconcile`), `KeysAreAccepted`, `VerdictIsEarned`; `OthersAreKept`, `RerunIsOfWhatFailed` (`GoldenSuite`) | 2.4 million |
| `readings` | `NearFanIsTold` (`TrapReport`), `LoadServesWhatStands` (`ServedModel`), `PassIsTheKeysAnswer` (`Comparator`), `ReplyIsWhole` (`SchemaReply`) | 70 thousand |
| `store_poisoned`, `reconcile_words`, `trap_chasms`, `golden_imports` | the four findings below | |

The type invariants of `BoundedExec` (`ExecTypeOK`) and `StoreConn` are proved; no run
repeats them.

### Bounds, and why they are enough

- `process`: three calls, cap one, two host threads, one call watched. Two
  admitted together are needed to pass the cap, a third to meet a saturated
  process. A larger cap adds no new meeting of threads; the theorems cover the rest.
  Beside them the store (one of the two moves, the other is as it began): two
  instances, two files, two units of work, two lost connections, three boots. One
  loss in a migration and one in a cleanup or commit after it; the third boot finds
  what the first two left.
- `edge`: one call with any set of up to two of nine faults (`MaxFaults`): each
  fault is decided by one gate, and a pair is what shows the order of two. Calls
  share only the store, the files and the switch, which flip freely, so a second
  call adds no behaviour.
  Every handling under every inherited context, two rules, kinds and datasources.
  Conversations: three calls, two people, one of them in two organizations, four
  minutes, a pause of one, clocks up to one behind: an old call, one that
  continues it, and one that overlaps either. An account: two
  posts, one password login, two provider logins, one migration, two providers with two
  subjects: the smallest with every pair of racing handlers. The four share nothing in their
  models and take turns, one to a behavior.
- `serving`: three trees, two deploys, two calls. Two deploys give an old and a
  new model and the mixture between them; two calls give a waiter on the cache
  lock. One tree has no `datasource.md`, one another engine. One deployer: see
  the hazards for what overlapping deploys change.
- `oauth`: four requests and two codes: exchange, renew, renew and replay, or
  two sessions; one reset. Requests and codes are symmetric and no liveness is checked there.
- `curation`: batches of two, four operations on a metric (sign off, change,
  undo or move, sign off again) and three on joins, over two areas and two
  tables, so that a join can be within an area or across.
- `refresh`: five schema changes, decisions and refreshes over two tables and
  the three links of two column pairs, with seven catalogs: split, simple,
  distinct, keyed, retyped, composite, and a parent gone. Five allow a decision,
  a change, a crashed refresh, and a whole one; or a composite key read, its join
  signed, edited or rejected, a column retyped, and a refresh that must leave that
  join as it is. And three applies or writes of
  other tools over three tables in two areas, with four sheets that move a table,
  merge the areas, drop an area and a table, or are wrong: two writes can fall under
  one apply, or precede it.
- `scripts`: one chunk of two rows, the first with every outcome and one
  rewording, the second plain; one stop anywhere. Three writes and runs over two
  datasets: a whole run, one that should not count, and a rerun, or two edits of
  a case and a write that is put back; every outcome of a case.
- `readings`: statements of up to two joins over three tables and one grouping
  CTE; the declared edges are one of each link of a chain whose tables have no
  keys, or one or two of its first link, on a simple and on a composite key,
  between tables with keys. Two documents with up to three of their items gone.
  Golden keys of up to two rows over a number and a text or two numbers that
  round alike, generated results of two or three columns, and the permutations
  of three rows (up to the order of the key's first column). Schema
  calls of up to two names and two joins over two areas, one name in two schemas
  or no schemas at all. `trap_chasms` has five tables and four joins.

`CHECK_DEADLOCK FALSE` is said for `process`, `edge`, `serving`, `store_poisoned`,
`curation`, `refresh`, `scripts`, `readings`, `golden_imports` and `trap_chasms` alone, whose bounded deploys,
losses, boots, operations or inputs run out.

### Fairness

- `process`, the calls: weak fairness of an admitted caller's own steps, whose join has a
  timeout. Nothing is assumed of executors and cancels, except in the premise of
  `SaturationEnds` (`WorkReturns`).
- `serving`: weak fairness of a started call: queries return, and the lock, held
  only while loading, is handed on.
- `process`, the store: weak fairness of a started step, since driver calls return; a wait for
  the advisory lock is not a call that must return, and gets strong fairness of
  being granted a free lock, which Postgres' queue gives.

The other modules check safety only: a person or a client may stop for good.

## Findings

Four runs show where the code does not do what its own comments, docstrings or
tests say. Each checks one property that states the quoted line.

| run | property | what happens |
|---|---|---|
| `store_poisoned` | `RolledBackMayReconnect` | rollback on a dead connection raises before it clears the mark, and the Store never reconnects again |
| `reconcile_words` | `RenderedPagePasses` | a page rendered with the session's sentences carries a digest `check-run` does not compute, and never passes |
| `trap_chasms` | `EveryChasmIsTold` | of two dimensions that measures share only the first is told, and a measure that meets the others at the second is reported as not multiplied |
| `golden_imports` | `ImportConfirmsNothing` | a sheet's row that carries a statement is imported confirmed and gates a run (`golden_author.py:808`), against the heading of the file ("an imported row is unverified by construction", `:15`), `_save` ("the only door that can produce an item able to gate a run", `:1006`; "an import writes no statement", `:1057`) and the help text (`:1308`) |

More departures were met while modelling. They are behaviours of the models,
which the properties are worded to allow, and have no run of their own:

| where | what happens |
|---|---|
| `execute_sql.py:2458` | `_engine_mismatch` reads the guard model a second time and lets the statement by when that finds none, though its docstring says "a missing declaration is already refused upstream" (`:2444`): a served statement vetted in the model's grammar, whose store was lost in between, runs in another engine's; `NothingRunsUnvetted` speaks of the calls whose model was `held` |
| `execute_sql.py` `_execute_bounded` | the cap is tested at entry and counted at expiry, so callers admitted together pass it; `OverrunBound` is what holds |
| `oauth_server.py:393` | a code issued before a reset opens a session on the old credential after it |
| `oauth_server.py:600` | in rotate mode a renewal in flight during a reset inserts a row the revocation does not see |
| `user_store.py:324` | a login's unguarded rehash of the old password lands after a reset and undoes it |
| `mcp_http.py:590` | a cancelled call whose statement ran leaves no tool row |
| `tools.py:5268` | a call in the second of an unstamped row may read either first, and then starts a conversation of its own |
| `semantic_model/runtime.py:2876` | a CTE that hands a table's rows back is cleared of that table's keys |
| `semantic_model/introspect.py:497` | a rejected join on one column (not an `on` join) is unreviewed, so served again, after that column is retyped; `Keeps` leaves it that and no more, against `src/tests/test_rejected_joins_not_served.py:1` |
| `semantic_model/introspect.py:1596` | the grain probe relabels joins of tables without a key one_to_one with no review |
| `semantic_model/loader.py:563` | a join across areas may be kept twice, against `agami-connect/SKILL.md:884` |
| `semantic_model/comparator.py:794` | "loosening left to right" does not hold: an answer with permuted columns passes `exact` and fails `shape`; an unnamed answer of three permuted rows passes `exact` and fails `values` |
| `tools.py:1810`, `:2945` | an edge between two requested tables of different areas is sent lean, against the docstring of `semantic_model/loader.py:994` |
| `tools.py:2507` | an ambiguity anchored to nothing but a group its area does not show is neither sent nor signposted, though other groups may show all its columns |
| `semantic_model/loader.py:453` | an area that shows another area's table is not narrowed to the groups it names |
| `semantic_model/loader.py:217` | a copy excluded whole leaves no record of its columns: where another area's copy of the table does not list one, what names it stays served, though no copy serves it |
| `semantic_model/loader.py` | of a table two areas define, filters, mappings and grain may name a column lost in one copy only |
| `semantic_model/curate.py` | a metric may be renamed to a name another has, and their histories mix; a renamed metric keeps its file, which a later `sm add` overwrites |
| `semantic_model/model_spec.py:634` | the copy aside is in a temporary directory whose name is nowhere kept: a process killed in its writes loses the areas, and what was written by then may load and be served |
| `semantic_model/model_spec.py:541` | a kept metric over a table the sheet drops stays served; the validator warns |
| `plugins/agami/scripts/reconcile.py:3093` | `rows.jsonl` is rewritten in place: a crash there loses finished rows |
| `plugins/agami/scripts/reconcile.py` | a stale `comparison.json` is preferred over `diff.json` when a table's row is reworded to a number; with an emptied checkpoint `check-run` accepts any page |
| `plugins/agami/scripts/golden_author.py:742` | a dataset is written in place; a write cut between two cases, or emptied, reads as a dataset without the rest and no fault |
| `plugins/agami/scripts/golden_author.py:1111` | editing a confirmed case's question keeps its confirmation, against "confirmation is earned by running the item and accepting the result, never by editing a page" (`:1101`) |
| `plugins/agami/scripts/run_golden_eval.py:1140` | a run some of whose confirmed cases erred exits 0, though `semantic_model/golden_run.py:279` has a verdict read `errored`; a whole run of an emptied dataset exits 0 and its record empties the next rerun |

## Proofs

### Statements: BoundedExec, TrapReport, Comparator

`StatementProofs` proves, for any finite set of calls, any set of watched ones
among them, any cap and any number of host threads (`CallsAssumption`,
`BoundsAssumption`):

- `TypeCorrect`: `Spec => []TypeOK`
- `SlotsAccounted`: `Spec => []SlotAccounting`
- `Overrun`: `Spec => []OverrunBound`
- `Truthful`: `Spec => []AnswersAreTrue`
- `CancelsInTime`: `Spec => []NoLateCancel`

None of the invariants is inductive alone: that the count is right depends on
where a caller and its worker can be together, and that an answer is true on
where worker and timer can be. `CallInv(c)` states those joint positions of the
three threads of one call (a call given up is answered; an unstarted worker has
no timer; a fired watchdog and a result do not meet past the disarm; ...).
`IInv` is `TypeOK`, `CallInv` of every call, `SlotAccounting` and `OverrunBound`.

The argument: `InitInv` starts it. `CallsStep` preserves `CallInv` step by step;
it mentions one call at a time. `SlotStep` compares the set of abandoned calls
before and after: only `CallerSettles` and `WorkerSettles` change it, by one
element, and they change the counter alike (`DropOne` and `GainOne` are the facts
on cardinalities). `TypeStep` needs `SlotAccounting` for one thing only, that the
counter is positive when it is lowered. `BoundStep` uses that `Enter` tests both
the cap and the free threads while every other step moves a call out of flight or from
flight to abandoned. `Inductive` puts the steps together, and the five
theorems follow from it.

For any tables, columns, models that declare edges between them (`ModelsAssumption`), ways
to bind a name (`KindsAssumption`), SELECT lists and numbers of joins:

- `NearFansAreTold`: `TrapSpec => []NearFanIsTold`

The report is a chain of definitions over the statement's joins, so the invariant `TrapInv`
says only what kind of graph these are: each join brings in a new name, hence no two connect the
same names and no three form a triangle. From a join that can repeat a table's rows
`DeclaredJoin` finds the declaration that says so, `DerivedJoin` the edge the code derives for
a grouping CTE, `Written` shows that it counts as an edge of the statement or as a partial key, and
`ToldByFan` that the fan is then reported (`NearIsTold`). `MeasuresAreTold` is the same
for two measures: without a triangle they are not joined to each other, and the
dimension between them is shared. It needs that dimension to be the one the code looks at,
which fails with two of them: that is how `trap_chasms` was found. `NearFanIsTold` now says
"at most one shared dimension" where its run, of three tables, could not meet two.

Of `Comparator`, for keys and results of any names, cells and size, ragged ones
included, and any bands (`ResultsAssumption`):

- `PassesAreOfTheKeysAnswer`: `ScoreSpec => []PassIsTheKeysAnswer`

with, of any two results, `PassIsOfTheKeysRows` (a pass is of the key's rows under
some placing of the columns) and `TheKeysRowsPass` (the key's rows pass, if their placing can be
found by value). The one hypothesis on cells is `CellsAssumption`: a bucket holds numbers
only, or one cell. That is what `_canonical_number` does, which rounds a number and leaves the rest
alone. The overlaps and counts are folds over sets, so `FoldExists` first builds, by induction,
the functions these `CHOOSE`. Then: two lists share all their elements iff one is a
rearrangement of the other (`OverlapIsWhole`); a pass over the columns pairs them one to one
(`TakeInOrderRuns`) and, when a placing exists, never runs out of a column to pair
(`FreeLeft`), whichever of equal columns it takes; so stage two has nothing left, and the
rows compared under the pairing are the rows under the placing. `ShapeIsKept` and
`BandIsKept` are the looser levels.

### StoreConn

`StoreConnProofs` proves, for any set of instances and any number of migration
files, units of work, losses and boots (`StoreAssumption`):

- `TypeCorrect`: `Spec => []TypeOK`
- `UnitsLandWhole`: `Spec => []UnitIsWhole`
- `MigrationsRunOnce`: `Spec => []AppliedMeansRun`
- `PlanStaysCurrent`: `Spec => []PlanIsCurrent`
- `OpenWorkIsGuarded`: `Spec => []UncommittedIsGuarded`

That a commit lands whole units depends on what the transaction holds when the
commit is sent, and that on every reconnect which might have emptied it before.
`Sent(s)` says what a live connection has open, told by where its caller is; a
dead one has nothing (`OpenIsSent`). `UnitMarked` and `MigrationHeld` say which
flag guards the positions where something is open, so `_reconnected` refuses
there, and the transaction of a later statement is the one the earlier ones are
in. `MigrationLocked` says a live run of migrations holds the lock: nobody
else can record a file (`PlanCurrent`), and the file it is about to record is one
that is not recorded (`FileKnown`). `IInv` is these for every instance, with
`TypeOK`, `UnitIsWhole` and `AppliedMeansRun`.

The argument: a step concerns one instance. `Others` says the rest keep their
part, so long as nobody takes the lock of one or records a file under it;
`Quiet` that a caller past its transaction has nothing to keep; `GoesOn` and
`UnitGoesOn` what one in the middle has. `LandedFacts` is the commit itself: the
pieces of one unit, of one file, or none. `CommitSteps` covers a commit
that landed but was reported lost.

`PlanIsCurrent` and `UncommittedIsGuarded` are proved and in no run.

### CallLogs: GuardedCall, ToolCallRow, Conversations

For any set of calls, any of the faults the module names in each, and whatever
the process was started as:

- `OnlyVettedRuns`: `Spec => []NothingRunsUnvetted`, whose clause about engines is
  of the calls that `held` a model from the model pass to the comparison
- `AnswersAreRecorded`: `Spec => []NoAnswerUnrecorded`, and `TypeCorrect`

A step changes the record of one call, so the invariant is `CallInv(k)` of one
record, and `Here` and `Kept` are the frame. `PastGates` says what a call at a
position has passed; `RanIsVetted` what a statement that was sent had behind it;
`RaisedIsLoss` and `RowOrRaise` what the row was when the answer left. The store
and the files move under a waiting call (`Noticed`): one still said to hold a
model can read one now, which is what `EngineGate` needs. One
conjunct was missing at first: a call counts as gated only from the model pass on
(`PassIsPosture`). Without it the invariant allows a call that skipped that pass to
claim it.

For any rules, kinds and datasources (none of them called `none`), callers, number of calls,
pause, and skew of the clocks (`LogsAssumption`):

- `RowsTellTheirCalls`: `CallsSpec => []RowTellsTheCall`
- `ConversationsAreWhole`: `CallsSpec => []ConversationsHold`

The row is a case analysis of who spoke and whether the handler raised
(`RowIsTheCalls`, `StatementsContradictNothing`). Conversations need two invariants. Whatever
overlaps: a conversation is named after the call that began it, whose row
is in before any other joins (`RowOk`), and a call about to be written is near a row of
its conversation that stays (`Continues`), so a conversation is one person's and
without a pause. Of a caller in order (`InOrder`): one call at a time, after all
rows there are (`Latest`), which joins the newest or begins after a pause
(`PlacedRight`). `OneMoreInOrder` is the step of it that matters: the new row keeps
rows without a pause in one conversation (`Together`). That the lookup finds a
newest row whenever there is one is `HasNewest`, from a well-founded order.

### Accounts: UserAccount, OAuthTokens

`AccountsProofs` proves of `UserAccount`, for any number of claim posts, logins, provider logins and migrations:

- `ResetsAreSingleUse`: `Spec => []OneResetPerCredential`
- `ClaimsAreSingle`: `Spec => []ClaimedOnce`, and `TypeCorrect`

Two facts carry them. `HashesMade` and `ReplacedGone`: a stored hash is made by
one handler, once, so a replaced one never comes back, and the compare-and-set
on it fails for ever. `ClaimEndsPending`: an account no longer pending never is
again; with `OidcOfProvider` it fixes who may be let in. The first needs two handlers to
make different hashes, which the salt gives the code, so `AccountNamesAssumption` says that posts
and logins are told apart.

Of `OAuthTokens`, for any sets of requests and codes, either storage mode or both while a change of
it rolls out, and any number of resets:

- `GrantsAreSingle`: `Spec => []SpentOnce`
- `SessionsAreSingle`: `Spec => []OneLiveRow`
- `ResetEndsSessions`: `Spec => []ResetEndsOneRowSession`, and `TypeCorrect`
- `LineagesHold`: `Spec => LineageSpec`, the refinement of `RefreshLineage`

`OneLiveRow` compares rows, but its reason is in the requests in flight: between
its conditional update and its commit a request holds a code or a row.
`RowKnown` says what it then knows, `HeldAlone` that nobody else holds the same,
`LiveApart` that live rows share no token and no family. The two storage modes are
one argument: a renewal in place moves the token of a live row, a renewal with a
successor the family. `CommitRenewal` is `RenewalStep`, the longest proof here.

The refinement maps a family to the token it can be renewed with, `Usable`: the
one its live row carries, 0 once it is closed. `Opens` and `Renews` show that the
commits of an exchange and of a renewal are the abstract steps, `Closes` that
whatever ends rows closes their families, `Quiet` that the rest stutters.
`UsableOfLive` is what makes the choice in `Usable` a function: a family has one
live row. Since 0 marks a closed lineage, no request may be named 0.

### ModelServing, ServedModel, SchemaReply

Of `ModelServing`, for any number of trees, deploys and calls, under `InOrder`: no older tree is
deployed over a newer one, and one deployer writes at a time.

- `LabelsAreNotNewer`: `Spec => []NewAsLabelled`
- `StaleTextTells`: `Spec => []StaleTextIsDetectable`
- `CacheIsLive`: `Spec => []SettledCacheIsLive`, and `TypeCorrect`

The argument is one order, kept by the writers and respected by the readers:
version <= examples <= model <= newest tree. What a call or the cache holds lies between the
version it was read under and the model row of now (`Held`); once a
deploy is complete the two ends meet (`EndsMeet`). `InOrder` is a
hypothesis and not an assumption of the model: with two deploys interleaved the
order is lost, and nothing in the code prevents that (see the hazards). The
run `serving` has one deployer and no rollback for the same reason.

Of `ServedModel`, for documents of any areas, tables, columns, groups, joins, entities, metrics
and ambiguities (`DocumentsAssumption`), and whatever of one is rejected or missing:

- `LoadsServeWhatStands`: `ServedSpec => []LoadServesWhatStands`

`ServedIs` says what the steps of a load leave, one lemma for the areas (`AreasLoaded`) and one
for the uses of what is hidden (`UsesDropped`). Against the reference: the code's hidden is
the reference's unserved (`HiddenIsUnserved`), and taking out metrics without their bases
round after round leaves the largest set that has its bases (`LeftIsLargest`, by induction
on the rounds). Then the rules, one after another: `ViewsStayValid`, `AnchorsStayValid`,
`CopiesStayValid`, and `ClosedExpands`, that a set closed under bases expands as far as before.

`EvenlyListed` is a hypothesis the proof asked for: the copies of a table list alike
what is named of it. Without it an excluded copy takes with it columns that nobody hides,
and the code serves what names them (see Findings, `loader.py:217`).

Of `SchemaReply`, for the models `AsLoaded` describes (every table has a schema or none has, a
join of an area is between its tables, the groups an area shows are groups of the table and
none is empty), and calls of any names, areas, groups, metrics and modes:

- `RepliesAreWhole`: `AskSpec => []ReplyIsWhole`

The joins: every entry sent tells an edge of the model for each of its keys, and every edge of
a table found has an entry (`EntriesTell`). An entry that is not kept whole leaves from the
only table of the reply with its name (`OnlyTableSoCalled`, from what `StaysWhole` rules out),
so the slot it is written in gives back both its ends, schema included (`SlotReadsBack`); what is read
there is the edge, or the edge turned round (`OthersRead`), and a join turned twice is itself
(`TurnedTwice`). The rest is one lemma per filter: `TablesAreTold`, `ColumnsAreTold`, `GroupsAreTold`,
`MetricsAreTold`, and for the ambiguities `OpenWhenAbout` and `ReachedWhenNamed`.

The proof asked for one more condition in the reference (`GroupsShown`): an ambiguity tied
to nothing but a group its area does not show is not told of, even where the reply shows all
the columns of the group through others (see Findings, `tools.py:2507`).

### ModelFiles: ModelSpec, Refresh

For any areas, tables, joins and metrics, and any sheets and starting files that
`InputsAreWhole` describes (a file set has its six parts, a sheet names known areas):

- `AppliesAreWhole`: `FilesSpec => []SpecIsWhole`

`SpecIsWhole` speaks of the model at rest; the invariant is about the files
between two writes. `Progress` gives, for each phase, the parts already written and the parts
still to come; `SavedAside` the backup; `Checked` what the checks before
the first write made sure of. A write by another tool under the apply ends what
can be said (`raced`), until the end of the apply. `WholeTables`, `WholeJoins` and
`WholeMetrics` show that a model built of a sheet serves exactly what it says.

For any tables, columns, links, types and states of the database that `CatalogsAreOne`
describes, any options with any failed reads, and any decisions:

- `RefreshServesTheDatabase`: `FilesSpec => []ServesTheDatabase`
- `DecisionsOutliveARefresh`: `FilesSpec => DecisionsStand`

`CatalogsAreOne` says that names belong together: a column has a table, a link is a set of
pairs of columns and joins two tables, a link that holds another is in the same area or
between the same two, and a refresh of the whole catalog takes every table.

`RefreshInv` follows one refresh. `Reading` ties what it read to the database, until the
schema changes under it. `Merging` says what the merge made: each table and column by its
rule, the decided joins kept, or, on one retyped column, there for review
(`DecisionsAreMerged`), the engine's joins labelled by the merged keys
(`LabelsAreTheKeys`). `Undecided` gives the files after each write: those
that were loaded, with the parts of the merged model written so far, until a
decision falls under the refresh. `MergedIsServed` and `JoinsMerge` are the two halves of the
argument about the merge; the first splits on what a table and a column were and what the
database says of them. `KeepsStep` compares the files before and after each write.

Three facts are easy to miss, and the invariant fails without them. The last write leaves
an area's file alone when the merged model has no join for any area, so old joins would stay: but
whatever replaces an area's join is itself in an area (`AreasStay`, from the link it
replaces lying within its own). And the joins in the file `sm add` writes are never
rewritten, so none may be one the engine vouches for; a rejected join is not the
engine's any more, or a composite one would be taken back to review (both `JoinIsSound`).

### Curation

For any areas, tables, names, conditions and starting models (`ModelsAssumption`:
lists are finite, what a model starts with is signed off as it stands), and
batches of any length:

- `ApprovedAsSigned`: `Spec => []ApprovedIsAsSigned`
- `UndoneLeavesNothing`: `Spec => UndoneIsUntouched`
- `MovesKeepDecisions`: `Spec => MoveKeepsDecisions`

`IInv` holds of the files now and of those the batch began with
(`AreHeld`: every item sound, every list finite, every table in an area, every area listed
known), and ties them: what the backups hold is what was there, what they do not
hold is as it was (`SavedAside`). `WriteHolds` proves it of any operation that
writes sound items; each operation is then one lemma.

A move lands the joins of a place one after another (`LandAll`, a fold over a set).
What it keeps for every finite set of joins is `LandAllKeeps`: no decision is
lost, or the move is refused. It is proved by induction, which the library
states with an operator as a parameter and the provers cannot use in that form; `SetInduction`
and `FiniteInduction` state it of a set of numbers or of subsets, from the least element of a
well-founded order. `LandedExists` builds the function `CHOOSE`n by the fold, and
`LandAllIs` shows the fold is that function.

Attempting these proofs changed the models in places. Where a CASE had two arms true at
once (`SignOffRank`, `ScoreShape`, `MetricsInFull`, `JoinSiteStatus`) TLC took the
first and the semantics any; the arms now exclude each other. What a proof
needed of the constants became an assumption TLC evaluates.

### Scripts: Reconcile, GoldenSuite

For any set of rows and size of a chunk (`RowsAssumption`), any outcomes of the parts of a check
among those the code can give (`OutcomesAssumption`), numbers and tables alike
(`TablesAssumption`), and any number of rewordings and stops:

- `MatchesAreMeasured`: `Spec => []MatchIsMeasured`
- `PageAndParserAgree`: `Spec => []OffersAgree`

`MatchIsMeasured` speaks of the records; why it holds is in the files of a row between two steps of
the session. `ReconcileInv` says for each phase which files are there and which version they
are of (`RowHolds`: once a check has ended, its files are of the wording it
was given; once graded, the ledger is the one these files make), what a record says
(`RecordHolds`), and that a record is of the wording taken up last, whose ledger then
stands as it was recorded, or of an earlier one (`RecordStands`). The last is what
`OffersAgree` needs: the page reads the record and the parser the ledger.
`RecordIsMeasured` is the step of it: a ledger whose worst grade is a confirmation
has every part, and each of the check it was made in (`PartsAreOfTheCheck`). The digest on the page
is modelled as injective, so that a page `check_run` accepts has the items of now.

For any datasets and files, sheets, accepted answers, queues of a page and hand
edits (`FilesAssumption`, `DoorsAssumption`: sequences of cases, as the reader would meet them), any
worlds (`WorldsAssumption`) and any number of writes and runs:

- `KeysStayAccepted`: `GoldenSpec => []KeysAreAccepted`
- `VerdictsAreEarned`: `GoldenSpec => []VerdictIsEarned`
- `OthersStay`: `GoldenSpec => OthersAreKept`
- `RerunsAreOfWhatFailed`: `GoldenSpec => RerunIsOfWhatFailed`

`GoldenInv` adds to the two invariants that the run under way has scored what it has asked, case by
case (`RunHolds`), and that what people were told last is what the newest record that can be
trusted has (`ToldHolds`). `MergedIs`, `MergedKeeps` and `MergedHas` say what a merge does to
a file of any length, `EditIs` what a queue of any length does to a case, `LoadIs` what the
reader keeps; each door is then a case of `WriteStep`. `WriteDiesStep` is the write that is cut:
what is left is a beginning of what was written. `FinishEarns` is the fold of the
outcomes into an exit code, `FinishStep` what the new record does to the newest trusted one.

Both modules pick subsequences (`Within`) and fold over sequences. What those give for every
sequence needs induction, which the library states with an operator as a parameter.
`SetInduction` states it of a set of numbers, from the well-foundedness of < on `Nat`, and
`SequenceInduction` of a set of sequences that has the empty one and is closed under `Append`.
`FoldExists` builds, once for every base and step, the function that the fold of the community
modules `CHOOSE`s; `WithinAppend`, `WithinConcat`, `WithinTwice` and `WithinAlike` are what follows for
subsequences. To be reasoned about, the models say `Within` where they had `SelectSeq`, whose
definition is a recursion inside a LET, and take a fold where they had a recursive operator.

### What is only model-checked

- All liveness: fairness and `ENABLED` are beyond the prover.
- Of `Curation`, `StaleIsTold`: its walk over the log is a fold
  inside a fold, and what it is to say after a move depends on the history of
  every other item of the place.
- Of `ModelServing`, what holds with several deployers.

## Not modelled, and why

- What a gate, the guard or the runtime decides about a SQL text, except for fan
  and chasm: pure functions over syntax trees; the models take the verdict.
- Overlapping deploys of different trees, and putting an older version back, are
  behaviours of `ModelServing` (`Deployers`, `Rollback`), but outside its
  run: some of the properties do not hold there, as `PROJECT.json` says under hazards.
- SQLite as the store: no reconnect and no lock, and a script that commits by
  itself; `StoreConn` is Postgres.
- `TrapReport`: semi and anti joins, USING and NATURAL, a table read twice, fans
  two hops away (the code reports the near one only).
- `Curation`: two `sm` processes at once (nothing locks), columns, examples,
  terminology, column groups, a file that cannot be put back (`curate.py:2429` goes on); entities go the way of metrics.
- `Refresh`: several schemas, proposed areas and metrics, samples, choice lists,
  placeholders, candidates, SQL tables; joins probed by values where no foreign key is
  read (`introspect.py:1753`), keys that cross schemas or come without a constraint name
  (`:1714`), all three left unreviewed, as the guessed references are. A decision saved between load and write
  is overwritten (`raced`), a crash between tables and relationships
  loses a withdrawal; the properties say what holds besides.
- `Reconcile`: intake, claims, findings, question-only and number-only rows, the
  grading inside one part. A stop in the middle of `rows.jsonl` hands out rows again.
- `GoldenSuite`: the sheet reader, the conventions check, the generator's context,
  cold questions. Its statement diff (`golden_claims.py`) is an input of a case.
- `SchemaReply`: references to other areas' tables, qualifiers of areas, ranking by
  a query, the JSON budget (the rung a reply ends on is an input), suggestions.
- `Comparator`: how a driver's value becomes a cell.
- `ModelSpec`: names that two schemas share, grains, descriptions, sensitive
  columns; a snapshot that cannot be written; a kill in the middle of a restore.
- Start-up, configuration, rendering, packaging.

## Plan

Done, in the order of what the program is trusted for: that a statement is
bounded, vetted and recorded (`BoundedExec`, `GuardedCall`), by the right model
(`ModelServing`), for the right person (`OAuthTokens`, `UserAccount`), into a
store that keeps it (`StoreConn`); then that the model is what people decided
(`Curation`, `Refresh`, `ModelSpec`), and what is read from it (`TrapReport`, `ServedModel`,
`SchemaReply`) and how it is judged (`Comparator`, `Reconcile`, `GoldenSuite`).

Proved: every safety invariant and action property the runs check, but for those listed under
"What is only model-checked".

Next, modelling:

1. Accounts with tokens: a composition of `UserAccount` and `OAuthTokens`, where
   a reset's write and its revocation are the one transaction the code makes.
2. `ModelServing` with two deployers of one tree and two processes.
3. The precedence of the lexical gates.

## Running

    tlc -config MCProcess.cfg MCProcess        # any run of PROJECT.json
    tlapm StatementProofs.tla                  # the proofs of one module
