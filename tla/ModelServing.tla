---------------------------- MODULE ModelServing ----------------------------
(***************************************************************************)
(* How a semantic model reaches an answer.  model_deploy writes a          *)
(* datasource's rows with four separately committed writers; one server    *)
(* process reads them back query by query, keeps the result in a cache     *)
(* keyed by the version row, labels its replies with that version and      *)
(* refuses a statement that carries another one.                           *)
(*                                                                         *)
(* A tree (the YAML being deployed) is a number, in the order of           *)
(* authoring; its hash, which is its version, is that number too.  A       *)
(* loaded model is a pair: the tree its first query saw (datasource_model  *)
(* and subject_area) and the tree the later ones saw (tables, metrics,     *)
(* entities, relationships); READ COMMITTED gives each query a snapshot of *)
(* its own, so the two may differ.                                         *)
(***************************************************************************)
EXTENDS Naturals, FiniteSets

CONSTANTS
    NTrees,     \* trees ever authored
    WithDoc,    \* the trees that hold a datasource.md
    Speaks,     \* the trees that declare the engine the credentials name
    Rollback,   \* whether an older tree may be deployed over a newer one
    Deployers,  \* runs of model_deploy that may be under way together
    MaxDeploys, \* bound: deploys started
    Requests,   \* tool calls served by one process
    NoOne

ASSUME ServingAssumption ==
    /\ NTrees \in Nat /\ MaxDeploys \in Nat
    /\ WithDoc \subseteq 1 .. NTrees /\ Speaks \subseteq 1 .. NTrees
    /\ Rollback \in BOOLEAN
    /\ NoOne \notin Requests

VARIABLES
    inProcess, \* the process has an injected executor; otherwise it forks a child
    rows,    \* committed rows of one datasource: model, examples, memory, version
    dep,     \* deploy runs: the tree being written and the writers still to run
    deploys, \* deploys started, newest tree started
    cache,   \* _ORG_CACHE of the process, for this organization and datasource
    lock,    \* _ORG_CACHE_LOCK
    req      \* tool calls

vars == <<inProcess, rows, dep, deploys, cache, lock, req>>

Trees == 1 .. NTrees
None == 0                     \* no such row
Rows == None .. NTrees
NoModel == [head |-> None, body |-> None]
Models == [head : Rows, body : Rows]
Whole(t) == [head |-> t, body |-> t]

Kinds == {"schema", "examples", "execute"}
Idle == [pc |-> "idle", kind |-> "schema", ver |-> None, head |-> None,
         guard |-> NoModel, ran |-> FALSE, got |-> NoModel]

Init ==
    /\ inProcess \in BOOLEAN
    /\ rows = [model |-> None, examples |-> None, memory |-> None, version |-> None]
    /\ dep = [d \in Deployers |-> [pc |-> "idle", tree |-> None]]
    /\ deploys = [started |-> 0, newest |-> None]
    /\ cache = [v \in Trees |-> NoModel]
    /\ lock = NoOne
    /\ req = [r \in Requests |-> Idle]

-----------------------------------------------------------------------------
(* deploy_one: everything is read and parsed first, then four writers,     *)
(* each clear-then-insert in a transaction of its own, the version last.   *)

ReadTree(d) ==
    /\ dep[d].pc = "idle"
    /\ deploys.started < MaxDeploys
    /\ \E t \in Trees :
        /\ Rollback \/ t >= deploys.newest
        /\ dep' = [dep EXCEPT ![d] = [pc |-> "write_datasource", tree |-> t]]
        /\ deploys' = [started |-> deploys.started + 1,
                       newest |-> IF t > deploys.newest THEN t ELSE deploys.newest]
    /\ UNCHANGED <<inProcess, rows, cache, lock, req>>

Commit(d, at, next, written) ==
    /\ dep[d].pc = at
    /\ dep' = [dep EXCEPT ![d].pc = next]
    /\ rows' = written
    /\ UNCHANGED <<inProcess, deploys, cache, lock, req>>

WriteDatasource(d) ==
    Commit(d, "write_datasource", "write_examples", [rows EXCEPT !.model = dep[d].tree])

WriteExamples(d) ==
    Commit(d, "write_examples", "write_memory", [rows EXCEPT !.examples = dep[d].tree])

\* Replaces the row only when the tree holds a datasource.md.
WriteMemory(d) ==
    Commit(d, "write_memory", "write_model_version",
           IF dep[d].tree \in WithDoc THEN [rows EXCEPT !.memory = dep[d].tree] ELSE rows)

WriteModelVersion(d) ==
    Commit(d, "write_model_version", "idle", [rows EXCEPT !.version = dep[d].tree])

\* A database error, a kill, or a duplicate key against another deploy.
DeployDies(d) ==
    /\ dep[d].pc # "idle"
    /\ dep' = [dep EXCEPT ![d].pc = "idle"]
    /\ UNCHANGED <<inProcess, rows, deploys, cache, lock, req>>

-----------------------------------------------------------------------------
(* Tool calls.  begin_request_cache: the version is read once per call.    *)

Step(r, from, to) ==
    /\ req[r].pc = from
    /\ req' = [req EXCEPT ![r].pc = to]

\* get_datasource_schema and get_prompt_examples: the version first.
ReadVersion(r) ==
    /\ req[r].pc = "idle"
    /\ \/ req' = [req EXCEPT ![r] = [Idle EXCEPT !.kind = "schema", !.pc = "lookup",
                                                 !.ver = rows.version]]
       \/ req' = [req EXCEPT ![r] = [Idle EXCEPT !.kind = "examples", !.pc = "select",
                                                 !.ver = rows.version]]
    /\ UNCHANGED <<inProcess, rows, dep, deploys, cache, lock>>

\* execute_sql: _stale_model_refusal, equality with the live version, and no
\* check when no version is recorded.
ReadVersionToExecute(r) ==
    /\ req[r].pc = "idle"
    /\ \E sent \in Rows :
        req' = [req EXCEPT ![r] = [Idle EXCEPT
                  !.kind = "execute", !.ver = rows.version,
                  !.pc = IF rows.version \in {None, sent} THEN "guard_head" ELSE "done"]]
    /\ UNCHANGED <<inProcess, rows, dep, deploys, cache, lock>>

SelectExamples(r) ==
    /\ req[r].pc = "select"
    /\ req' = [req EXCEPT ![r].pc = "done", ![r].got = Whole(rows.examples)]
    /\ UNCHANGED <<inProcess, rows, dep, deploys, cache, lock>>

\* _resolve_guard_model: never the cache.  No row and no disk model refuses.
GuardHead(r) ==
    /\ req[r].pc = "guard_head"
    /\ req' = [req EXCEPT ![r].head = rows.model,
                          ![r].pc = IF rows.model = None THEN "describe" ELSE "guard_body"]
    /\ UNCHANGED <<inProcess, rows, dep, deploys, cache, lock>>

\* Mutant of GuardBody: the gates run over the model the cache holds.
GuardBodyCached(r) ==
    /\ req[r].pc = "guard_body"
    /\ \E next \in {"engine", "describe"}, m \in {[head |-> req[r].head, body |-> rows.model]}
                                              \cup {cache[v] : v \in Trees} :
        req' = [req EXCEPT ![r].guard = m, ![r].pc = next]
    /\ UNCHANGED <<inProcess, rows, dep, deploys, cache, lock>>

\* The rest of the model, then every gate of _model_safety over it.
GuardBody(r) ==
    /\ req[r].pc = "guard_body"
    /\ \E next \in {"engine", "describe"} :
        req' = [req EXCEPT ![r].guard = [head |-> req[r].head, body |-> rows.model],
                           ![r].pc = next]
    /\ UNCHANGED <<inProcess, rows, dep, deploys, cache, lock>>

\* _engine_mismatch loads the model again: the engine it compares with the
\* credentials is that of the rows as they are now.
EngineMatches(r) ==
    /\ Step(r, "engine", IF rows.model \in Speaks THEN "execute" ELSE "describe")
    /\ UNCHANGED <<inProcess, rows, dep, deploys, cache, lock>>

Execute(r) ==
    /\ req[r].pc = "execute"
    /\ req' = [req EXCEPT ![r].pc = "describe", ![r].ran = TRUE]
    /\ UNCHANGED <<inProcess, rows, dep, deploys, cache, lock>>

\* The receipt, of an answer or of a refusal: in process over the model the
\* guard used; after a fork the parent looks the model up for itself.
Describe(r) ==
    /\ IF inProcess
       THEN /\ req[r].pc = "describe"
            /\ req' = [req EXCEPT ![r].pc = "done", ![r].got = req[r].guard]
       ELSE Step(r, "describe", "lookup")
    /\ UNCHANGED <<inProcess, rows, dep, deploys, cache, lock>>

-----------------------------------------------------------------------------
(* get_cached_org                                                          *)

\* Nothing is kept without a version to notice a change by; the load needs
\* no lock.
LookUpUnversioned(r) ==
    /\ req[r].ver = None
    /\ Step(r, "lookup", "load_head")
    /\ UNCHANGED <<inProcess, rows, dep, deploys, cache, lock>>

\* Mutant of Hit: the cache is keyed by the datasource alone.
HitAnyVersion(r) ==
    /\ req[r].pc = "lookup"
    /\ \E v \in Trees :
        /\ cache[v] # NoModel
        /\ req' = [req EXCEPT ![r].pc = "done", ![r].got = cache[v]]
    /\ UNCHANGED <<inProcess, rows, dep, deploys, cache, lock>>

\* The lock-free fast path, and the second look under the lock.
Hit(r) ==
    /\ req[r].pc = "lookup"
    /\ req[r].ver # None
    /\ cache[req[r].ver] # NoModel
    /\ req' = [req EXCEPT ![r].pc = "done", ![r].got = cache[req[r].ver]]
    /\ UNCHANGED <<inProcess, rows, dep, deploys, cache, lock>>

Miss(r) ==
    /\ req[r].ver # None
    /\ cache[req[r].ver] = NoModel
    /\ lock = NoOne
    /\ lock' = r
    /\ Step(r, "lookup", "load_head")
    /\ UNCHANGED <<inProcess, rows, dep, deploys, cache>>

Unlocked(r) == IF lock = r THEN NoOne ELSE lock

\* FileNotFoundError when there is no datasource_model row.
LoadHead(r) ==
    /\ req[r].pc = "load_head"
    /\ IF rows.model = None
       THEN /\ req' = [req EXCEPT ![r].pc = "done"]
            /\ lock' = Unlocked(r)
       ELSE /\ req' = [req EXCEPT ![r].head = rows.model, ![r].pc = "load_body"]
            /\ UNCHANGED lock
    /\ UNCHANGED <<inProcess, rows, dep, deploys, cache>>

\* Every other version's entry goes before this one is put in.
Remembered(v, m) == [w \in Trees |-> IF w = v THEN m ELSE NoModel]

\* Mutant of LoadBody: acquire without its release.
LoadBodyKeepsLock(r) ==
    /\ req[r].pc = "load_body"
    /\ LET m == [head |-> req[r].head, body |-> rows.model] IN
        /\ req' = [req EXCEPT ![r].pc = "done", ![r].got = m]
        /\ cache' = IF req[r].ver = None THEN cache ELSE Remembered(req[r].ver, m)
    /\ UNCHANGED <<inProcess, rows, dep, deploys, lock>>

\* Mutant of LoadBody: the key is computed once the model is loaded.
LoadBodyKeyedLate(r) ==
    /\ req[r].pc = "load_body"
    /\ LET m == [head |-> req[r].head, body |-> rows.model] IN
        /\ req' = [req EXCEPT ![r].pc = "done", ![r].got = m]
        /\ cache' = IF rows.version = None THEN cache ELSE Remembered(rows.version, m)
    /\ lock' = Unlocked(r)
    /\ UNCHANGED <<inProcess, rows, dep, deploys>>

\* Mutant of LoadBody: the version is read after the model.
LoadBodyThenVersion(r) ==
    /\ req[r].pc = "load_body"
    /\ LET m == [head |-> req[r].head, body |-> rows.model] IN
        /\ req' = [req EXCEPT ![r].pc = "done", ![r].got = m, ![r].ver = rows.version]
        /\ cache' = IF req[r].ver = None THEN cache ELSE Remembered(req[r].ver, m)
    /\ lock' = Unlocked(r)
    /\ UNCHANGED <<inProcess, rows, dep, deploys>>

LoadBody(r) ==
    /\ req[r].pc = "load_body"
    /\ LET m == [head |-> req[r].head, body |-> rows.model] IN
        /\ req' = [req EXCEPT ![r].pc = "done", ![r].got = m]
        /\ cache' = IF req[r].ver = None THEN cache ELSE Remembered(req[r].ver, m)
    /\ lock' = Unlocked(r)
    /\ UNCHANGED <<inProcess, rows, dep, deploys>>

-----------------------------------------------------------------------------
Deploy(d) ==
    \/ ReadTree(d) \/ WriteDatasource(d) \/ WriteExamples(d)
    \/ WriteMemory(d) \/ WriteModelVersion(d) \/ DeployDies(d)

Call(r) ==
    \/ ReadVersion(r) \/ ReadVersionToExecute(r) \/ SelectExamples(r)
    \/ GuardHead(r) \/ GuardBody(r) \/ EngineMatches(r) \/ Execute(r) \/ Describe(r)
    \/ LookUpUnversioned(r) \/ Hit(r) \/ Miss(r) \/ LoadHead(r) \/ LoadBody(r)

Next == (\E d \in Deployers : Deploy(d)) \/ (\E r \in Requests : Call(r))

Spec == Init /\ [][Next]_vars

\* A call that has started goes on: its queries return, and a free lock is
\* given to a waiter.
FairSpec == Spec /\ \A r \in Requests : WF_vars(Call(r) /\ req[r].pc # "idle")

-----------------------------------------------------------------------------
\* The types of the variables.
TypeOK ==
    /\ inProcess \in BOOLEAN
    /\ rows \in [model : Rows, examples : Rows, memory : Rows, version : Rows]
    /\ dep \in [Deployers -> [pc : {"idle", "write_datasource", "write_examples",
                                    "write_memory", "write_model_version"}, tree : Rows]]
    /\ deploys \in [started : 0 .. MaxDeploys, newest : Rows]
    /\ cache \in [Trees -> Models]
    /\ lock \in Requests \cup {NoOne}
    /\ req \in [Requests ->
         [pc : {"idle", "lookup", "select", "guard_head", "guard_body", "engine", "execute",
                "describe", "load_head", "load_body", "done"},
          kind : Kinds, ver : Rows, head : Rows, guard : Models, ran : BOOLEAN,
          got : Models]]

\* No deploy is under way and the last one ran to its end.
Settled ==
    /\ \A d \in Deployers : dep[d].pc = "idle"
    /\ rows.version # None
    /\ rows.model = rows.version /\ rows.examples = rows.version

Replied(r) == req[r].pc = "done" /\ req[r].kind # "execute" /\ req[r].got # NoModel

\* Nobody is told of a newer model than the one that was used: a reply never
\* carries a version newer than the content beside it, since the reader reads
\* the version first and the writer writes it last (tools.py:2743, #364), and no
\* statement runs that was vetted over a model older than the version the call
\* was accepted for, since the guard never reads the cache
\* (_resolve_guard_model).
NewAsLabelled ==
    \A r \in Requests :
        /\ Replied(r) => req[r].got.head >= req[r].ver /\ req[r].got.body >= req[r].ver
        /\ req[r].ran => req[r].guard.head >= req[r].ver /\ req[r].guard.body >= req[r].ver

\* Whoever holds a reply labelled with the live version holds the live
\* content: any other reply is refused at execute_sql (#364).
StaleTextIsDetectable ==
    \A r \in Requests :
        Settled /\ Replied(r) /\ req[r].ver = rows.version
            => req[r].got = Whole(rows.version)

\* Once a deploy is complete, no process serves a mixture, or another
\* deploy's model, under the live version (get_cached_org).
SettledCacheIsLive ==
    Settled => cache[rows.version] \in {NoModel, Whole(rows.version)}

\* Every call ends, the ones that wait for another's load included.
EveryCallEnds ==
    \A r \in Requests : req[r].pc # "idle" ~> req[r].pc = "done"

=============================================================================
