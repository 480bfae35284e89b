---------------------------- MODULE GuardedCall ----------------------------
(***************************************************************************)
(* One execute_sql tool call from the transport to the two audit rows.     *)
(* The tool edge refuses what needs no database, the chokepoint            *)
(* (execute_guarded, in this process or in a forked child) probes the      *)
(* audit store and runs the gates in a fixed order, the statement runs     *)
(* bounded, a receipt is built, _emit writes the query_executions row and  *)
(* the transport's finally writes the tool_calls row.                      *)
(*                                                                         *)
(* Around it the audit store and the model's files come and go, the        *)
(* operator flips the governance switch, and the client may cancel.  A     *)
(* statement is the set of things wrong with it; one statement may trip    *)
(* several gates, and the order of the gates decides which one answers.    *)
(***************************************************************************)
EXTENDS Naturals, FiniteSets

CONSTANTS
    Calls,
    MaxFaults  \* bound on how many things are wrong with one call

VARIABLES
    site,      \* what the process was started as, and whether the package that
               \* reads a model, with its SQL parser, is installed (guards)
    store,     \* the audit store can be opened and written, and has the model
    disk,      \* a model can be loaded from this machine's files
    enforced,  \* AGAMI_GOVERNANCE_ENFORCED as the environment has it now
    call

vars == <<site, store, disk, enforced, call>>

Hosted == site.hosted        \* AGAMI_DB_URL is set: a served deployment
InProcess == site.injected   \* an injected executor runs here; otherwise a child is forked

\* _resolve_guard_model: the store's model, or else the one on disk.
Resolves == site.guards /\ ((Hosted /\ store) \/ disk)

\* What may be wrong with a call, in the order the gates look.
Faults == {"empty", "unnamed", "write", "stale", "recon", "scope", "credentials",
           "engine", "catalog"}

Rules == {"datasource_required", "read_only", "stale_model", "audit_unavailable", "recon",
          "scope", "model_unavailable", "engine_mismatch", "resource_limit"}
PreModelRules == {"datasource_required", "read_only", "stale_model", "audit_unavailable", "recon"}
NoEnvelope == [status |-> "none", rule |-> "none"]
Refused(rule) == [status |-> "refused", rule |-> rule]
Failed == [status |-> "failed", rule |-> "none"]
Ok == [status |-> "ok", rule |-> "none"]
Envelopes == {NoEnvelope, Failed, Ok} \cup {Refused(rule) : rule \in Rules}

\* The stretch of pc in which a forked child is the one running.
Guarded == {"probe", "hard_gates", "model_safety", "credentials", "engine", "execute"}

\* gated: the pass ran over a model.  held is auxiliary: since then a model
\* could always be read.
Fresh == [pc |-> "idle", faults |-> {}, posture |-> TRUE, gated |-> FALSE, held |-> FALSE, probed |-> FALSE,
          ran |-> FALSE, env |-> NoEnvelope, receipt |-> "none", raised |-> FALSE,
          cancelled |-> FALSE, row |-> NoEnvelope, toolRow |-> FALSE, answer |-> "none"]

Init ==
    /\ site \in [hosted : BOOLEAN, injected : BOOLEAN, guards : BOOLEAN]
    /\ store \in BOOLEAN /\ disk \in BOOLEAN
    /\ enforced \in BOOLEAN
    /\ call = [c \in Calls |-> Fresh]

-----------------------------------------------------------------------------
(* Surroundings                                                            *)

\* A call that has passed its gates notes that the model was out of reach.
Notice ==
    call' = [c \in Calls |-> IF call[c].pc \in {"credentials", "engine"}
                            THEN [call[c] EXCEPT !.held = @ /\ Resolves'] ELSE call[c]]

StoreFlips == store' = ~store /\ UNCHANGED <<site, disk, enforced>> /\ Notice

\* The files are being rewritten, or are mounted late or lost.
DiskFlips == disk' = ~disk /\ UNCHANGED <<site, store, enforced>> /\ Notice

SwitchFlips == enforced' = ~enforced /\ UNCHANGED <<site, store, disk, call>>

\* notifications/cancelled, or the client going away: the request's scope is
\* cancelled; a worker thread already running is waited for.
Cancel(c) ==
    /\ call[c].pc \notin {"idle", "done"}
    /\ call' = [call EXCEPT ![c].cancelled = TRUE]
    /\ UNCHANGED <<site, store, disk, enforced>>

-----------------------------------------------------------------------------
(* Steps of a call.  Each changes its own record only.                     *)

At(c, pc, next) ==
    /\ call[c].pc = pc
    /\ call' = [call EXCEPT ![c] = next]
    /\ UNCHANGED <<site, store, disk, enforced>>

To(c, pc) == [call[c] EXCEPT !.pc = pc]
Settle(c, env) == [call[c] EXCEPT !.pc = "receipt", !.env = env]

\* _tool_execute_sql pins the posture for both sides of a fork.  The switch
\* means something on a served deployment only.
Arrive(c) ==
    \E faults \in {f \in SUBSET Faults : Cardinality(f) <= MaxFaults} :
        At(c, "idle", [Fresh EXCEPT !.pc = "edge", !.faults = faults,
                                    !.posture = enforced \/ ~Hosted])

\* The scope is cancelled before the handler got its worker thread.
NeverStarts(c) ==
    /\ call[c].cancelled
    /\ At(c, "edge", [To(c, "done") EXCEPT !.answer = "gone"])

\* Missing sql; no datasource named among several, where the store can list
\* them; and the read-only gate for the first time.
EdgeGates(c) ==
    At(c, "edge",
       IF "empty" \in call[c].faults THEN Settle(c, Failed)
       ELSE IF "unnamed" \in call[c].faults /\ Hosted /\ store
       THEN Settle(c, Refused("datasource_required"))
       ELSE IF "write" \in call[c].faults THEN Settle(c, Refused("read_only"))
       ELSE To(c, "stale"))

\* _stale_model_refusal and _example_refusal: an unreadable store stands
\* aside, the audit gate below owns refusing on it.
StaleModel(c) ==
    At(c, "stale", IF "stale" \in call[c].faults /\ Hosted /\ store
                   THEN Settle(c, Refused("stale_model")) ELSE To(c, "probe"))

\* _audit_store_reachable
Probe(c) ==
    At(c, "probe", IF Hosted /\ ~store
                   THEN Settle(c, Refused("audit_unavailable"))
                   ELSE [To(c, "hard_gates") EXCEPT !.probed = TRUE])

\* Mutant of HardGates: the recon gate is part of the model pass.
HardGatesWithPosture(c) ==
    At(c, "hard_gates",
       IF "write" \in call[c].faults THEN Settle(c, Refused("read_only"))
       ELSE IF "recon" \in call[c].faults /\ call[c].posture
            THEN Settle(c, Refused("recon")) ELSE To(c, "model_safety"))

\* check_read_only, check_no_recon: whatever the posture.
HardGates(c) ==
    At(c, "hard_gates",
       IF "write" \in call[c].faults THEN Settle(c, Refused("read_only"))
       ELSE IF "recon" \in call[c].faults
            THEN Settle(c, Refused("recon")) ELSE To(c, "model_safety"))

\* _model_safety.  A served deployment that can read no model refuses.
\* Locally there may be none, and then nothing is declared: without the parser
\* the gates are inert too, and without the package the call is refused where
\* the files may declare a model.
ModelSafety(c) ==
    \/ At(c, "model_safety",
          IF ~call[c].posture THEN To(c, "credentials")
          ELSE IF ~Resolves /\ Hosted THEN Settle(c, Refused("model_unavailable"))
          ELSE IF ~Resolves THEN To(c, "credentials")
          ELSE IF "scope" \in call[c].faults
               THEN [Settle(c, Refused("scope")) EXCEPT !.gated = TRUE]
               ELSE [To(c, "credentials") EXCEPT !.gated = TRUE, !.held = TRUE])
    \/ ~Hosted /\ ~site.guards /\ At(c, "model_safety", Settle(c, Refused("model_unavailable")))

LoadCredentials(c) ==
    At(c, "credentials", IF "credentials" \in call[c].faults
                         THEN Settle(c, Failed) ELSE To(c, "engine"))

\* Mutant of EngineGate: it reads the switch again.
EngineGateUnpinned(c) ==
    At(c, "engine", IF (enforced \/ ~Hosted) /\ Resolves /\ "engine" \in call[c].faults
                    THEN Settle(c, Refused("engine_mismatch"))
                    ELSE IF call[c].gated /\ "catalog" \in call[c].faults
                    THEN Settle(c, Refused("scope")) ELSE To(c, "execute"))

\* _engine_mismatch reads the model again, and where there is none now it has
\* nothing to compare; _foreign_catalog asks the model the gates ran over.
EngineGate(c) ==
    At(c, "engine", IF call[c].posture /\ Resolves /\ "engine" \in call[c].faults
                    THEN Settle(c, Refused("engine_mismatch"))
                    ELSE IF call[c].gated /\ "catalog" \in call[c].faults
                    THEN Settle(c, Refused("scope")) ELSE To(c, "execute"))

\* _execute_bounded and what becomes of its result: an answer, a bound (the
\* cap refuses before anything is sent), the database's or the adapter's
\* error, before or after the statement was sent.
ExecuteBounded(c) ==
    \/ \E env \in {Ok, Failed, Refused("resource_limit")} :
          At(c, "execute", [Settle(c, env) EXCEPT !.ran = TRUE])
    \/ \E env \in {Failed, Refused("resource_limit")} : At(c, "execute", Settle(c, env))

\* The supervisor gives up on the forked child, or the child dies.
ChildLost(c) ==
    /\ ~InProcess
    /\ call[c].pc \in Guarded
    /\ \E sent \in {FALSE, call[c].pc = "execute"} :
        At(c, call[c].pc, [Settle(c, Failed) EXCEPT !.ran = sent])

\* _receipt_for in process, over the model the gates used; _resolve_receipt
\* in the parent of a fork, over the model it can load then.
Receipt(c) ==
    \E model \in {"no_model", "assembled"} :
        /\ model = "assembled" => IF InProcess THEN call[c].gated
                                  ELSE site.guards /\ IF Hosted THEN store ELSE disk
        /\ At(c, "receipt",
              [To(c, "emit") EXCEPT !.receipt =
                 IF call[c].env.rule \in PreModelRules THEN "before_model"
                 ELSE IF "empty" \in call[c].faults THEN "no_statement"
                 ELSE IF ~call[c].posture THEN "disabled" ELSE model])

\* Mutant of Emit: a failed write is swallowed on a served deployment too.
EmitSwallows(c) ==
    At(c, "emit",
       IF call[c].env.rule # "audit_unavailable" /\ store
       THEN [To(c, "record") EXCEPT !.row = call[c].env] ELSE To(c, "record"))

\* _record_execution and _record_query.  Served, a failed write raises out of
\* the handler; locally it is a warning.  audit_unavailable writes no row.
Emit(c) ==
    At(c, "emit",
       IF call[c].env.rule = "audit_unavailable" THEN To(c, "record")
       ELSE IF store THEN [To(c, "record") EXCEPT !.row = call[c].env]
       ELSE [To(c, "record") EXCEPT !.raised = Hosted])

\* The finally of _call_tool.  In a cancelled scope run_blocking raises before
\* it starts a thread.
RecordToolCall(c) ==
    At(c, "record",
       IF call[c].cancelled THEN [To(c, "done") EXCEPT !.answer = "gone"]
       ELSE IF call[c].env.rule = "audit_unavailable" /\ ~call[c].raised
            THEN [To(c, "done") EXCEPT !.answer = "envelope"]
       ELSE [To(c, "done") EXCEPT !.toolRow = store,
               !.answer = IF call[c].raised \/ (Hosted /\ ~store) THEN "error" ELSE "envelope"])

-----------------------------------------------------------------------------
Step(c) ==
    \/ NeverStarts(c) \/ EdgeGates(c) \/ StaleModel(c) \/ Probe(c) \/ HardGates(c) \/ ModelSafety(c)
    \/ LoadCredentials(c) \/ EngineGate(c) \/ ExecuteBounded(c) \/ ChildLost(c)
    \/ Receipt(c) \/ Emit(c) \/ RecordToolCall(c)

Next ==
    \/ StoreFlips \/ DiskFlips \/ SwitchFlips
    \/ \E c \in Calls : Arrive(c) \/ Cancel(c) \/ Step(c)

Spec == Init /\ [][Next]_vars

-----------------------------------------------------------------------------
\* The types of the variables.
TypeOK ==
    /\ site \in [hosted : BOOLEAN, injected : BOOLEAN, guards : BOOLEAN]
    /\ store \in BOOLEAN /\ disk \in BOOLEAN /\ enforced \in BOOLEAN
    /\ call \in [Calls ->
         [pc : {"idle", "edge", "stale", "receipt", "emit", "record", "done"} \cup Guarded,
          faults : SUBSET Faults, posture : BOOLEAN, gated : BOOLEAN, held : BOOLEAN, probed : BOOLEAN,
          ran : BOOLEAN, env : Envelopes,
          receipt : {"none", "before_model", "no_statement", "disabled", "no_model", "assembled"},
          raised : BOOLEAN, cancelled : BOOLEAN, row : Envelopes, toolRow : BOOLEAN,
          answer : {"none", "envelope", "error", "gone"}]]

Answered(c) == call[c].answer = "envelope"

\* Nothing reaches the warehouse that a hard gate refuses, or that was sent
\* before the audit store answered, or, with the pass on and a model declared,
\* that is out of scope or reads another catalog (execute_guarded).  Nor does
\* one vetted in another engine's grammar, unless the model the gates had was
\* lost before the engine was compared: _engine_mismatch then lets it by.
\* And the receipt of what ran says the pass was on exactly when it was,
\* however the switch moved meanwhile (_pin_model_pass_posture, ACE-101).
NothingRunsUnvetted ==
    \A c \in Calls : call[c].ran =>
        /\ call[c].faults \cap {"empty", "write", "recon", "credentials"} = {}
        /\ call[c].probed
        /\ Hosted /\ call[c].posture => call[c].gated
        /\ call[c].gated => call[c].faults \cap {"scope", "catalog"} = {}
        /\ call[c].gated /\ call[c].held => "engine" \notin call[c].faults
        /\ Hosted /\ call[c].env = Ok /\ call[c].receipt # "none" =>
              (call[c].receipt = "disabled") = ~call[c].gated

\* Served, an answer reaches the caller only with its query row, which tells
\* the same outcome, and its tool row; a refusal for want of a store is the one
\* exemption, and it does reach the caller (principle 7, ACE-097).  So does
\* every answer of a laptop, a read-only disk or not (_audit_is_load_bearing).
NoAnswerUnrecorded ==
    \A c \in Calls :
        /\ Hosted /\ Answered(c) /\ call[c].env.rule # "audit_unavailable" =>
              call[c].row = call[c].env /\ call[c].toolRow
        /\ ~Hosted \/ call[c].env.rule = "audit_unavailable" => call[c].answer # "error"

=============================================================================
