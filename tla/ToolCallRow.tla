---------------------------- MODULE ToolCallRow ----------------------------
(***************************************************************************)
(* What the tool_calls row says of a call (record_tool_call).  Three       *)
(* accounts of one call meet in it: whether the handler raised, the body   *)
(* it returned, and an outcome stated beside both, by the handler through  *)
(* a context variable or by an embedder that dispatches tools itself.  The *)
(* context is a copy and may hold what an earlier call published.          *)
(***************************************************************************)
EXTENDS FiniteSets

CONSTANTS
    Rules,     \* of refusals
    Kinds,     \* of failures and errors
    Sources    \* datasources

Silent == [status |-> "none", why |-> "none"]
Ok == [status |-> "ok", why |-> "none"]
Outcomes == {Ok} \cup [status : {"refused"}, why : Rules] \cup [status : {"failed"}, why : Kinds]

\* What the model-backed tools answer, which do not speak the Envelope; text
\* that is no JSON object reads as Silent.
Replies == {Silent, Ok} \cup [status : {"error"}, why : Kinds]
NoSource == "none"

-----------------------------------------------------------------------------
(* The handler and its context                                             *)

\* A run of execute_sql publishes what it answers, once the query row is
\* written; it may raise before that, and the stamping of its text after.
\* The other tools publish no outcome, and may raise.
Handlings ==
    [body : Outcomes, raised : {FALSE}, published : {"own"}, resolved : Sources \cup {NoSource}]
      \cup [body : Outcomes, raised : {TRUE}, published : {"own"}, resolved : Sources]
      \cup [body : Replies, raised : BOOLEAN, published : {"nothing"}, resolved : Sources \cup {NoSource}]

Context(outcome, resolved) == [outcome |-> outcome, resolved |-> resolved]
Empty == Context(Silent, NoSource)

\* A bug: the copy is not reset.
KeptContext(inherited) == inherited

\* What the transport reads back after the handler ran in its own copy.
ResetContext(inherited) == Empty

ContextAfter(inherited, h) ==
    LET clean == ResetContext(inherited)
    IN  Context(IF h.published = "own" THEN h.body ELSE clean.outcome,
                IF h.resolved # NoSource THEN h.resolved ELSE clean.resolved)

-----------------------------------------------------------------------------
(* record_tool_call                                                        *)

\* The arguments success and error_kind, each stated or left to be derived; a
\* row count stated alone comes to a success.
Unsaid == "unsaid"
Stated(success, kind) == [success |-> success, kind |-> kind]
NothingStated == Stated(Unsaid, "none")

TypedOutcomeOverrides(ctx) ==
    IF ctx.outcome = Silent THEN NothingStated
    ELSE IF ctx.outcome = Ok THEN Stated("yes", "none")
    ELSE Stated("no", ctx.outcome.why)

\* [success, kind, sentences]: the sentences are a refusal's own, read off
\* the body, and name the rule they are about.
Verdict(success, kind, sentences) == [success |-> success, kind |-> kind, sentences |-> sentences]

Derived(body, raised) ==
    IF raised THEN Verdict(FALSE, "exception", "none")
    ELSE IF body.status \in {"ok", "none"} THEN Verdict(TRUE, "none", "none")
    ELSE Verdict(FALSE, body.why, IF body.status = "refused" THEN body.why ELSE "none")

\* A bug: the sentences stay whatever is stated.
OverriddenKeepingWords(derived, stated) ==
    LET success == IF stated.success = Unsaid THEN stated.kind = "none" ELSE stated.success = "yes"
    IN  IF stated = NothingStated THEN derived
        ELSE Verdict(success, IF success THEN "none" ELSE stated.kind, derived.sentences)

\* Stating either replaces both, a kind alone is a failure, and a success has
\* no kind; the sentences stay where the stated kind is the body's own rule.
Overridden(derived, stated) ==
    LET success == IF stated.success = Unsaid THEN stated.kind = "none" ELSE stated.success = "yes"
        kind == IF success THEN "none" ELSE stated.kind
    IN  IF stated = NothingStated THEN derived
        ELSE Verdict(success, kind,
                     IF success \/ kind # derived.sentences THEN "none" ELSE derived.sentences)

\* A bug: what is stated is the last word.
RowVerdictAsStated(body, raised, stated) == Overridden(Derived(body, raised), stated)

\* A raise outranks what was stated, and keeps a stated kind.
RowVerdict(body, raised, stated) ==
    LET said == Overridden(Derived(body, raised), stated)
        kind == IF stated.kind # "none" THEN stated.kind ELSE said.kind
    IN  IF ~raised THEN said
        ELSE Verdict(FALSE, IF kind = "none" THEN "exception" ELSE kind, said.sentences)

\* The row of a call over HTTP (the finally of _call_tool).
TransportRow(inherited, h) ==
    LET ctx == ContextAfter(inherited, h)
    IN  [verdict |-> RowVerdict(h.body, h.raised, TypedOutcomeOverrides(ctx)),
         datasource |-> ctx.resolved]

-----------------------------------------------------------------------------
Inheritable == {Context(o, s) : o \in Outcomes \cup {Silent}, s \in Sources \cup {NoSource}}
Statements == [success : {Unsaid, "yes", "no"}, kind : Kinds \cup Rules \cup {"none"}]

\* The row of a call over HTTP tells that call's outcome and datasource, and
\* not an earlier one's, whatever the context it was started in still held: a
\* success where the client was answered and not refused, failed or errored,
\* the rule or kind the client was given, and the sentences of that refusal.
TransportRowIsTheCalls(inherited, h) ==
    LET row == TransportRow(inherited, h)
    IN  /\ row.verdict.success <=> ~h.raised /\ h.body.status \in {"ok", "none"}
        /\ ~h.raised => /\ row.verdict.kind = h.body.why
                        /\ row.verdict.sentences = IF h.body.status = "refused" THEN h.body.why ELSE "none"
        /\ h.raised => /\ row.verdict.kind \in (IF h.published = "own" THEN {h.body.why} ELSE {}) \cup {"exception"}
                       /\ row.verdict.kind # "none" /\ row.verdict.sentences = "none"
        /\ row.datasource = h.resolved

\* Whatever an embedder states, no row contradicts itself, calls a raise a
\* success, or puts a refusal's sentences beside another outcome.
NoStatementContradicts(body, raised, stated) ==
    LET v == RowVerdict(body, raised, stated)
    IN  /\ v.success => v.kind = "none"
        /\ raised => ~v.success /\ v.kind # "none"
        /\ stated.success = "no" \/ (stated.kind # "none" /\ stated.success = Unsaid) => ~v.success
        /\ v.sentences # "none" => v.kind = v.sentences /\ body.why = v.sentences /\ ~raised
=============================================================================
