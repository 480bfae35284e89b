--------------------------- MODULE CallLogsProofs ---------------------------
(***************************************************************************)
(* The safety properties of a guarded call, of the rows calls leave, and   *)
(* of the conversations the rows are put in: for any sets of calls,        *)
(* callers, rules and kinds, however the audit store, the switch, the      *)
(* clocks and the clients behave meanwhile.                                *)
(***************************************************************************)
EXTENDS CallLogs, TLAPS, FiniteSetTheorems, WellFoundedInduction

-----------------------------------------------------------------------------
(* The guarded call.                                                       *)
(*                                                                         *)
(* A step of a call changes that call's record and nothing else, so the    *)
(* strengthening is a predicate on one record: what a call at a given      *)
(* position has passed, and what an outcome already reached has behind it. *)

\* The type of a call's record, named.
CallRec ==
    [pc : {"idle", "edge", "stale", "receipt", "emit", "record", "done"} \cup Guarded,
     faults : SUBSET Faults, posture : BOOLEAN, gated : BOOLEAN, held : BOOLEAN,
     probed : BOOLEAN, ran : BOOLEAN, env : Envelopes,
     receipt : {"none", "before_model", "no_statement", "disabled", "no_model", "assembled"},
     raised : BOOLEAN, cancelled : BOOLEAN, row : Envelopes, toolRow : BOOLEAN,
     answer : {"none", "envelope", "error", "gone"}]

\* A call that is still to be decided has no outcome, one without a receipt
\* has raised nothing, and one that is not done has answered nothing.
Deciding == {"idle", "edge", "stale"} \cup Guarded
NoOutcome(k) == k.pc \in Deciding => ~k.ran /\ k.env = NoEnvelope
NoReceipt(k) == k.pc \in Deciding \cup {"receipt"} => k.receipt = "none" /\ ~k.raised
NoAnswer(k) == k.pc # "done" => k.answer = "none"

\* What a call has passed, told by where it is.  While it waits for its engine
\* to be compared, one that has held a model throughout can read one now.
PastGates(k) ==
    /\ k.pc \in {"stale"} \cup Guarded => k.faults \cap {"empty", "write"} = {}
    /\ k.pc \in Guarded \ {"probe"} => k.probed
    /\ k.pc \in Guarded \ {"probe", "hard_gates"} => "recon" \notin k.faults
    /\ k.pc \in {"credentials", "engine", "execute"} =>
          (Hosted /\ k.posture => k.gated) /\ (k.gated => "scope" \notin k.faults)
    /\ k.pc \in {"engine", "execute"} => "credentials" \notin k.faults
    /\ k.pc \in {"credentials", "engine"} /\ k.held => Resolves
    /\ k.pc = "execute" /\ k.gated => "catalog" \notin k.faults
    /\ k.pc = "execute" /\ k.gated /\ k.held => "engine" \notin k.faults

\* What every statement that was sent has passed.
Vetted(k) ==
    /\ k.faults \cap {"empty", "write", "recon", "credentials"} = {}
    /\ k.probed
    /\ Hosted /\ k.posture => k.gated
    /\ k.gated => k.faults \cap {"scope", "catalog"} = {}
    /\ k.gated /\ k.held => "engine" \notin k.faults

\* The model pass runs under the pinned posture, only a statement that was sent
\* has an answer, and the receipt of one tells that posture.
PassIsPosture(k) ==
    /\ k.gated => k.posture
    /\ k.pc \in Deciding \ {"credentials", "engine", "execute"} => ~k.gated /\ ~k.held
RanIsVetted(k) == (k.ran => Vetted(k)) /\ (k.env = Ok => k.ran)
ReceiptTells(k) ==
    Hosted /\ k.env = Ok /\ k.receipt # "none" => (k.receipt = "disabled") = ~k.gated

\* What a served call that is about to be answered has behind it.
RaisedIsLoss(k) == k.raised => Hosted /\ k.env.rule # "audit_unavailable"
RowOrRaise(k) ==
    k.pc = "record" /\ Hosted /\ k.env.rule # "audit_unavailable" => k.raised \/ k.row = k.env
AnswerIsRecorded(k) ==
    /\ Hosted /\ k.answer = "envelope" /\ k.env.rule # "audit_unavailable" =>
          k.row = k.env /\ k.toolRow
    /\ ~Hosted \/ k.env.rule = "audit_unavailable" => k.answer # "error"

CallInv(k) ==
    /\ NoOutcome(k) /\ NoReceipt(k) /\ NoAnswer(k) /\ PastGates(k)
    /\ PassIsPosture(k) /\ RanIsVetted(k) /\ ReceiptTells(k)
    /\ RaisedIsLoss(k) /\ RowOrRaise(k) /\ AnswerIsRecorded(k)

\* The inductive invariant.
IInv == TypeOK /\ \A c \in Calls : CallInv(call[c])

-----------------------------------------------------------------------------
\* The envelopes are told apart by status and rule.
LEMMA EnvelopeFacts ==
    /\ {NoEnvelope, Failed, Ok} \subseteq Envelopes
    /\ \A rule \in Rules : /\ Refused(rule) \in Envelopes /\ Refused(rule).rule = rule
                            /\ Refused(rule) # Ok
    /\ NoEnvelope # Ok /\ Failed # Ok
    /\ NoEnvelope.rule = "none" /\ Failed.rule = "none" /\ Ok.rule = "none"
    /\ PreModelRules \subseteq Rules /\ "none" \notin Rules
  BY DEF Envelopes, NoEnvelope, Failed, Ok, Refused, Rules, PreModelRules

\* The invariant holds before any call has arrived.
LEMMA InitInv == Init => IInv
  <1> SUFFICES ASSUME Init PROVE IInv
    OBVIOUS
  <1>1. Fresh \in CallRec
    BY EnvelopeFacts DEF Fresh, CallRec
  <1>2. TypeOK
    BY <1>1 DEF Init, TypeOK, CallRec
  <1>3. CallInv(Fresh)
    BY EnvelopeFacts
       DEF Fresh, CallInv, NoOutcome, NoReceipt, NoAnswer, PastGates, PassIsPosture,
           RanIsVetted, ReceiptTells, RaisedIsLoss, RowOrRaise, AnswerIsRecorded, Guarded
  <1>4. \A c \in Calls : call[c] = Fresh
    BY DEF Init
  <1> QED BY <1>2, <1>3, <1>4 DEF IInv

\* A step of c that keeps what is said of a record keeps the invariant.
LEMMA Kept ==
    ASSUME IInv, NEW c \in Calls, NEW k \in CallRec, CallInv(k),
           call' = [call EXCEPT ![c] = k], UNCHANGED <<site, store, disk, enforced>>
    PROVE  IInv'
  <1>1. TypeOK'
    BY DEF IInv, TypeOK, CallRec
  <1>2. Hosted' = Hosted /\ Resolves' = Resolves
    BY DEF Hosted, Resolves
  <1>3. call'[c] = k /\ \A d \in Calls \ {c} : call'[d] = call[d]
    BY DEF IInv, TypeOK
  <1>4. ASSUME NEW d \in Calls PROVE CallInv(call[d])'
    <2>1. CallInv(call'[d])
      BY <1>3 DEF IInv
    <2> QED BY <1>2, <2>1
            DEF CallInv, NoOutcome, NoReceipt, NoAnswer, PastGates, PassIsPosture, RanIsVetted,
                Vetted, ReceiptTells, RaisedIsLoss, RowOrRaise, AnswerIsRecorded
  <1> QED BY <1>1, <1>4 DEF IInv

\* A call that is answered for without its statement having been sent: a gate
\* refused, or something failed before.
LEMMA Settled ==
    ASSUME NEW k \in CallRec, CallInv(k), k.pc \in Deciding \ {"idle"},
           NEW env \in Envelopes, env # Ok
    PROVE  LET n == [k EXCEPT !.pc = "receipt", !.env = env] IN n \in CallRec /\ CallInv(n)
  BY DEF CallRec, Deciding, Guarded, CallInv, NoOutcome, NoReceipt, NoAnswer, PastGates,
         PassIsPosture, RanIsVetted, Vetted, ReceiptTells, RaisedIsLoss, RowOrRaise,
         AnswerIsRecorded

\* What a step of c starts from, and the two records most steps lead to.
LEMMA Here ==
    ASSUME IInv, NEW c \in Calls
    PROVE  /\ call[c] \in CallRec /\ CallInv(call[c])
           /\ call[c].pc \in Deciding \ {"idle"} =>
                \A env \in Envelopes \ {Ok} :
                  Settle(c, env) \in CallRec /\ CallInv(Settle(c, env))
  <1>1. call[c] \in CallRec /\ CallInv(call[c])
    BY DEF IInv, TypeOK, CallRec
  <1> QED BY <1>1, Settled DEF Settle

\* The gates before the statement is sent: each settles the call or takes it
\* one position further, past one more gate.
LEMMA GateSteps ==
    ASSUME IInv, NEW c \in Calls,
           EdgeGates(c) \/ StaleModel(c) \/ Probe(c) \/ HardGates(c) \/ LoadCredentials(c)
             \/ EngineGate(c)
    PROVE  IInv'
  <1> DEFINE k == call[c]
  <1>1. k \in CallRec /\ CallInv(k)
    BY Here
  <1>2. /\ Failed \in Envelopes \ {Ok}
        /\ \A rule \in Rules : Refused(rule) \in Envelopes \ {Ok}
        /\ {"datasource_required", "read_only", "stale_model", "audit_unavailable", "recon",
            "scope", "model_unavailable", "engine_mismatch"} \subseteq Rules
    BY EnvelopeFacts DEF Rules
  <1>3. CASE EdgeGates(c)
    <2>1. PICK n : /\ call' = [call EXCEPT ![c] = n] /\ UNCHANGED <<site, store, disk, enforced>>
                   /\ k.pc = "edge"
                   /\ \/ \E env \in Envelopes \ {Ok} : n = Settle(c, env)
                      \/ n = [k EXCEPT !.pc = "stale"] /\ k.faults \cap {"empty", "write"} = {}
      BY <1>2, <1>3 DEF EdgeGates, At, To
    <2>2. n \in CallRec /\ CallInv(n)
      <3>1. CASE n = [k EXCEPT !.pc = "stale"] /\ k.faults \cap {"empty", "write"} = {}
        BY <1>1, <2>1, <3>1 
           DEF CallRec, Guarded, Deciding, CallInv, NoOutcome, NoReceipt, NoAnswer, PastGates,
               PassIsPosture, RanIsVetted, ReceiptTells, RaisedIsLoss, RowOrRaise, AnswerIsRecorded
      <3> QED BY <2>1, <3>1, Here DEF Deciding, Guarded
    <2> QED BY <2>1, <2>2, Kept
  <1>4. CASE StaleModel(c)
    <2>1. PICK n : /\ call' = [call EXCEPT ![c] = n] /\ UNCHANGED <<site, store, disk, enforced>>
                   /\ k.pc = "stale"
                   /\ \/ \E env \in Envelopes \ {Ok} : n = Settle(c, env)
                      \/ n = [k EXCEPT !.pc = "probe"]
      BY <1>2, <1>4 DEF StaleModel, At, To
    <2>2. n \in CallRec /\ CallInv(n)
      <3>1. CASE n = [k EXCEPT !.pc = "probe"]
        BY <1>1, <2>1, <3>1 
           DEF CallRec, Guarded, Deciding, CallInv, NoOutcome, NoReceipt, NoAnswer, PastGates,
               PassIsPosture, RanIsVetted, ReceiptTells, RaisedIsLoss, RowOrRaise, AnswerIsRecorded
      <3> QED BY <2>1, <3>1, Here DEF Deciding, Guarded
    <2> QED BY <2>1, <2>2, Kept
  <1>5. CASE Probe(c)
    <2>1. PICK n : /\ call' = [call EXCEPT ![c] = n] /\ UNCHANGED <<site, store, disk, enforced>>
                   /\ k.pc = "probe"
                   /\ \/ \E env \in Envelopes \ {Ok} : n = Settle(c, env)
                      \/ n = [k EXCEPT !.pc = "hard_gates", !.probed = TRUE]
      BY <1>2, <1>5 DEF Probe, At, To
    <2>2. n \in CallRec /\ CallInv(n)
      <3>1. CASE n = [k EXCEPT !.pc = "hard_gates", !.probed = TRUE]
        BY <1>1, <2>1, <3>1 
           DEF CallRec, Guarded, Deciding, CallInv, NoOutcome, NoReceipt, NoAnswer, PastGates,
               PassIsPosture, RanIsVetted, ReceiptTells, RaisedIsLoss, RowOrRaise, AnswerIsRecorded
      <3> QED BY <2>1, <3>1, Here DEF Deciding, Guarded
    <2> QED BY <2>1, <2>2, Kept
  <1>6. CASE HardGates(c)
    <2>1. PICK n : /\ call' = [call EXCEPT ![c] = n] /\ UNCHANGED <<site, store, disk, enforced>>
                   /\ k.pc = "hard_gates"
                   /\ \/ \E env \in Envelopes \ {Ok} : n = Settle(c, env)
                      \/ n = [k EXCEPT !.pc = "model_safety"] /\ "recon" \notin k.faults
      BY <1>2, <1>6 DEF HardGates, At, To
    <2>2. n \in CallRec /\ CallInv(n)
      <3>1. CASE n = [k EXCEPT !.pc = "model_safety"] /\ "recon" \notin k.faults
        BY <1>1, <2>1, <3>1 
           DEF CallRec, Guarded, Deciding, CallInv, NoOutcome, NoReceipt, NoAnswer, PastGates,
               PassIsPosture, RanIsVetted, ReceiptTells, RaisedIsLoss, RowOrRaise, AnswerIsRecorded
      <3> QED BY <2>1, <3>1, Here DEF Deciding, Guarded
    <2> QED BY <2>1, <2>2, Kept
  <1>7. CASE LoadCredentials(c)
    <2>1. PICK n : /\ call' = [call EXCEPT ![c] = n] /\ UNCHANGED <<site, store, disk, enforced>>
                   /\ k.pc = "credentials"
                   /\ \/ \E env \in Envelopes \ {Ok} : n = Settle(c, env)
                      \/ n = [k EXCEPT !.pc = "engine"] /\ "credentials" \notin k.faults
      BY <1>2, <1>7 DEF LoadCredentials, At, To
    <2>2. n \in CallRec /\ CallInv(n)
      <3>1. CASE n = [k EXCEPT !.pc = "engine"] /\ "credentials" \notin k.faults
        BY <1>1, <2>1, <3>1 
           DEF CallRec, Guarded, Deciding, CallInv, NoOutcome, NoReceipt, NoAnswer, PastGates,
               PassIsPosture, RanIsVetted, ReceiptTells, RaisedIsLoss, RowOrRaise, AnswerIsRecorded
      <3> QED BY <2>1, <3>1, Here DEF Deciding, Guarded
    <2> QED BY <2>1, <2>2, Kept
  <1>8. CASE EngineGate(c)
    <2> DEFINE Compared == k.gated => /\ "catalog" \notin k.faults
                                      /\ k.held => "engine" \notin k.faults
    <2>1. PICK n : /\ call' = [call EXCEPT ![c] = n] /\ UNCHANGED <<site, store, disk, enforced>>
                   /\ k.pc = "engine"
                   /\ \/ \E env \in Envelopes \ {Ok} : n = Settle(c, env)
                      \/ n = [k EXCEPT !.pc = "execute"] /\ Compared
      BY <1>1, <1>2, <1>8
         DEF EngineGate, At, To, CallInv, PastGates, PassIsPosture
    <2>2. n \in CallRec /\ CallInv(n)
      <3>1. CASE n = [k EXCEPT !.pc = "execute"] /\ Compared
        BY <1>1, <2>1, <3>1 
           DEF CallRec, Guarded, Deciding, CallInv, NoOutcome, NoReceipt, NoAnswer, PastGates,
               PassIsPosture, RanIsVetted, ReceiptTells, RaisedIsLoss, RowOrRaise, AnswerIsRecorded
      <3> QED BY <2>1, <3>1, Here DEF Deciding, Guarded
    <2> QED BY <2>1, <2>2, Kept
  <1> QED BY <1>3, <1>4, <1>5, <1>6, <1>7, <1>8

\* The model pass: a call leaves it with the pass on and in scope, or with none
\* because the posture is off or, locally, no model is declared.
LEMMA ModelStep == ASSUME IInv, NEW c \in Calls, ModelSafety(c) PROVE IInv'
  <1> DEFINE k == call[c]
  <1>1. k \in CallRec /\ CallInv(k)
    BY Here
  <1>2. \A rule \in Rules : Refused(rule) \in Envelopes \ {Ok}
    BY EnvelopeFacts
  <1>3. {"model_unavailable", "scope"} \subseteq Rules
    BY DEF Rules
  <1>4. PICK n : /\ call' = [call EXCEPT ![c] = n] /\ UNCHANGED <<site, store, disk, enforced>>
                 /\ k.pc = "model_safety"
                 /\ \/ \E env \in Envelopes \ {Ok} : n = Settle(c, env)
                    \/ /\ k.posture
                       /\ \E env \in Envelopes \ {Ok} :
                             n = [Settle(c, env) EXCEPT !.gated = TRUE]
                    \/ n = [k EXCEPT !.pc = "credentials"] /\ (Hosted => ~k.posture)
                    \/ /\ n = [k EXCEPT !.pc = "credentials", !.gated = TRUE, !.held = TRUE]
                       /\ k.posture /\ Resolves /\ "scope" \notin k.faults
    BY <1>1, <1>2, <1>3 DEF ModelSafety, At, To, CallRec
  <1>5. n \in CallRec /\ CallInv(n)
    <2>1. CASE \E env \in Envelopes \ {Ok} : n = Settle(c, env)
      BY <1>4, <2>1, Here DEF Deciding, Guarded
    <2>2. CASE k.posture /\ \E env \in Envelopes \ {Ok} : n = [Settle(c, env) EXCEPT !.gated = TRUE]
      <3>1. PICK env \in Envelopes \ {Ok} : n = [Settle(c, env) EXCEPT !.gated = TRUE]
        BY <2>2
      <3>2. n = [k EXCEPT !.pc = "receipt", !.env = env, !.gated = TRUE]
        BY <1>1, <3>1 DEF Settle, CallRec
      <3> QED
        BY <1>1, <1>4, <2>2, <3>2
           DEF CallRec, Guarded, Deciding, CallInv, NoOutcome, NoReceipt, NoAnswer,
               PastGates, PassIsPosture, RanIsVetted, Vetted, ReceiptTells, RaisedIsLoss,
               RowOrRaise, AnswerIsRecorded
    <2>3. CASE n = [k EXCEPT !.pc = "credentials"] /\ (Hosted => ~k.posture)
      BY <1>1, <1>4, <2>3
         DEF CallRec, Guarded, Deciding, CallInv, NoOutcome, NoReceipt, NoAnswer,
             PastGates, PassIsPosture, RanIsVetted, Vetted, ReceiptTells, RaisedIsLoss,
             RowOrRaise, AnswerIsRecorded
    <2>4. CASE /\ n = [k EXCEPT !.pc = "credentials", !.gated = TRUE, !.held = TRUE]
               /\ k.posture /\ Resolves /\ "scope" \notin k.faults
      BY <1>1, <1>4, <2>4
         DEF CallRec, Guarded, Deciding, CallInv, NoOutcome, NoReceipt, NoAnswer,
             PastGates, PassIsPosture, RanIsVetted, Vetted, ReceiptTells, RaisedIsLoss,
             RowOrRaise, AnswerIsRecorded
    <2> QED BY <1>4, <2>1, <2>2, <2>3, <2>4
  <1> QED BY <1>4, <1>5, Kept

\* The statement runs, or the child that would have run it is lost: what was
\* sent had passed every gate.
LEMMA RunSteps == ASSUME IInv, NEW c \in Calls, ExecuteBounded(c) \/ ChildLost(c) PROVE IInv'
  <1> DEFINE k == call[c]
  <1>1. k \in CallRec /\ CallInv(k)
    BY Here
  <1>2. {Ok, Failed, Refused("resource_limit")} \subseteq Envelopes
    BY EnvelopeFacts DEF Rules
  <1>3. PICK env \in Envelopes, ran \in BOOLEAN :
            /\ call' = [call EXCEPT ![c] = [k EXCEPT !.pc = "receipt", !.env = env, !.ran = ran]]
            /\ UNCHANGED <<site, store, disk, enforced>>
            /\ k.pc \in Guarded /\ (ran => k.pc = "execute") /\ (env = Ok => ran)
    <2>1. \A env \in Envelopes, ran \in BOOLEAN :
             /\ [Settle(c, env) EXCEPT !.ran = ran]
                   = [k EXCEPT !.pc = "receipt", !.env = env, !.ran = ran]
             /\ k.ran = ran => Settle(c, env) = [k EXCEPT !.pc = "receipt", !.env = env, !.ran = ran]
      BY <1>1 DEF Settle, CallRec
    <2>2. CASE ExecuteBounded(c)
      <3>1. CASE \E env \in {Ok, Failed, Refused("resource_limit")} :
                    At(c, "execute", [Settle(c, env) EXCEPT !.ran = TRUE])
        <4>1. PICK env \in {Ok, Failed, Refused("resource_limit")} :
                    At(c, "execute", [Settle(c, env) EXCEPT !.ran = TRUE])
          BY <3>1
        <4>2. env \in Envelopes /\ TRUE \in BOOLEAN
          BY <1>2, <4>1
        <4>3. [Settle(c, env) EXCEPT !.ran = TRUE] = [k EXCEPT !.pc = "receipt", !.env = env, !.ran = TRUE]
          BY <2>1, <4>2
        <4> QED BY <4>1, <4>2, <4>3 DEF At, Guarded
      <3>2. CASE \E env \in {Failed, Refused("resource_limit")} : At(c, "execute", Settle(c, env))
        <4>1. PICK env \in {Failed, Refused("resource_limit")} : At(c, "execute", Settle(c, env))
          BY <3>2
        <4>2. k.pc = "execute"
          BY <4>1 DEF At
        <4>3. k.ran = FALSE
          BY <1>1, <4>2 DEF CallInv, NoOutcome, Deciding, Guarded, CallRec
        <4>4. env # Ok
          BY <4>1, EnvelopeFacts DEF Rules
        <4>5. Settle(c, env) = [k EXCEPT !.pc = "receipt", !.env = env, !.ran = FALSE]
          BY <1>2, <2>1, <4>1, <4>3
        <4> QED BY <1>2, <4>1, <4>2, <4>4, <4>5 DEF At, Guarded
      <3> QED BY <2>2, <3>1, <3>2 DEF ExecuteBounded
    <2>3. CASE ChildLost(c)
      <3>1. PICK sent \in {FALSE, k.pc = "execute"} :
                At(c, k.pc, [Settle(c, Failed) EXCEPT !.ran = sent])
        BY <2>3 DEF ChildLost
      <3>2. sent \in BOOLEAN /\ (sent => k.pc = "execute")
        BY <3>1
      <3>3. k.pc \in Guarded
        BY <2>3 DEF ChildLost
      <3>4. [Settle(c, Failed) EXCEPT !.ran = sent]
              = [k EXCEPT !.pc = "receipt", !.env = Failed, !.ran = sent]
        BY <1>2, <2>1, <3>2
      <3> QED BY <1>2, <3>1, <3>2, <3>3, <3>4, EnvelopeFacts DEF At
    <2> QED BY <2>2, <2>3
  <1> DEFINE n == [k EXCEPT !.pc = "receipt", !.env = env, !.ran = ran]
  <1>4. n \in CallRec
    BY <1>1, <1>3 DEF CallRec
  <1>5. CallInv(n)
    BY <1>1, <1>3
       DEF CallRec, Guarded, Deciding, CallInv, NoOutcome, NoReceipt, NoAnswer,
           PastGates, PassIsPosture, RanIsVetted, Vetted, ReceiptTells, RaisedIsLoss,
           RowOrRaise, AnswerIsRecorded
  <1> QED BY <1>3, <1>4, <1>5, Kept

\* The receipt, the query row and the tool row.
LEMMA AuditSteps ==
    ASSUME IInv, NEW c \in Calls, Receipt(c) \/ Emit(c) \/ RecordToolCall(c)
    PROVE  IInv'
  <1> DEFINE k == call[c]
  <1>1. k \in CallRec /\ CallInv(k)
    BY Here
  <1>2. CASE Receipt(c)
    <2>1. PICK said \in {"before_model", "no_statement", "disabled", "no_model", "assembled"} :
              /\ call' = [call EXCEPT ![c] = [k EXCEPT !.pc = "emit", !.receipt = said]]
              /\ UNCHANGED <<site, store, disk, enforced>> /\ k.pc = "receipt"
              /\ k.env.rule \notin PreModelRules /\ "empty" \notin k.faults =>
                    (said = "disabled" <=> ~k.posture)
      <3>1. PICK model \in {"no_model", "assembled"} :
                At(c, "receipt", [To(c, "emit") EXCEPT !.receipt =
                   IF k.env.rule \in PreModelRules THEN "before_model"
                   ELSE IF "empty" \in k.faults THEN "no_statement"
                   ELSE IF ~k.posture THEN "disabled" ELSE model])
        BY <1>2 DEF Receipt
      <3>2. \A r : [To(c, "emit") EXCEPT !.receipt = r] = [k EXCEPT !.pc = "emit", !.receipt = r]
        BY <1>1 DEF To, CallRec
      <3> QED BY <1>1, <3>1, <3>2, ZenonT(30) DEF At, CallRec
    <2> DEFINE n == [k EXCEPT !.pc = "emit", !.receipt = said]
    <2>2. n \in CallRec
      BY <1>1, <2>1 DEF CallRec
    <2>3. ReceiptTells(n)
      BY <1>1, <2>1, EnvelopeFacts DEF CallRec, CallInv, RanIsVetted, Vetted, PassIsPosture, ReceiptTells
    <2>4. CallInv(n)
      BY <1>1, <2>1, <2>3
         DEF CallRec, Guarded, Deciding, CallInv, NoOutcome, NoReceipt, NoAnswer, PastGates, PassIsPosture,
             RanIsVetted, Vetted, RaisedIsLoss, RowOrRaise, AnswerIsRecorded
    <2> QED BY <2>1, <2>2, <2>4, Kept
  <1>3. CASE Emit(c)
    <2>1. PICK n : /\ call' = [call EXCEPT ![c] = n] /\ UNCHANGED <<site, store, disk, enforced>>
                   /\ k.pc = "emit"
                   /\ \/ n = [k EXCEPT !.pc = "record"] /\ k.env.rule = "audit_unavailable"
                      \/ n = [k EXCEPT !.pc = "record", !.row = k.env]
                      \/ n = [k EXCEPT !.pc = "record", !.raised = Hosted] /\ k.env.rule # "audit_unavailable"
      BY <1>1, <1>3 DEF Emit, At, To, CallRec
    <2>2. Hosted \in BOOLEAN /\ store \in BOOLEAN
      BY DEF IInv, TypeOK, Hosted
    <2>3. CASE n = [k EXCEPT !.pc = "record"] /\ k.env.rule = "audit_unavailable"
      <3>1. n \in CallRec
        BY <1>1, <2>2, <2>3 DEF CallRec
      <3>2. CallInv(n)
        BY <1>1, <2>1, <2>2, <2>3
         DEF CallRec, Guarded, Deciding, CallInv, NoOutcome, NoReceipt, NoAnswer, PastGates,
             PassIsPosture, RanIsVetted, Vetted, ReceiptTells, RaisedIsLoss, RowOrRaise,
             AnswerIsRecorded
      <3> QED BY <2>1, <3>1, <3>2, Kept
    <2>4. CASE n = [k EXCEPT !.pc = "record", !.row = k.env]
      <3>1. n \in CallRec
        BY <1>1, <2>2, <2>4 DEF CallRec
      <3>2. CallInv(n)
        BY <1>1, <2>1, <2>2, <2>4
         DEF CallRec, Guarded, Deciding, CallInv, NoOutcome, NoReceipt, NoAnswer, PastGates,
             PassIsPosture, RanIsVetted, Vetted, ReceiptTells, RaisedIsLoss, RowOrRaise,
             AnswerIsRecorded
      <3> QED BY <2>1, <3>1, <3>2, Kept
    <2>5. CASE n = [k EXCEPT !.pc = "record", !.raised = Hosted] /\ k.env.rule # "audit_unavailable"
      <3>1. n \in CallRec
        BY <1>1, <2>2, <2>5 DEF CallRec
      <3>2. CallInv(n)
        BY <1>1, <2>1, <2>2, <2>5
         DEF CallRec, Guarded, Deciding, CallInv, NoOutcome, NoReceipt, NoAnswer, PastGates,
             PassIsPosture, RanIsVetted, Vetted, ReceiptTells, RaisedIsLoss, RowOrRaise,
             AnswerIsRecorded
      <3> QED BY <2>1, <3>1, <3>2, Kept
    <2> QED BY <2>1, <2>3, <2>4, <2>5
  <1>4. CASE RecordToolCall(c)
    <2>1. PICK n : /\ call' = [call EXCEPT ![c] = n] /\ UNCHANGED <<site, store, disk, enforced>>
                   /\ k.pc = "record"
                   /\ \/ n = [k EXCEPT !.pc = "done", !.answer = "gone"]
                      \/ n = [k EXCEPT !.pc = "done", !.answer = "envelope"] /\ k.env.rule = "audit_unavailable"
                      \/ /\ n = [k EXCEPT !.pc = "done", !.toolRow = store, !.answer = "error"]
                         /\ k.raised \/ (Hosted /\ ~store)
                         /\ k.env.rule # "audit_unavailable" \/ k.raised
                      \/ /\ n = [k EXCEPT !.pc = "done", !.toolRow = store, !.answer = "envelope"]
                         /\ ~k.raised /\ (Hosted => store)
      BY <1>1, <1>4 DEF RecordToolCall, At, To, CallRec
    <2>2. Hosted \in BOOLEAN /\ store \in BOOLEAN
      BY DEF IInv, TypeOK, Hosted
    <2>3. CASE n = [k EXCEPT !.pc = "done", !.answer = "gone"]
      <3>1. n \in CallRec
        BY <1>1, <2>2, <2>3 DEF CallRec
      <3>2. CallInv(n)
        BY <1>1, <2>1, <2>2, <2>3
         DEF CallRec, Guarded, Deciding, CallInv, NoOutcome, NoReceipt, NoAnswer, PastGates,
             PassIsPosture, RanIsVetted, Vetted, ReceiptTells, RaisedIsLoss, RowOrRaise,
             AnswerIsRecorded
      <3> QED BY <2>1, <3>1, <3>2, Kept
    <2>4. CASE n = [k EXCEPT !.pc = "done", !.answer = "envelope"] /\ k.env.rule = "audit_unavailable"
      <3>1. n \in CallRec
        BY <1>1, <2>2, <2>4 DEF CallRec
      <3>2. CallInv(n)
        BY <1>1, <2>1, <2>2, <2>4
         DEF CallRec, Guarded, Deciding, CallInv, NoOutcome, NoReceipt, NoAnswer, PastGates,
             PassIsPosture, RanIsVetted, Vetted, ReceiptTells, RaisedIsLoss, RowOrRaise,
             AnswerIsRecorded
      <3> QED BY <2>1, <3>1, <3>2, Kept
    <2>5. CASE /\ n = [k EXCEPT !.pc = "done", !.toolRow = store, !.answer = "error"]
               /\ k.raised \/ (Hosted /\ ~store)
               /\ k.env.rule # "audit_unavailable" \/ k.raised
      <3>1. n \in CallRec
        BY <1>1, <2>2, <2>5 DEF CallRec
      <3>2. CallInv(n)
        BY <1>1, <2>1, <2>2, <2>5
         DEF CallRec, Guarded, Deciding, CallInv, NoOutcome, NoReceipt, NoAnswer, PastGates,
             PassIsPosture, RanIsVetted, Vetted, ReceiptTells, RaisedIsLoss, RowOrRaise,
             AnswerIsRecorded
      <3> QED BY <2>1, <3>1, <3>2, Kept
    <2>6. CASE /\ n = [k EXCEPT !.pc = "done", !.toolRow = store, !.answer = "envelope"]
               /\ ~k.raised /\ (Hosted => store)
      <3>1. n \in CallRec
        BY <1>1, <2>2, <2>6 DEF CallRec
      <3>2. CallInv(n)
        BY <1>1, <2>1, <2>2, <2>6
         DEF CallRec, Guarded, Deciding, CallInv, NoOutcome, NoReceipt, NoAnswer, PastGates,
             PassIsPosture, RanIsVetted, Vetted, ReceiptTells, RaisedIsLoss, RowOrRaise,
             AnswerIsRecorded
      <3> QED BY <2>1, <3>1, <3>2, Kept
    <2> QED BY <2>1, <2>3, <2>4, <2>5, <2>6
  <1> QED BY <1>2, <1>3, <1>4

\* A call arrives, gets no worker, or is cancelled.
LEMMA ClientSteps ==
    ASSUME IInv, NEW c \in Calls, Arrive(c) \/ NeverStarts(c) \/ Cancel(c)
    PROVE  IInv'
  <1> DEFINE k == call[c]
  <1>1. k \in CallRec /\ CallInv(k)
    BY Here
  <1>2. CASE Arrive(c)
    <2>1. PICK faults \in SUBSET Faults :
              At(c, "idle", [Fresh EXCEPT !.pc = "edge", !.faults = faults,
                                          !.posture = enforced \/ ~Hosted])
      BY <1>2 DEF Arrive
    <2> DEFINE n == [Fresh EXCEPT !.pc = "edge", !.faults = faults, !.posture = enforced \/ ~Hosted]
    <2>2. (enforced \/ ~Hosted) \in BOOLEAN
      OBVIOUS
    <2>3. n \in CallRec /\ CallInv(n)
      BY <2>1, <2>2, EnvelopeFacts
         DEF Fresh, CallRec, Guarded, Deciding, CallInv, NoOutcome, NoReceipt, NoAnswer,
             PastGates, PassIsPosture, RanIsVetted, Vetted, ReceiptTells, RaisedIsLoss,
             RowOrRaise, AnswerIsRecorded
    <2> QED BY <2>1, <2>3, Kept DEF At
  <1>3. CASE NeverStarts(c)
    <2> DEFINE n == [k EXCEPT !.pc = "done", !.answer = "gone"]
    <2>1. call' = [call EXCEPT ![c] = n] /\ UNCHANGED <<site, store, disk, enforced>> /\ k.pc = "edge"
      BY <1>3 DEF NeverStarts, At, To
    <2>2. n \in CallRec /\ CallInv(n)
      BY <1>1, <2>1
         DEF CallRec, Guarded, Deciding, CallInv, NoOutcome, NoReceipt, NoAnswer,
             PastGates, PassIsPosture, RanIsVetted, Vetted, ReceiptTells, RaisedIsLoss,
             RowOrRaise, AnswerIsRecorded
    <2> QED BY <2>1, <2>2, Kept
  <1>4. CASE Cancel(c)
    <2> DEFINE n == [k EXCEPT !.cancelled = TRUE]
    <2>1. call' = [call EXCEPT ![c] = n] /\ UNCHANGED <<site, store, disk, enforced>>
      BY <1>4 DEF Cancel
    <2>2. n \in CallRec
      BY <1>1 DEF CallRec
    <2>3. NoOutcome(n) /\ NoReceipt(n) /\ NoAnswer(n) /\ PastGates(n)
      BY <1>1 DEF CallRec, CallInv, NoOutcome, NoReceipt, NoAnswer, PastGates
    <2>4. PassIsPosture(n) /\ RanIsVetted(n) /\ ReceiptTells(n)
      BY <1>1 DEF CallRec, CallInv, PassIsPosture, RanIsVetted, Vetted, ReceiptTells
    <2>5. RaisedIsLoss(n) /\ RowOrRaise(n) /\ AnswerIsRecorded(n)
      BY <1>1 DEF CallRec, CallInv, RaisedIsLoss, RowOrRaise, AnswerIsRecorded
    <2>6. CallInv(n)
      BY <2>3, <2>4, <2>5 DEF CallInv
    <2> QED BY <2>1, <2>2, <2>6, Kept
  <1> QED BY <1>2, <1>3, <1>4

\* The operator flips the switch, or nothing happens.
LEMMA Around ==
    ASSUME IInv, UNCHANGED <<site, store, disk, call>>, enforced' \in BOOLEAN
    PROVE  IInv'
  BY DEF IInv, TypeOK, Hosted, Resolves, CallInv, NoOutcome, NoReceipt, NoAnswer, PastGates,
         PassIsPosture, RanIsVetted, Vetted, ReceiptTells, RaisedIsLoss, RowOrRaise, AnswerIsRecorded

\* The store or the files come or go: a call that waits for its engine to be
\* compared has held a model only if it can read one still.
LEMMA Noticed ==
    ASSUME IInv, StoreFlips \/ DiskFlips
    PROVE  IInv'
  <1> DEFINE after(k) == IF k.pc \in {"credentials", "engine"}
                         THEN [k EXCEPT !.held = @ /\ Resolves'] ELSE k
  <1>1. /\ call' = [d \in Calls |-> after(call[d])]
        /\ site' = site /\ enforced' = enforced /\ store' \in BOOLEAN /\ disk' \in BOOLEAN
    BY DEF StoreFlips, DiskFlips, Notice, IInv, TypeOK
  <1>2. Hosted' = Hosted /\ Resolves' \in BOOLEAN
    BY <1>1 DEF Hosted, Resolves, IInv, TypeOK
  <1>3. ASSUME NEW d \in Calls
        PROVE  call'[d] \in CallRec /\ CallInv(call[d])'
    <2> DEFINE k == call[d]
               n == [k EXCEPT !.held = @ /\ Resolves']
    <2>1. k \in CallRec /\ CallInv(k) /\ call'[d] = after(k)
      BY <1>1, Here
    <2>2. CASE k.pc \notin {"credentials", "engine"}
      <3>1. call'[d] = k
        BY <2>1, <2>2
      <3> QED BY <1>2, <2>1, <2>2, <3>1
              DEF CallInv, NoOutcome, NoReceipt, NoAnswer, PastGates, PassIsPosture, RanIsVetted,
                  Vetted, ReceiptTells, RaisedIsLoss, RowOrRaise, AnswerIsRecorded
    <2>3. CASE k.pc \in {"credentials", "engine"}
      <3>1. call'[d] = n
        BY <2>1, <2>3
      <3>2. (k.held /\ Resolves') \in BOOLEAN
        OBVIOUS
      <3>3. /\ n \in CallRec /\ n.held = (k.held /\ Resolves') /\ n.pc = k.pc
            /\ n.faults = k.faults /\ n.posture = k.posture /\ n.gated = k.gated
            /\ n.probed = k.probed /\ n.ran = k.ran /\ n.env = k.env /\ n.receipt = k.receipt
            /\ n.raised = k.raised /\ n.row = k.row /\ n.toolRow = k.toolRow /\ n.answer = k.answer
        BY <2>1, <3>2 DEF CallRec
      <3>4. ~k.ran
        BY <2>1, <2>3 DEF CallInv, NoOutcome, Deciding, Guarded
      <3> HIDE DEF n
      <3> QED BY <1>2, <2>1, <2>3, <3>1, <3>3, <3>4
              DEF CallInv, NoOutcome, NoReceipt, NoAnswer, PastGates, PassIsPosture, RanIsVetted,
                  Vetted, ReceiptTells, RaisedIsLoss, RowOrRaise, AnswerIsRecorded
    <2> QED BY <2>2, <2>3
  <1>4. TypeOK'
    <2>1. call' \in [Calls -> CallRec]
      BY <1>1, <1>3
    <2> QED BY <1>1, <2>1 DEF IInv, TypeOK, CallRec
  <1> QED BY <1>3, <1>4 DEF IInv

LEMMA InvStep == IInv /\ [Next]_vars => IInv'
  <1> SUFFICES ASSUME IInv, [Next]_vars PROVE IInv'
    OBVIOUS
  <1>1. enforced \in BOOLEAN
    BY DEF IInv, TypeOK
  <1>2. ASSUME NEW c \in Calls, Arrive(c) \/ Cancel(c) \/ Step(c) PROVE IInv'
    BY <1>2, GateSteps, ModelStep, RunSteps, AuditSteps, ClientSteps DEF Step
  <1>3. CASE StoreFlips \/ DiskFlips
    BY <1>3, Noticed
  <1>4. CASE SwitchFlips \/ UNCHANGED vars
    BY <1>1, <1>4, Around DEF SwitchFlips, vars
  <1> QED BY <1>2, <1>3, <1>4 DEF Next

\* Every variable keeps its type.
THEOREM TypeCorrect == Spec => []TypeOK
  <1>1. IInv => TypeOK
    BY DEF IInv
  <1> QED BY <1>1, InitInv, InvStep, PTL DEF Spec

\* Nothing is sent to the warehouse that a gate refuses, save a statement in
\* another engine's grammar whose model was lost between the pass and the
\* comparison, and the receipt of what ran tells the posture it ran under
\* (execute_guarded, _engine_mismatch, _pin_model_pass_posture).
THEOREM OnlyVettedRuns == Spec => []NothingRunsUnvetted
  <1>1. IInv => NothingRunsUnvetted
    BY DEF IInv, CallInv, RanIsVetted, Vetted, ReceiptTells, NothingRunsUnvetted
  <1> QED BY <1>1, InitInv, InvStep, PTL DEF Spec

\* Served, an answer reaches its caller with its query row and its tool row, and
\* a refusal for want of a store reaches it too (_emit, _call_tool).
THEOREM AnswersAreRecorded == Spec => []NoAnswerUnrecorded
  <1>1. IInv => NoAnswerUnrecorded
    BY DEF IInv, CallInv, AnswerIsRecorded, NoAnswerUnrecorded, Answered
  <1> QED BY <1>1, InitInv, InvStep, PTL DEF Spec

-----------------------------------------------------------------------------
(* The row of a call.  All three accounts are data: the cases are who      *)
(* spoke, and whether the handler raised.                                  *)

\* What the verdict v of a row says of the handling h.
Told(v, h) ==
    /\ v.success <=> ~h.raised /\ h.body.status \in {"ok", "none"}
    /\ ~h.raised => /\ v.kind = h.body.why
                    /\ v.sentences = IF h.body.status = "refused" THEN h.body.why ELSE "none"
    /\ h.raised => /\ v.kind \in (IF h.published = "own" THEN {h.body.why} ELSE {}) \cup {"exception"}
                   /\ v.kind # "none" /\ v.sentences = "none"


\* A row over HTTP tells its own call, whatever its context held before.
LEMMA RowIsTheCalls ==
    ASSUME NEW inherited, NEW h \in Recording!Handlings
    PROVE  Recording!TransportRowIsTheCalls(inherited, h)
  <1> DEFINE ctx == Recording!ContextAfter(inherited, h)
             stated == Recording!TypedOutcomeOverrides(ctx)
             derived == Recording!Derived(h.body, h.raised)
             said == Recording!Overridden(derived, stated)
             v == Recording!RowVerdict(h.body, h.raised, stated)
  <1>1. /\ h.raised \in BOOLEAN
        /\ h.body \in Recording!Outcomes \cup Recording!Replies
        /\ h.published \in {"own", "nothing"}
        /\ h.published = "own" => h.body \in Recording!Outcomes
    BY DEF Recording!Handlings
  <1>2. ctx = [outcome |-> IF h.published = "own" THEN h.body ELSE Recording!Silent,
               resolved |-> h.resolved]
    BY DEF Recording!ContextAfter, Recording!ResetContext, Recording!Empty, Recording!Context, Recording!NoSource
  <1>3. \A o \in Recording!Outcomes \cup Recording!Replies :
            /\ o = [status |-> o.status, why |-> o.why]
            /\ o.status \in {"none", "ok", "refused", "failed", "error"}
            /\ o.status \in {"none", "ok"} <=> o.why = "none"
            /\ o = Recording!Silent <=> o.status = "none"
            /\ o = Recording!Ok <=> o.status = "ok"
    BY LogsAssumption DEF Recording!Outcomes, Recording!Replies, Recording!Ok, Recording!Silent
  <1> DEFINE body == h.body
  <1>4. stated = IF h.published = "nothing" THEN Recording!NothingStated
                 ELSE IF body.status = "ok" THEN Recording!Stated("yes", "none")
                 ELSE Recording!Stated("no", body.why)
    <2> HIDE DEF ctx
    <2>1. ctx.outcome = IF h.published = "own" THEN body ELSE Recording!Silent
      BY <1>2
    <2>2. h.published = "own" => body # Recording!Silent /\ (body = Recording!Ok <=> body.status = "ok")
      BY <1>1, <1>3 DEF Recording!Outcomes, Recording!Ok, Recording!Silent
    <2> QED BY <1>1, <2>1, <2>2 DEF Recording!TypedOutcomeOverrides
  <1> HIDE DEF ctx, stated, derived
  <1>5. /\ stated = [success |-> stated.success, kind |-> stated.kind]
        /\ h.published = "nothing" => stated = Recording!NothingStated
        /\ h.published = "own" /\ h.body.status = "ok" =>
              stated # Recording!NothingStated /\ stated.success = "yes" /\ stated.kind = "none"
        /\ h.published = "own" /\ h.body.status # "ok" =>
              stated # Recording!NothingStated /\ stated.success = "no" /\ stated.kind = h.body.why
    BY <1>1, <1>4 DEF Recording!NothingStated, Recording!Stated, Recording!Unsaid
  <1>6. /\ h.raised => derived.success = FALSE /\ derived.kind = "exception" /\ derived.sentences = "none"
        /\ ~h.raised => /\ (derived.success <=> h.body.status \in {"ok", "none"})
                        /\ derived.kind = h.body.why
                        /\ derived.sentences = IF h.body.status = "refused" THEN h.body.why ELSE "none"
    <2>1. h.body.status \in {"ok", "none"} => h.body.why = "none"
      BY <1>1, <1>3
    <2>2. CASE h.raised
      BY <2>2 DEF derived, Recording!Derived, Recording!Verdict
    <2>3. CASE ~h.raised /\ h.body.status \in {"ok", "none"}
      <3>1. derived = [success |-> TRUE, kind |-> "none", sentences |-> "none"]
        BY <2>3 DEF derived, Recording!Derived, Recording!Verdict
      <3> QED BY <2>1, <2>3, <3>1
    <2>4. CASE ~h.raised /\ h.body.status \notin {"ok", "none"}
      <3>1. derived = [success |-> FALSE, kind |-> h.body.why,
                       sentences |-> IF h.body.status = "refused" THEN h.body.why ELSE "none"]
        BY <2>4 DEF derived, Recording!Derived, Recording!Verdict
      <3> QED BY <2>4, <3>1
    <2> QED BY <1>1, <2>2, <2>3, <2>4
  <1>7. /\ h.published = "nothing" => said = derived
        /\ h.published = "own" /\ h.body.status = "ok" =>
              said.success = TRUE /\ said.kind = "none" /\ said.sentences = "none"
        /\ h.published = "own" /\ h.body.status # "ok" =>
              /\ said.success = FALSE /\ said.kind = h.body.why
              /\ said.sentences = IF h.body.why # derived.sentences THEN "none" ELSE derived.sentences
    BY <1>1, <1>5 DEF Recording!Overridden, Recording!Verdict, Recording!Unsaid
  <1>8. v = IF ~h.raised THEN said
            ELSE Recording!Verdict(FALSE,
                    IF (IF stated.kind # "none" THEN stated.kind ELSE said.kind) = "none" THEN "exception"
                    ELSE IF stated.kind # "none" THEN stated.kind ELSE said.kind, said.sentences)
    BY DEF Recording!RowVerdict, derived
  <1> HIDE DEF said, v
  <1>9. ASSUME ~h.raised PROVE Told(v, h)
    <2>1. /\ v.success <=> h.body.status \in {"ok", "none"}
          /\ v.kind = h.body.why
          /\ v.sentences = IF h.body.status = "refused" THEN h.body.why ELSE "none"
      BY <1>1, <1>3, <1>6, <1>7, <1>8, <1>9 DEF Recording!Outcomes, Recording!Ok
    <2> QED BY <1>9, <2>1, Zenon DEF Told
  <1>10. ASSUME h.raised PROVE Told(v, h)
    <2>1. said.sentences = "none" /\ said.kind \in {"exception", h.body.why, "none"}
          /\ (h.published = "nothing" => said.kind = "exception")
      BY <1>1, <1>6, <1>7, <1>10
    <2>2. stated.kind \in {"none", h.body.why}
          /\ (h.published = "nothing" => stated.kind = "none")
      BY <1>1, <1>5 DEF Recording!NothingStated, Recording!Stated
    <2> DEFINE kept == IF stated.kind # "none" THEN stated.kind ELSE said.kind
    <2>3. v = [success |-> FALSE, kind |-> IF kept = "none" THEN "exception" ELSE kept,
               sentences |-> said.sentences]
      BY <1>8, <1>10 DEF Recording!Verdict
    <2>5. kept \in {"exception", h.body.why, "none"} /\ (h.published = "nothing" => kept = "exception")
      BY <2>1, <2>2
    <2> HIDE DEF kept
    <2>6. v.success = FALSE /\ v.sentences = "none" /\ v.kind = IF kept = "none" THEN "exception" ELSE kept
      BY <2>1, <2>3
    <2>4. /\ v.success = FALSE /\ v.sentences = "none" /\ v.kind # "none"
          /\ v.kind \in {"exception", h.body.why}
          /\ h.published = "nothing" => v.kind = "exception"
      BY <2>5, <2>6
    <2> QED BY <1>1, <1>10, <2>4, Zenon DEF Told
  <1>11. Told(v, h)
    BY <1>1, <1>9, <1>10
  <1>12. Recording!TransportRow(inherited, h) = [verdict |-> v, datasource |-> ctx.resolved]
    BY DEF Recording!TransportRow, v, stated, ctx
  <1>13. /\ Recording!TransportRow(inherited, h).verdict = v
         /\ Recording!TransportRow(inherited, h).datasource = h.resolved
    BY <1>2, <1>12
  <1> QED BY <1>11, <1>13 DEF Recording!TransportRowIsTheCalls, Told

\* A row never contradicts itself, whatever an embedder states.
LEMMA StatementsContradictNothing ==
    ASSUME NEW body \in Recording!Outcomes \cup Recording!Replies, NEW raised \in BOOLEAN,
           NEW stated \in Recording!Statements
    PROVE  Recording!NoStatementContradicts(body, raised, stated)
  <1> DEFINE derived == Recording!Derived(body, raised)
             said == Recording!Overridden(derived, stated)
             v == Recording!RowVerdict(body, raised, stated)
  <1>1. /\ body = [status |-> body.status, why |-> body.why]
        /\ body.status \in {"none", "ok"} => body.why = "none"
        /\ body.status \notin {"none", "ok"} => body.why # "none"
    BY LogsAssumption DEF Recording!Outcomes, Recording!Replies, Recording!Ok, Recording!Silent
  <1>2. /\ stated = [success |-> stated.success, kind |-> stated.kind]
        /\ stated.success \in {"unsaid", "yes", "no"}
    BY DEF Recording!Statements, Recording!Unsaid
  <1>3. /\ derived.success => derived.kind = "none"
        /\ derived.sentences # "none" =>
              derived.kind = derived.sentences /\ body.why = derived.sentences /\ ~raised
        /\ raised => derived.success = FALSE /\ derived.sentences = "none" /\ derived.kind = "exception"
    <2>1. CASE raised
      BY <2>1 DEF Recording!Derived, Recording!Verdict
    <2>2. CASE ~raised /\ body.status \in {"ok", "none"}
      BY <2>2 DEF Recording!Derived, Recording!Verdict
    <2>3. CASE ~raised /\ body.status \notin {"ok", "none"}
      BY <2>3 DEF Recording!Derived, Recording!Verdict
    <2> QED BY <2>1, <2>2, <2>3
  <1> HIDE DEF derived
  <1>4. CASE stated = Recording!NothingStated
    <2>1. said = derived /\ stated.kind = "none" /\ stated.success = "unsaid"
      BY <1>4 DEF Recording!Overridden, Recording!NothingStated, Recording!Stated, Recording!Unsaid
    <2>2. v = IF ~raised THEN derived
              ELSE Recording!Verdict(FALSE, IF derived.kind = "none" THEN "exception" ELSE derived.kind,
                                     derived.sentences)
      BY <2>1 DEF Recording!RowVerdict, derived
    <2> HIDE DEF v, said
    <2>3. CASE ~raised
      BY <1>3, <2>1, <2>2, <2>3 DEF Recording!NoStatementContradicts, v
    <2>4. CASE raised
      <3>1. v = [success |-> FALSE, kind |-> "exception", sentences |-> "none"]
        BY <1>3, <2>2, <2>4 DEF Recording!Verdict
      <3>2. v.success = FALSE /\ v.kind = "exception" /\ v.sentences = "none"
        BY <3>1
      <3> QED BY <2>4, <3>2, Zenon DEF Recording!NoStatementContradicts, v
    <2> QED BY <2>3, <2>4
  <1>5. CASE stated # Recording!NothingStated
    <2> DEFINE success == IF stated.success = "unsaid" THEN stated.kind = "none" ELSE stated.success = "yes"
               kind == IF success THEN "none" ELSE stated.kind
               sentences == IF success \/ kind # derived.sentences THEN "none" ELSE derived.sentences
    <2>1. said = [success |-> success, kind |-> kind, sentences |-> sentences]
      BY <1>5 DEF Recording!Overridden, Recording!Verdict, Recording!Unsaid
    <2>2. sentences # "none" => kind = sentences /\ sentences = derived.sentences /\ ~success
      OBVIOUS
    <2>3. stated.success = "no" \/ (stated.kind # "none" /\ stated.success = "unsaid") => ~success
      BY <1>2
    <2>4. success => kind = "none"
      OBVIOUS
    <2>5. success \in BOOLEAN
      OBVIOUS
    <2> HIDE DEF success, kind, sentences
    <2>6. CASE ~raised
      <3>1. v = [success |-> success, kind |-> kind, sentences |-> sentences]
        BY <2>1, <2>6 DEF Recording!RowVerdict, derived
      <3> HIDE DEF v
      <3> QED
        BY <1>3, <2>2, <2>3, <2>4, <2>6, <3>1 DEF Recording!NoStatementContradicts, v, Recording!Unsaid
    <2>7. CASE raised
      <3>1. sentences = "none"
        BY <1>3, <2>2, <2>7
      <3>2. v = [success |-> FALSE,
                 kind |-> IF (IF stated.kind # "none" THEN stated.kind ELSE kind) = "none" THEN "exception"
                          ELSE IF stated.kind # "none" THEN stated.kind ELSE kind,
                 sentences |-> sentences]
        BY <2>1, <2>7 DEF Recording!RowVerdict, derived, Recording!Verdict
      <3>3. v.success = FALSE /\ v.kind # "none" /\ v.sentences = "none"
        BY <3>1, <3>2
      <3> HIDE DEF v
      <3> QED BY <2>7, <3>3, Zenon DEF Recording!NoStatementContradicts, v
    <2> QED BY <2>6, <2>7
  <1> QED BY <1>4, <1>5

\* The row of a call tells that call's outcome and no other's, and no
\* statement beside it makes it contradict itself (record_tool_call, the
\* finally of _call_tool): for any rules, kinds and datasources.
THEOREM RowsTellTheirCalls == CallsSpec => []RowTellsTheCall
  <1>1. CallsInit => RowTellsTheCall
    <2> SUFFICES ASSUME CallsInit PROVE RowTellsTheCall
      OBVIOUS
    <2>1. CASE what = <<"guarded">> \/ what = <<"conversation">>
      <3>1. what[1] \notin {"row", "stated"}
        BY <2>1
      <3> QED BY <3>1 DEF RowTellsTheCall
    <2>2. ASSUME NEW inherited \in Recording!Inheritable, NEW h \in Recording!Handlings,
                 what = <<"row", inherited, h>>
          PROVE  RowTellsTheCall
      <3>1. what[1] = "row" /\ what[2] = inherited /\ what[3] = h
        BY <2>2
      <3> QED BY <3>1, RowIsTheCalls DEF RowTellsTheCall
    <2>3. ASSUME NEW body \in Recording!Outcomes \cup Recording!Replies, NEW raised \in BOOLEAN,
                 NEW stated \in Recording!Statements, what = <<"stated", body, raised, stated>>
          PROVE  RowTellsTheCall
      <3>1. what[1] = "stated" /\ what[2] = body /\ what[3] = raised /\ what[4] = stated
        BY <2>3
      <3> QED BY <3>1, StatementsContradictNothing DEF RowTellsTheCall
    <2> QED BY <2>1, <2>2, <2>3 DEF CallsInit
  <1>2. RowTellsTheCall /\ [CallsNext]_<<what, vars, logVars>> => RowTellsTheCall'
    <2> SUFFICES ASSUME RowTellsTheCall, what' = what PROVE RowTellsTheCall'
      BY DEF CallsNext
    <2> QED BY DEF RowTellsTheCall
  <1> QED BY <1>1, <1>2, PTL DEF CallsSpec

-----------------------------------------------------------------------------
(* Conversations.                                                          *)
(*                                                                         *)
(* What the rows promise of one conversation holds whatever overlaps; that *)
(* calls without a pause are in one is promised of callers in order only.  *)

InFlight == {c \in Log!Numbers : recorded[c].pc \in {"stamped", "placed"}}
Stamped(r) == r.conversation # Log!Unstamped
Own(p) == {r \in rows : r.caller = p}
Between(p, low, high) == {x \in rows : x.caller = p /\ low <= x.ts /\ x.ts <= high}
Within(k) == {r \in rows : r.conversation = k}

\* A conversation is named after the call that began it, whose row came first.
RowOk(r) ==
    /\ r.caller \in Callers /\ r.actor = Log!Actor(r.caller)
    /\ r.ts \in 0..clock
    /\ Stamped(r) => r.conversation \in Log!Numbers /\ recorded[r.conversation].pc = "done"

\* The call continues a conversation of its caller, no later than the pause.
Continues(c) ==
    /\ signedIn
    /\ \E s \in rows : /\ s.conversation = recorded[c].conversation /\ s.conversation \in Log!Numbers
                       /\ s.caller = recorded[c].caller
                       /\ s.ts <= recorded[c].ts /\ recorded[c].ts <= s.ts + Idle

CallOk(c) ==
    /\ recorded[c].pc \in {"idle", "stamped", "placed", "done"}
    /\ c \in InFlight => /\ recorded[c].caller \in Callers
                         /\ recorded[c].actor = Log!Actor(recorded[c].caller)
                         /\ recorded[c].ts \in 0..clock
    /\ recorded[c].pc = "placed" => recorded[c].conversation = c \/ Continues(c)

LogTypes ==
    /\ clock \in Nat /\ signedIn \in BOOLEAN /\ DOMAIN recorded = Log!Numbers
    /\ \A c \in Log!Numbers : CallOk(c)
    /\ \A r \in rows : RowOk(r)

\* Whatever overlaps: a conversation is one person's, and without a pause.
OnePersons ==
    \A r, s \in rows : r.conversation = s.conversation /\ r # s /\ Stamped(r) =>
        r.caller = s.caller /\ signedIn
Unpaused == \A k \in Log!Numbers : Log!NoPauseWithin(Within(k))

\* Of a caller in order: one call at a time, later than every row there is; no
\* pause separates two rows of different conversations unless a row was before
\* conversations were; and a placed call joins the newest row's conversation or
\* begins one after a pause.
OneAtATime(p) == \A c, d \in InFlight : recorded[c].caller = p /\ recorded[d].caller = p => c = d
Latest(p) ==
    \A c \in InFlight : recorded[c].caller = p =>
        \A r \in Own(p) : r.ts <= recorded[c].ts /\ (Stamped(r) \/ r.ts < recorded[c].ts)
UnstampedFirst(p) == \A r, s \in Own(p) : ~Stamped(r) /\ Stamped(s) => r.ts < s.ts
Together(p) ==
    \A r, s \in Own(p) :
        Stamped(r) /\ Stamped(s) /\ r.ts <= s.ts /\ Log!NoPauseWithin(Between(p, r.ts, s.ts)) =>
            r.conversation = s.conversation
Joins(c) ==
    \E s \in Own(recorded[c].caller) :
        /\ Stamped(s) /\ s.conversation = recorded[c].conversation
        /\ \A r \in Own(recorded[c].caller) : r.ts <= s.ts
Starts(c) == \A r \in Own(recorded[c].caller) : Stamped(r) => r.ts + Idle < recorded[c].ts
PlacedRight(p) ==
    \A c \in InFlight : recorded[c].pc = "placed" /\ recorded[c].caller = p => Joins(c) \/ Starts(c)

InOrder(p) == OneAtATime(p) /\ Latest(p) /\ UnstampedFirst(p) /\ Together(p) /\ PlacedRight(p)
LogInv ==
    /\ LogTypes /\ OnePersons /\ Unpaused
    /\ \A p \in Callers : signedIn /\ p \notin blurred => InOrder(p)

\* Rows with bounded times have a newest one.
LEMMA HasNewest ==
    ASSUME NEW set, set # {}, NEW high \in Nat, \A r \in set : r.ts \in 0..high
    PROVE  \E r \in set : \A s \in set : s.ts <= r.ts
  <1> DEFINE ages == {high - r.ts : r \in set}
  <1>1. ages \subseteq Nat /\ ages # {}
    OBVIOUS
  <1> DEFINE younger == OpToRel(<, Nat)
  <1>2. PICK least \in ages : \A age \in ages : ~(<<age, least>> \in younger)
    <2>1. IsWellFoundedOn(younger, Nat)
      BY NatLessThanWellFounded
    <2> HIDE DEF ages, younger
    <2> QED BY <1>1, <2>1, WFMin, Zenon
  <1>3. \A age \in ages : least <= age
    <2> HIDE DEF ages
    <2>0. least \in Nat /\ \A age \in ages : age \in Nat
      BY <1>1
    <2> SUFFICES ASSUME NEW age \in ages, age < least PROVE FALSE
      BY <2>0
    <2>1. <<age, least>> \in Nat \X Nat
      BY <1>1
    <2>2. <<age, least>> \in younger
      BY <2>1 DEF OpToRel
    <2> QED BY <1>2, <2>2
  <1>4. PICK r \in set : least = high - r.ts
    OBVIOUS
  <1>5. \A s \in set : s.ts <= r.ts
    <2> SUFFICES ASSUME NEW s \in set PROVE s.ts <= r.ts
      OBVIOUS
    <2>1. high - s.ts \in ages
      OBVIOUS
    <2>2. high - r.ts <= high - s.ts
      BY <1>3, <1>4, <2>1
    <2>3. r.ts \in Nat /\ s.ts \in Nat
      OBVIOUS
    <2> QED BY <2>2, <2>3
  <1> QED BY <1>5

\* Without its newest row, a set without a pause has none.
LEMMA PauseStays ==
    ASSUME NEW set, NEW n, n.ts \in Nat, \A r \in set : r.ts \in Nat /\ r.ts <= n.ts,
           Log!NoPauseWithin(set \cup {n})
    PROVE  Log!NoPauseWithin(set)
  BY LogsAssumption DEF Log!NoPauseWithin

\* Nor has it one with a row soon after another.
LEMMA PauseExtends ==
    ASSUME NEW set, NEW n, n.ts \in Nat, \A r \in set : r.ts \in Nat, Log!NoPauseWithin(set),
           NEW s \in set, s.ts <= n.ts, n.ts <= s.ts + Idle
    PROVE  Log!NoPauseWithin(set \cup {n})
  <1> SUFFICES ASSUME NEW r \in set \cup {n}
               PROVE  \/ \A x \in set \cup {n} : r.ts <= x.ts
                      \/ \E x \in set \cup {n} : x.ts < r.ts /\ r.ts - x.ts <= Idle
    BY DEF Log!NoPauseWithin
  <1>1. CASE r \in set
    BY <1>1, LogsAssumption DEF Log!NoPauseWithin
  <1>2. CASE r = n
    BY <1>2, LogsAssumption DEF Log!NoPauseWithin
  <1> QED BY <1>1, <1>2

LEMMA SameTime ==
    ASSUME NEW set, NEW t \in Nat, \A r \in set : r.ts = t
    PROVE  Log!NoPauseWithin(set)
  BY DEF Log!NoPauseWithin

LEMMA LogInitInv == Log!Init => LogInv
  <1> SUFFICES ASSUME Log!Init PROVE LogInv
    OBVIOUS
  <1>1. /\ clock = 0 /\ blurred = {} /\ signedIn \in BOOLEAN
        /\ DOMAIN recorded = Log!Numbers /\ \A c \in Log!Numbers : recorded[c].pc = "idle"
    BY DEF Log!Init
  <1>2. InFlight = {}
    BY <1>1 DEF InFlight
  <1>3. \A r \in rows : /\ r.caller \in Callers /\ r.actor = Log!Actor(r.caller) /\ r.ts = 0
                        /\ r.conversation = Log!Unstamped /\ \A s \in rows : s = r
    BY DEF Log!Init
  <1>4. LogTypes
    BY <1>1, <1>2, <1>3 DEF LogTypes, CallOk, RowOk, Stamped
  <1>5. OnePersons
    BY <1>3 DEF OnePersons, Stamped
  <1>6. Unpaused
    BY <1>3 DEF Unpaused, Within, Log!NoPauseWithin
  <1>7. \A p \in Callers : InOrder(p)
    BY <1>2, <1>3 DEF InOrder, OneAtATime, Latest, UnstampedFirst, Together, PlacedRight, Own, Stamped
  <1> QED BY <1>4, <1>5, <1>6, <1>7 DEF LogInv

\* A call that is stamped or placed: its own record changes.
LEMMA CallMoves ==
    ASSUME LogInv, NEW c \in Log!Numbers, UNCHANGED <<clock, signedIn, rows>>, blurred \subseteq blurred',
           recorded[c].pc # "done", NEW n, recorded' = [recorded EXCEPT ![c] = n],
           n.pc \in {"stamped", "placed"}, n.caller \in Callers, n.actor = Log!Actor(n.caller),
           n.ts \in 0..clock, n.pc = "placed" => n.conversation = c \/ Continues(c)',
           \A p \in Callers : signedIn /\ p \notin blurred' =>
               OneAtATime(p)' /\ Latest(p)' /\ PlacedRight(p)'
    PROVE  LogInv'
  <1>1. /\ DOMAIN recorded' = Log!Numbers /\ recorded'[c] = n
        /\ \A d \in Log!Numbers : d # c => recorded'[d] = recorded[d]
    BY DEF LogInv, LogTypes
  <1>2. \A d \in Log!Numbers : d \in InFlight' <=> d \in InFlight \/ d = c
    BY <1>1 DEF InFlight
  <1>3. \A d \in Log!Numbers : d # c => CallOk(d)'
    BY <1>1 DEF LogInv, LogTypes, CallOk, InFlight, Continues, Log!Actor
  <1>4. CallOk(c)'
    BY <1>1 DEF CallOk, Log!Actor
  <1>5. \A r \in rows : RowOk(r)'
    BY <1>1 DEF LogInv, LogTypes, RowOk, Log!Actor
  <1>6. LogTypes'
    BY <1>1, <1>3, <1>4, <1>5 DEF LogInv, LogTypes
  <1>7. OnePersons' /\ Unpaused'
    BY DEF LogInv, OnePersons, Unpaused, Within
  <1>8. ASSUME NEW p \in Callers, signedIn, p \notin blurred' PROVE InOrder(p)'
    <2>1. UnstampedFirst(p) /\ Together(p)
      BY <1>8 DEF LogInv, InOrder
    <2>2. UnstampedFirst(p)' /\ Together(p)'
      BY <2>1 DEF UnstampedFirst, Together, Own, Stamped, Between
    <2> QED BY <1>8, <2>2 DEF InOrder
  <1> QED BY <1>6, <1>7, <1>8 DEF LogInv

LEMMA TickStep == ASSUME LogInv, Log!Tick PROVE LogInv'
  <1>1. clock' = clock + 1 /\ UNCHANGED <<signedIn, rows, recorded, blurred>> /\ clock \in Nat
    BY DEF Log!Tick, LogInv, LogTypes
  <1>2. InFlight' = InFlight
    BY <1>1 DEF InFlight
  <1>3. LogTypes'
    BY <1>1, <1>2 DEF LogInv, LogTypes, CallOk, RowOk, Continues, Log!Actor
  <1>4. OnePersons' /\ Unpaused'
    BY <1>1 DEF LogInv, OnePersons, Unpaused, Within
  <1>5. ASSUME NEW p \in Callers, InOrder(p) PROVE InOrder(p)'
    <2>1. Own(p)' = Own(p) /\ \A a, b : Between(p, a, b)' = Between(p, a, b)
      BY <1>1 DEF Own, Between
    <2>2. OneAtATime(p)' /\ Latest(p)' /\ UnstampedFirst(p)'
      BY <1>1, <1>2, <1>5, <2>1 DEF InOrder, OneAtATime, Latest, UnstampedFirst, Stamped
    <2>3. Together(p)'
      BY <1>1, <1>5, <2>1 DEF InOrder, Together, Stamped
    <2>4. PlacedRight(p)'
      BY <1>1, <1>2, <1>5 DEF InOrder, PlacedRight, Joins, Starts, Own, Stamped
    <2> QED BY <2>2, <2>3, <2>4 DEF InOrder
  <1> QED BY <1>1, <1>3, <1>4, <1>5 DEF LogInv

LEMMA StampStep == ASSUME LogInv, NEW c \in Log!Numbers, Log!Stamp(c) PROVE LogInv'
  <1>1. PICK caller \in Callers, thread \in Threads, ts \in (clock - Skew)..clock :
          /\ ts >= 0
          /\ recorded' = [recorded EXCEPT ![c] = [pc |-> "stamped", caller |-> caller,
                              actor |-> Log!Actor(caller), thread |-> thread, ts |-> ts]]
          /\ blurred' = IF \/ \E d \in Log!At("stamped") \cup Log!At("placed") : recorded[d].caller = caller
                           \/ \E r \in rows : /\ r.caller = caller
                                              /\ r.ts > ts \/ (r.ts = ts /\ r.conversation = Log!Unstamped)
                        THEN blurred \cup {caller} ELSE blurred
    BY DEF Log!Stamp
  <1>2. recorded[c].pc = "idle" /\ UNCHANGED <<clock, signedIn, rows>> /\ blurred \subseteq blurred'
    BY <1>1 DEF Log!Stamp
  <1> DEFINE n == [pc |-> "stamped", caller |-> caller, actor |-> Log!Actor(caller), thread |-> thread, ts |-> ts]
  <1>3. /\ n.pc = "stamped" /\ n.caller = caller /\ n.actor = Log!Actor(caller) /\ n.ts = ts
        /\ recorded' = [recorded EXCEPT ![c] = n]
    BY <1>1
  <1> HIDE DEF n
  <1>4. ts \in 0..clock
    BY <1>1, LogsAssumption DEF LogInv, LogTypes
  <1>5. /\ recorded'[c] = n /\ \A d \in Log!Numbers : d # c => recorded'[d] = recorded[d]
        /\ \A d \in Log!Numbers : d \in InFlight' <=> d \in InFlight \/ d = c
        /\ InFlight \subseteq Log!Numbers
    BY <1>3 DEF LogInv, LogTypes, InFlight
  <1>6. ASSUME NEW p \in Callers, signedIn, p \notin blurred'
        PROVE  OneAtATime(p)' /\ Latest(p)' /\ PlacedRight(p)'
    <2>1. InOrder(p)
      BY <1>2, <1>6 DEF LogInv
    <2>2. p = caller => /\ \A d \in InFlight : recorded[d].caller # p
                        /\ \A r \in rows : r.caller = p => ~(r.ts > ts \/ (r.ts = ts /\ ~Stamped(r)))
      BY <1>1, <1>6 DEF InFlight, Log!At, Stamped
    <2>3. OneAtATime(p)'
      BY <1>3, <1>5, <2>1, <2>2 DEF InOrder, OneAtATime, InFlight
    <2>4. Latest(p)'
      <3>1. \A r \in rows : r.ts \in Nat
        BY DEF LogInv, LogTypes, RowOk
      <3>2. Own(p)' = Own(p)
        BY <1>2 DEF Own
      <3> SUFFICES ASSUME NEW d \in InFlight', recorded'[d].caller = p, NEW r \in Own(p)
                   PROVE  r.ts <= recorded'[d].ts /\ (Stamped(r) \/ r.ts < recorded'[d].ts)
        BY <3>2 DEF Latest, Stamped
      <3>3. CASE d = c
        BY <1>3, <1>4, <1>5, <2>2, <3>1, <3>3 DEF Own
      <3>4. CASE d # c
        BY <1>5, <2>1, <3>4 DEF InOrder, Latest, InFlight
      <3> QED BY <3>3, <3>4
    <2>5. PlacedRight(p)'
      <3> SUFFICES ASSUME NEW d \in InFlight', recorded'[d].pc = "placed", recorded'[d].caller = p
                   PROVE  Joins(d)' \/ Starts(d)'
        BY DEF PlacedRight
      <3>1. d # c /\ d \in InFlight /\ recorded'[d] = recorded[d]
        BY <1>3, <1>5 DEF InFlight
      <3>2. Joins(d) \/ Starts(d)
        BY <2>1, <3>1 DEF InOrder, PlacedRight
      <3> QED BY <1>2, <3>1, <3>2 DEF Joins, Starts, Own, Stamped
    <2> QED BY <2>3, <2>4, <2>5
  <1> QED BY <1>2, <1>3, <1>4, <1>6, CallMoves

\* What a lookup may find: the caller's own rows, the newest of them.
LEMMA NewestIsOwn ==
    ASSUME LogInv, NEW c \in InFlight, signedIn
    PROVE  /\ Log!Newest(c) = {r \in Own(recorded[c].caller) : \A s \in Own(recorded[c].caller) : s.ts <= r.ts}
           /\ recorded[c].actor # Nobody
           /\ Log!Newest(c) = {} => Own(recorded[c].caller) = {}
  <1> DEFINE p == recorded[c].caller
  <1>1. /\ c \in Log!Numbers /\ p \in Callers /\ recorded[c].actor = p[1]
        /\ \A r \in rows : r.caller \in Callers /\ r.actor = r.caller[1]
    BY DEF LogInv, LogTypes, CallOk, RowOk, InFlight, Log!Actor
  <1>2. \A r \in rows : r.caller[2] = p[2] /\ r.actor = recorded[c].actor <=> r.caller = p
    BY <1>1, LogsAssumption
  <1> DEFINE own == {r \in rows : r.caller[2] = p[2] /\ r.actor = recorded[c].actor}
  <1>3. own = Own(p)
    BY <1>2 DEF Own
  <1>4. Log!Newest(c) = {r \in own : \A s \in own : s.ts <= r.ts}
    BY DEF Log!Newest
  <1> HIDE DEF own
  <1>5. Own(p) # {} => \E r \in Own(p) : \A s \in Own(p) : s.ts <= r.ts
    <2>1. \A r \in Own(p) : r.ts \in 0..clock
      BY DEF Own, LogInv, LogTypes, RowOk
    <2>2. clock \in Nat
      BY DEF LogInv, LogTypes
    <2> HIDE DEF p
    <2> QED BY <2>1, <2>2, HasNewest
  <1> QED BY <1>1, <1>3, <1>4, <1>5, LogsAssumption

LEMMA LookupStep == ASSUME LogInv, NEW c \in Log!Numbers, Log!Lookup(c) PROVE LogInv'
  <1> DEFINE p == recorded[c].caller
             ts == recorded[c].ts
             Found(previous) == /\ recorded[c].actor # Nobody /\ previous \in Log!Newest(c)
  <1>1. recorded[c].pc = "stamped" /\ UNCHANGED <<clock, signedIn, rows>> /\ blurred \subseteq blurred'
    BY DEF Log!Lookup, Log!Place
  <1>2. /\ c \in InFlight /\ p \in Callers /\ recorded[c].actor = Log!Actor(p) /\ ts \in 0..clock
        /\ clock \in Nat
    BY <1>1 DEF LogInv, LogTypes, CallOk, InFlight
  <1>3. \E conversation :
          /\ recorded' = [recorded EXCEPT ![c] =
                 [pc |-> "placed", caller |-> p, actor |-> recorded[c].actor,
                  thread |-> recorded[c].thread, ts |-> ts, conversation |-> conversation]]
          /\ \/ conversation = c /\ (p \in blurred' \/ recorded[c].actor = Nobody \/ Log!Newest(c) = {})
             \/ \E previous \in Log!Newest(c) :
                   recorded[c].actor # Nobody /\ conversation = Log!ConversationIdFor(c, previous)
    BY DEF Log!Lookup, Log!Place
  <1>4. PICK conversation :
          /\ recorded' = [recorded EXCEPT ![c] =
                 [pc |-> "placed", caller |-> p, actor |-> recorded[c].actor,
                  thread |-> recorded[c].thread, ts |-> ts, conversation |-> conversation]]
          /\ \/ conversation = c /\ (p \in blurred' \/ recorded[c].actor = Nobody \/ Log!Newest(c) = {})
             \/ \E previous \in Log!Newest(c) :
                   recorded[c].actor # Nobody /\ conversation = Log!ConversationIdFor(c, previous)
    BY <1>3
  <1> DEFINE n == [pc |-> "placed", caller |-> p, actor |-> recorded[c].actor,
                   thread |-> recorded[c].thread, ts |-> ts, conversation |-> conversation]
  <1>5. /\ n.pc = "placed" /\ n.caller = p /\ n.actor = Log!Actor(n.caller) /\ n.ts = ts
        /\ n.conversation = conversation /\ recorded' = [recorded EXCEPT ![c] = n]
    BY <1>2, <1>4
  <1> HIDE DEF n
  <1>6. /\ recorded'[c] = n /\ \A d \in Log!Numbers : d # c => recorded'[d] = recorded[d]
        /\ \A d \in Log!Numbers : d \in InFlight' <=> d \in InFlight
        /\ InFlight \subseteq Log!Numbers /\ InFlight' \subseteq Log!Numbers
        /\ \A d \in InFlight : recorded'[d].caller = recorded[d].caller /\ recorded'[d].ts = recorded[d].ts
    BY <1>2, <1>5 DEF LogInv, LogTypes, InFlight
  <1>7. \A r \in rows : /\ r.ts \in Nat
                        /\ Stamped(r) => r.conversation \in Log!Numbers
    BY <1>2 DEF LogInv, LogTypes, RowOk, Stamped
  <1>8. \/ conversation = c
        \/ \E s \in Log!Newest(c) : /\ recorded[c].actor # Nobody /\ Stamped(s) /\ conversation = s.conversation
                                    /\ s.ts <= ts /\ ts <= s.ts + Idle
    <2> SUFFICES ASSUME NEW s \in Log!Newest(c), recorded[c].actor # Nobody,
                        conversation = Log!ConversationIdFor(c, s), conversation # c
                 PROVE  Stamped(s) /\ conversation = s.conversation /\ s.ts <= ts /\ ts <= s.ts + Idle
      BY <1>4
    <2>1. s \in rows
      BY DEF Log!Newest
    <2> QED BY <1>2, <1>7, <2>1, LogsAssumption
            DEF Log!ConversationIdFor, Log!MinutesBetween, Log!Unknown, Stamped
  <1>9. conversation = c \/ (signedIn /\ \E s \in Own(p) :
            /\ Stamped(s) /\ conversation = s.conversation /\ s.ts <= ts /\ ts <= s.ts + Idle
            /\ \A r \in Own(p) : r.ts <= s.ts)
    <2> SUFFICES ASSUME conversation # c, recorded[c].actor # Nobody
                 PROVE  signedIn /\ \E s \in Own(p) :
                            /\ Stamped(s) /\ conversation = s.conversation /\ s.ts <= ts /\ ts <= s.ts + Idle
                            /\ \A r \in Own(p) : r.ts <= s.ts
      BY <1>8
    <2>1. signedIn
      BY <1>2 DEF Log!Actor, LogInv, LogTypes
    <2> QED BY <1>2, <1>8, <2>1, NewestIsOwn
  <1>10. n.conversation = c \/ Continues(c)'
    <2> HIDE DEF p, ts
    <2> SUFFICES ASSUME conversation # c PROVE Continues(c)'
      BY <1>5
    <2> QED BY <1>1, <1>5, <1>6, <1>7, <1>9 DEF Continues, Own, Stamped
  <1>11. ASSUME NEW q \in Callers, signedIn, q \notin blurred'
         PROVE  OneAtATime(q)' /\ Latest(q)' /\ PlacedRight(q)'
    <2>1. InOrder(q)
      BY <1>1, <1>11 DEF LogInv
    <2>2. Own(q)' = Own(q)
      BY <1>1 DEF Own
    <2>3. OneAtATime(q)' /\ Latest(q)'
      BY <1>6, <2>1, <2>2 DEF InOrder, OneAtATime, Latest, Stamped
    <2>4. ASSUME NEW d \in InFlight', recorded'[d].pc = "placed", recorded'[d].caller = q
          PROVE  Joins(d)' \/ Starts(d)'
      <3>1. CASE d # c
        <4>1. d \in InFlight /\ recorded'[d] = recorded[d]
          BY <1>6, <3>1
        <4>2. Joins(d) \/ Starts(d)
          BY <2>1, <2>4, <4>1 DEF InOrder, PlacedRight
        <4> QED BY <1>1, <4>1, <4>2 DEF Joins, Starts, Own, Stamped
      <3>2. CASE d = c
        <4>1. /\ q = p /\ recorded'[d].caller = p /\ recorded'[d].ts = ts
              /\ recorded'[d].conversation = conversation
          BY <1>5, <1>6, <2>2, <2>4, <3>2
        <4>2. /\ Log!Newest(c) = {r \in Own(p) : \A s \in Own(p) : s.ts <= r.ts}
              /\ recorded[c].actor # Nobody
              /\ Log!Newest(c) = {} => Own(p) = {}
          BY <1>2, <1>11, NewestIsOwn
        <4> HIDE DEF p, ts
        <4>3. CASE Own(p) = {}
          BY <1>1, <4>1, <4>3 DEF Starts, Stamped, Own
        <4>4. CASE Own(p) # {}
          <5>1. PICK s \in Log!Newest(c) : conversation = Log!ConversationIdFor(c, s)
            BY <1>4, <1>11, <4>1, <4>2, <4>4
          <5>2. s \in Own(p) /\ \A r \in Own(p) : r.ts <= s.ts /\ r.ts \in Nat
            BY <1>7, <4>2, <5>1 DEF Own
          <5>3. s.ts <= ts /\ UnstampedFirst(p)
            BY <1>2, <2>1, <4>1, <5>2 DEF InOrder, Latest, p, ts
          <5>4. CASE ~Stamped(s)
            <6>1. \A r \in Own(p) : ~Stamped(r)
              BY <5>2, <5>3, <5>4 DEF UnstampedFirst
            <6> QED BY <1>1, <4>1, <6>1 DEF Starts, Stamped, Own
          <5>5. CASE Stamped(s) /\ ts - s.ts > Idle
            <6>1. \A r \in Own(p) : r.ts + Idle < ts
              BY <1>2, <5>2, <5>3, <5>5, LogsAssumption
            <6> QED BY <1>1, <4>1, <6>1 DEF Starts, Stamped, Own
          <5>6. CASE Stamped(s) /\ ~(ts - s.ts > Idle)
            <6>1. conversation = s.conversation
              BY <1>2, <5>1, <5>2, <5>3, <5>6, LogsAssumption
                 DEF Log!ConversationIdFor, Log!MinutesBetween, Log!Unknown, Stamped, ts
            <6> QED BY <1>1, <4>1, <5>2, <5>6, <6>1 DEF Joins, Stamped, Own
          <5> QED BY <5>4, <5>5, <5>6
        <4> QED BY <4>3, <4>4
      <3> QED BY <3>1, <3>2
    <2>5. PlacedRight(q)'
      BY <2>4 DEF PlacedRight
    <2> QED BY <2>3, <2>5
  <1>12. recorded[c].pc # "done"
    BY <1>1
  <1> HIDE DEF p, ts
  <1> QED BY <1>1, <1>2, <1>5, <1>10, <1>11, <1>12, CallMoves

\* The rows of one caller with one more, newer than they are and in its place.
LEMMA OneMoreInOrder ==
    ASSUME NEW p, UnstampedFirst(p), Together(p), NEW n, n.caller = p, Stamped(n), n.ts \in Nat,
           \A r \in Own(p) : r.ts \in Nat /\ r.ts <= n.ts /\ (Stamped(r) \/ r.ts < n.ts),
           \/ \E s \in Own(p) : /\ Stamped(s) /\ s.conversation = n.conversation
                                /\ \A r \in Own(p) : r.ts <= s.ts
           \/ \A r \in Own(p) : Stamped(r) => r.ts + Idle < n.ts,
           rows' = rows \cup {n}
    PROVE  UnstampedFirst(p)' /\ Together(p)'
  <1>1. Own(p)' = Own(p) \cup {n}
    BY DEF Own
  <1>2. UnstampedFirst(p)'
    BY <1>1 DEF UnstampedFirst, Stamped
  <1>3. ASSUME NEW r \in Own(p)', NEW s \in Own(p)', Stamped(r), Stamped(s), r.ts <= s.ts,
               Log!NoPauseWithin(Between(p, r.ts, s.ts)')
        PROVE  r.conversation = s.conversation
    <2> DEFINE span(a, b) == Between(p, a, b)
    <2>1. r.ts \in Nat /\ s.ts \in Nat
      BY <1>1, <1>3
    <2>2. \A x \in Between(p, r.ts, s.ts) : x \in Own(p) /\ r.ts <= x.ts /\ x.ts <= s.ts
      BY DEF Between, Own
    <2>3. CASE r \in Own(p) /\ s \in Own(p)
      <3>1. \/ Between(p, r.ts, s.ts)' = Between(p, r.ts, s.ts)
            \/ /\ Between(p, r.ts, s.ts)' = Between(p, r.ts, s.ts) \cup {n}
               /\ n.ts <= s.ts
        BY <1>3, <2>1, <2>3 DEF Between
      <3>2. Log!NoPauseWithin(Between(p, r.ts, s.ts))
        <4> DEFINE within == Between(p, r.ts, s.ts)
        <4>1. \A x \in within : x.ts \in Nat /\ x.ts <= n.ts
          BY <2>2
        <4>2. Log!NoPauseWithin(within) \/ Log!NoPauseWithin(within \cup {n})
          BY <1>3, <3>1
        <4> HIDE DEF within
        <4>3. Log!NoPauseWithin(within)
          BY <4>1, <4>2, PauseStays
        <4> QED BY <4>3 DEF within
      <3> QED BY <1>3, <2>3, <3>2 DEF Together
    <2>4. CASE r = n /\ s = n
      BY <2>4
    <2>5. CASE r = n /\ s # n
      <3>1. s \in Own(p) /\ s.ts = n.ts
        BY <1>1, <1>3, <2>1, <2>5
      <3>2. PICK q \in Own(p) : /\ Stamped(q) /\ q.conversation = n.conversation
                                /\ \A x \in Own(p) : x.ts <= q.ts
        BY <1>3, <2>1, <3>1, LogsAssumption
      <3>3. q.ts = s.ts
        BY <2>1, <3>1, <3>2
      <3>4. \A x \in Between(p, q.ts, s.ts) : x.ts = s.ts
        <4>1. \A x \in Between(p, q.ts, s.ts) : x \in Own(p) /\ q.ts <= x.ts /\ x.ts <= s.ts
          BY DEF Between, Own
        <4> QED BY <2>1, <3>3, <4>1
      <3>5. Log!NoPauseWithin(Between(p, q.ts, s.ts))
        BY <2>1, <3>4, SameTime
      <3>6. q.conversation = s.conversation
        BY <1>3, <2>1, <3>1, <3>2, <3>3, <3>5 DEF Together
      <3> QED BY <2>5, <3>2, <3>6
    <2>6. CASE r # n /\ s = n
      <3>1. r \in Own(p)
        BY <1>1, <2>6
      <3>2. CASE \E q \in Own(p) : /\ Stamped(q) /\ q.conversation = n.conversation
                                   /\ \A x \in Own(p) : x.ts <= q.ts
        <4>1. PICK q \in Own(p) : /\ Stamped(q) /\ q.conversation = n.conversation
                                  /\ \A x \in Own(p) : x.ts <= q.ts
          BY <3>2
        <4>2. Between(p, r.ts, n.ts)' = Between(p, r.ts, q.ts) \cup {n}
          BY <3>1, <4>1 DEF Between, Own
        <4> DEFINE within == Between(p, r.ts, q.ts)
        <4>3. \A x \in within : x.ts \in Nat /\ x.ts <= n.ts
          BY DEF Between, Own
        <4>4. Log!NoPauseWithin(within \cup {n})
          BY <1>3, <2>6, <4>2
        <4> HIDE DEF within
        <4>5. Log!NoPauseWithin(within)
          BY <4>3, <4>4, PauseStays
        <4> QED BY <1>3, <2>6, <3>1, <4>1, <4>5 DEF Together, within
      <3>3. CASE \A x \in Own(p) : Stamped(x) => x.ts + Idle < n.ts
        <4>1. r \in Between(p, r.ts, n.ts)' /\ n \in Between(p, r.ts, n.ts)'
          BY <2>1, <3>1 DEF Between, Own
        <4>2. r.ts < n.ts
          BY <1>3, <2>1, <3>1, <3>3, LogsAssumption
        <4>3. PICK x \in Between(p, r.ts, n.ts)' : x.ts < n.ts /\ n.ts - x.ts <= Idle
          BY <1>3, <2>1, <2>6, <4>1, <4>2 DEF Log!NoPauseWithin
        <4>4. x \in Own(p) /\ r.ts <= x.ts
          BY <4>3 DEF Between, Own
        <4>5. Stamped(x)
          BY <1>3, <2>1, <3>1, <4>4 DEF UnstampedFirst
        <4> QED BY <3>3, <4>3, <4>4, <4>5, LogsAssumption
      <3> QED BY <3>2, <3>3
    <2> QED BY <1>1, <2>3, <2>4, <2>5, <2>6
  <1>4. Together(p)'
    BY <1>3 DEF Together, Stamped
  <1> QED BY <1>2, <1>4
\* The row of a placed call lands, or is lost.
LEMMA InsertStep == ASSUME LogInv, NEW c \in Log!Numbers, Log!Insert(c) PROVE LogInv'
  <1> PICK n : n = Log!Row(c)
    OBVIOUS
  <1> DEFINE p == recorded[c].caller
  <1>1. /\ recorded[c].pc = "placed" /\ UNCHANGED <<clock, signedIn>> /\ blurred \subseteq blurred'
        /\ rows' = rows \cup {n} \/ (rows' = rows /\ p \in blurred')
        /\ recorded' = [recorded EXCEPT ![c] = [pc |-> "done"]]
    BY DEF Log!Insert
  <1>2. /\ c \in InFlight /\ p \in Callers /\ recorded[c].actor = Log!Actor(p) /\ recorded[c].ts \in 0..clock
        /\ recorded[c].conversation = c \/ Continues(c)
        /\ clock \in Nat
    BY <1>1 DEF LogInv, LogTypes, CallOk, InFlight
  <1>3. /\ recorded'[c].pc = "done" /\ \A d \in Log!Numbers : d # c => recorded'[d] = recorded[d]
        /\ \A d : d \in InFlight' <=> d \in InFlight /\ d # c
        /\ InFlight \subseteq Log!Numbers /\ DOMAIN recorded' = Log!Numbers
    BY <1>1 DEF LogInv, LogTypes, InFlight
  <1>4. /\ n.caller = p /\ n.actor = recorded[c].actor /\ n.ts = recorded[c].ts
        /\ n.conversation = recorded[c].conversation
    BY DEF Log!Row
  <1>5. \A r \in rows : /\ RowOk(r) /\ r.ts \in Nat /\ r.conversation # c
                        /\ Stamped(r) => r.conversation \in Log!Numbers
    <2> SUFFICES ASSUME NEW r \in rows
                 PROVE  /\ RowOk(r) /\ r.ts \in Nat /\ r.conversation # c
                        /\ Stamped(r) => r.conversation \in Log!Numbers
      OBVIOUS
    <2>1. RowOk(r)
      BY DEF LogInv, LogTypes
    <2>2. c # Log!Unstamped
      BY LogsAssumption DEF Log!Numbers, Log!Unstamped
    <2> QED BY <1>1, <1>2, <2>1, <2>2 DEF RowOk, Stamped
  <1>6. \/ n.conversation = c
        \/ /\ signedIn
           /\ \E s \in rows : /\ s.conversation = n.conversation /\ s.conversation \in Log!Numbers
                              /\ s.caller = p /\ s.ts <= n.ts /\ n.ts <= s.ts + Idle
    BY <1>2, <1>4 DEF Continues
  <1>7. LogTypes'
    <2>1. \A d \in Log!Numbers : d # c => CallOk(d)'
      BY <1>1, <1>3 DEF LogInv, LogTypes, CallOk, InFlight, Continues, Log!Actor
    <2>2. CallOk(c)'
      BY <1>3 DEF CallOk
    <2>3. \A r \in rows : RowOk(r)'
      BY <1>1, <1>3, <1>5 DEF RowOk, Log!Actor, Stamped
    <2>4. RowOk(n)'
      BY <1>1, <1>2, <1>3, <1>4, <1>5, <1>6 DEF RowOk, Log!Actor, Stamped
    <2> QED BY <1>1, <1>2, <1>3, <2>1, <2>2, <2>3, <2>4 DEF LogInv, LogTypes
  <1>8. OnePersons'
    <2>1. ASSUME NEW r \in rows, r.conversation = n.conversation PROVE r.caller = n.caller /\ signedIn
      <3>1. n.conversation \in Log!Numbers => n.conversation # Log!Unstamped
        BY LogsAssumption DEF Log!Numbers, Log!Unstamped
      <3> QED BY <1>4, <1>5, <1>6, <2>1, <3>1 DEF LogInv, OnePersons, Stamped
    <2> QED BY <1>1, <2>1 DEF LogInv, OnePersons, Stamped
  <1>9. Unpaused'
    <2> SUFFICES ASSUME NEW k \in Log!Numbers PROVE Log!NoPauseWithin(Within(k)')
      BY DEF Unpaused
    <2>1. Log!NoPauseWithin(Within(k))
      BY DEF LogInv, Unpaused
    <2>2. CASE Within(k)' = Within(k)
      BY <2>1, <2>2
    <2>3. CASE Within(k)' # Within(k)
      <3>1. n.conversation = k /\ Within(k)' = Within(k) \cup {n}
        BY <1>1, <2>3 DEF Within
      <3>2. CASE n.conversation = c
        <4>1. Within(k)' = {n}
          BY <1>5, <3>1, <3>2 DEF Within
        <4> QED BY <1>2, <1>4, <4>1, SameTime
      <3>3. CASE n.conversation # c
        <4> DEFINE within == Within(k)
        <4>1. PICK s \in within : s.ts <= n.ts /\ n.ts <= s.ts + Idle
          BY <1>6, <3>1, <3>3 DEF Within
        <4>2. \A r \in within : r.ts \in Nat
          BY <1>5 DEF Within
        <4>3. n.ts \in Nat
          BY <1>2, <1>4
        <4> HIDE DEF within
        <4>4. Log!NoPauseWithin(within)
          BY <2>1 DEF within
        <4>5. Log!NoPauseWithin(within \cup {n})
          BY <4>1, <4>2, <4>3, <4>4, PauseExtends
        <4> QED BY <3>1, <4>5 DEF within
      <3> QED BY <3>2, <3>3
    <2> QED BY <2>2, <2>3
  <1>10. ASSUME NEW q \in Callers, signedIn, q \notin blurred' PROVE InOrder(q)'
    <2>1. InOrder(q)
      BY <1>1, <1>10 DEF LogInv
    <2>2. CASE q = p
      <3>1. rows' = rows \cup {n}
        BY <1>1, <1>10, <2>2
      <3>2. \A d \in InFlight' : recorded'[d].caller # q
        BY <1>2, <1>3, <2>1, <2>2 DEF InOrder, OneAtATime
      <3>3. OneAtATime(q)' /\ Latest(q)' /\ PlacedRight(q)'
        BY <3>2 DEF OneAtATime, Latest, PlacedRight
      <3>4. Stamped(n)
        BY <1>6, LogsAssumption DEF Stamped, Log!Numbers, Log!Unstamped
      <3>5. \A r \in Own(q) : r.ts \in Nat /\ r.ts <= n.ts /\ (Stamped(r) \/ r.ts < n.ts)
        BY <1>2, <1>4, <1>5, <2>1, <2>2 DEF InOrder, Latest, Own
      <3>6. \/ \E s \in Own(q) : /\ Stamped(s) /\ s.conversation = n.conversation
                                 /\ \A r \in Own(q) : r.ts <= s.ts
            \/ \A r \in Own(q) : Stamped(r) => r.ts + Idle < n.ts
        BY <1>1, <1>2, <1>4, <2>1, <2>2 DEF InOrder, PlacedRight, Joins, Starts
      <3>7. n.caller = q /\ n.ts \in Nat
        BY <1>2, <1>4, <2>2
      <3>8. UnstampedFirst(q) /\ Together(q)
        BY <2>1 DEF InOrder
      <3>9. UnstampedFirst(q)' /\ Together(q)'
        <4> HIDE DEF p
        <4> QED BY <3>1, <3>4, <3>5, <3>6, <3>7, <3>8, OneMoreInOrder
      <3> QED BY <3>3, <3>9 DEF InOrder
    <2>3. CASE q # p
      <3>1. Own(q)' = Own(q) /\ \A a, b : Between(q, a, b)' = Between(q, a, b)
        BY <1>1, <1>4, <2>3 DEF Own, Between
      <3>2. \A d \in InFlight' : d \in InFlight /\ recorded'[d] = recorded[d]
        BY <1>3
      <3>3. OneAtATime(q)' /\ Latest(q)' /\ UnstampedFirst(q)'
        BY <2>1, <3>1, <3>2 DEF InOrder, OneAtATime, Latest, UnstampedFirst, Stamped
      <3>4. Together(q)'
        BY <2>1, <3>1 DEF InOrder, Together, Stamped
      <3>5. ASSUME NEW d \in InFlight', recorded'[d].pc = "placed", recorded'[d].caller = q
            PROVE  Joins(d)' \/ Starts(d)'
        <4>1. d \in InFlight /\ recorded'[d] = recorded[d]
          BY <3>2
        <4>2. Joins(d) \/ Starts(d)
          BY <2>1, <3>5, <4>1 DEF InOrder, PlacedRight
        <4>3. {r \in rows' : r.caller = q} = {r \in rows : r.caller = q}
          BY <3>1 DEF Own
        <4> QED BY <3>5, <4>1, <4>2, <4>3 DEF Joins, Starts, Own, Stamped
      <3>6. PlacedRight(q)'
        BY <3>5 DEF PlacedRight
      <3> QED BY <3>3, <3>4, <3>6 DEF InOrder
    <2> QED BY <2>2, <2>3
  <1> QED BY <1>1, <1>7, <1>8, <1>9, <1>10 DEF LogInv

\* Every step of the conversations, and every step of anything else.
LEMMA LogStep == LogInv /\ (Log!Next \/ UNCHANGED logVars) => LogInv'
  <1>1. ASSUME LogInv, UNCHANGED logVars PROVE LogInv'
    BY <1>1 DEF logVars, LogInv, LogTypes, CallOk, RowOk, Continues, OnePersons, Unpaused, Within, InOrder,
                OneAtATime, Latest, UnstampedFirst, Together, PlacedRight, Joins, Starts, Own, Between,
                InFlight, Stamped, Log!Actor
  <1> QED BY <1>1, TickStep, StampStep, LookupStep, InsertStep DEF Log!Next
\* A session on the activity view, of rows that are stamped, is one conversation.
LEMMA LogInvHolds == LogInv => ConversationsHold
  <1> SUFFICES ASSUME LogInv PROVE Log!ConversationsHold
    BY DEF ConversationsHold
  <1>1. \A r \in rows : /\ r.caller \in Callers /\ r.ts \in Nat
                        /\ r.conversation # Log!Unstamped => r.conversation \in Log!Numbers
    BY DEF LogInv, LogTypes, RowOk, Stamped
  <1>2. ASSUME NEW r \in rows, NEW s \in rows, r.conversation = s.conversation, r # s,
               r.conversation # Log!Unstamped
        PROVE  r.caller = s.caller /\ signedIn
    BY <1>2 DEF LogInv, OnePersons, Stamped
  <1>3. ASSUME NEW org, NEW session \in Log!Sessions(org), \A r \in session : r.conversation # Log!Unstamped
        PROVE  Log!NoPauseWithin(session) /\ Log!Cardinality({r.caller : r \in session}) = 1
    <2> DEFINE shown == {r \in rows : r.caller[2] = org}
    <2>1. PICK first \in shown : session = {r \in shown : Log!SessionKey(r) = Log!SessionKey(first)}
      BY DEF Log!Sessions
    <2> DEFINE k == first.conversation
    <2>2. first \in session /\ k # Log!Unstamped /\ k \in Log!Numbers
      BY <1>1, <1>3, <2>1
    <2>3. ASSUME NEW r \in shown PROVE r \in session <=> r.conversation = k
      <3>1. Log!SessionKey(first) = <<"conversation", k>>
        BY <2>2 DEF Log!SessionKey
      <3>2. CASE r.conversation # Log!Unstamped
        BY <2>1, <3>1, <3>2 DEF Log!SessionKey
      <3>3. CASE r.conversation = Log!Unstamped
        BY <1>3, <2>2, <3>3
      <3> QED BY <3>2, <3>3
    <2>4. \A r \in rows : r.conversation = k => r.caller = first.caller
      BY <1>2, <2>2
    <2>5. session = Within(k)
      <3>1. session \subseteq shown /\ shown \subseteq rows
        BY <2>1
      <3>2. \A r \in rows : r.conversation = k => r \in shown
        BY <2>4
      <3> QED BY <2>3, <3>1, <3>2 DEF Within
    <2>6. Log!NoPauseWithin(session)
      BY <2>2, <2>5 DEF LogInv, Unpaused
    <2>7. {r.caller : r \in session} = {first.caller}
      BY <2>2, <2>4, <2>5 DEF Within
    <2>8. \A S : Log!Cardinality(S) = Cardinality(S)
      BY Zenon DEF Log!Cardinality, Cardinality
    <2> QED BY <2>6, <2>7, <2>8, FS_Singleton
  <1>4. ASSUME NEW r \in rows, NEW s \in rows,
               r.caller = s.caller, r.caller \notin blurred, signedIn,
               Log!Unstamped \notin {r.conversation, s.conversation},
               Log!NoPauseWithin({x \in rows : x.caller = r.caller /\ r.ts <= x.ts /\ x.ts <= s.ts}),
               ~(r.ts > s.ts)
        PROVE  r.conversation = s.conversation
    <2>1. r.ts <= s.ts
      BY <1>1, <1>4
    <2>2. Log!NoPauseWithin(Between(r.caller, r.ts, s.ts))
      BY <1>4 DEF Between
    <2>3. Together(r.caller)
      BY <1>1, <1>4 DEF LogInv, InOrder
    <2> QED BY <1>4, <2>1, <2>2, <2>3 DEF Together, Own, Stamped
  <1> QED BY <1>2, <1>3, <1>4 DEF Log!ConversationsHold

\* A conversation is of one person who signed in, in one organisation, and has no
\* pause in it, whatever overlaps; calls in order without a pause are in one
\* (_conversation_id_for, list_sessions): for any number of calls and callers, any
\* pause and any skew of the clocks.
THEOREM ConversationsAreWhole == CallsSpec => []ConversationsHold
  <1>1. CallsInit => LogInv
    BY LogInitInv DEF CallsInit
  <1>2. LogInv /\ [CallsNext]_<<what, vars, logVars>> => LogInv'
    BY LogStep DEF CallsNext
  <1> QED BY <1>1, <1>2, LogInvHolds, PTL DEF CallsSpec
=============================================================================
