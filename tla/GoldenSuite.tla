----------------------------- MODULE GoldenSuite -----------------------------
(* Golden datasets: the doors that write them (plugins/agami/scripts,         *)
(* golden_author.py), the reader (semantic_model/golden.py), and runs over    *)
(* them, whole or narrowed, with the records a later run takes its failures   *)
(* from (semantic_model/golden_run.py, run_golden_eval.py).                   *)
(*                                                                            *)
(* A file is the sequence of cases a person or a door wrote; a case is        *)
(* [id, query, sql, confirmed, match, bounds, tags].  What asking and         *)
(* executing come to is a world of the case, chosen when the case is run.  A  *)
(* write that is refused changes nothing and is no step; an agreed one stands *)
(* for every confirmation its door may ask for.                               *)
EXTENDS Integers, FiniteSets, Subsequences

CONSTANTS
    Datasets, None,
    Unreadable,     \* a file the YAML parser refuses
    Relative,       \* the questions asked against today
    Frozen,         \* the statements pinned to a date
    Worlds,         \* the worlds considered: records [gen, key, made, same, gated]
    FirstFiles,     \* what the files start as
    Sheets,         \* imports: <<dataset, rows>>, a row [id, query, sql]
    Answers,        \* saves: <<dataset, case>>
    Pages,          \* queued actions: <<dataset, sequence of [op, id, value]>>
    Edits,          \* what a hand may leave in a file: <<dataset, content>>
    Selections,     \* how a run may be narrowed: "all", "rerun" or a tag
    MaxOps          \* bound on writes and runs

VARIABLES
    file,           \* dataset -> its cases, None, or Unreadable
    records,        \* the artifacts of runs, in the order of their stamps
    run,            \* the run under way, or NoRun
    last,           \* the run that ended last: its cases, worlds and exit code
    ops,
    vouched,        \* dataset -> <<id, statement>> somebody stands for
    named,          \* the ids the last door was asked about
    told            \* dataset -> {}, or {what its last whole run that reached a verdict failed}

goldenVars == <<file, records, run, last, ops, vouched, named, told>>

IdsOf(cases) == {c.id : c \in ToSet(cases)}
WithId(cases, id) == CHOOSE c \in ToSet(cases) : c.id = id
CasesOf(cases, ids) == Within(cases, {c \in ToSet(cases) : c.id \in ids})
CasesBut(cases, ids) == Within(cases, {c \in ToSet(cases) : c.id \notin ids})

NoRun == [cases |-> <<>>]

(* What the inputs are made of.                                               *)
IsCase(c) ==
    /\ c = [id |-> c.id, query |-> c.query, sql |-> c.sql, confirmed |-> c.confirmed, match |-> c.match,
            bounds |-> c.bounds, tags |-> c.tags]
    /\ c.confirmed \in BOOLEAN /\ c.bounds \in BOOLEAN
IsCases(content) == content \in Seq(ToSet(content)) /\ \A c \in ToSet(content) : IsCase(c)
IsQueue(queue) ==
    /\ queue \in Seq(ToSet(queue))
    /\ \A op \in ToSet(queue) : op.op \in {"tag", "untag", "match", "question", "withdraw", "remove"}
IsWorld(w) ==
    /\ w.gen \in {"sql", "none", "raises"} /\ w.key \in {"ok", "refused", "failed"}
    /\ w.made \in {"ok", "refused", "uncompared", "failed"}
    /\ w.same \in BOOLEAN /\ w.gated \in BOOLEAN

ASSUME FilesAssumption ==
    /\ \A f \in FirstFiles :
          DOMAIN f = Datasets /\ \A d \in Datasets : f[d] \in {None, Unreadable} \/ IsCases(f[d])
    /\ \A e \in Edits : e[1] \in Datasets /\ (e[2] = Unreadable \/ IsCases(e[2]))
ASSUME DoorsAssumption ==
    /\ \A s \in Sheets : s[1] \in Datasets /\ s[2] \in Seq(ToSet(s[2]))
    /\ \A a \in Answers : a[1] \in Datasets /\ IsCase(a[2])
    /\ \A p \in Pages : p[1] \in Datasets /\ IsQueue(p[2])
ASSUME WorldsAssumption == \A w \in Worlds : IsWorld(w)

(* Writes and the starts of runs are counted.                                 *)
Busy == ops < MaxOps /\ ops' = ops + 1

(* ------------------------------------------------------------------------ *)
(* The reader.                                                                *)

Valid(c) == (c.confirmed => c.sql # None) /\ (c.match = "bounded" <=> c.bounds)

(* A case that does not validate, or repeats an id, is dropped with a finding. *)
Load(content) ==
    FoldLeft(LAMBDA kept, c : IF Valid(c) /\ c.id \notin IdsOf(kept) THEN Append(kept, c) ELSE kept, <<>>, content)
Read(content) == IF content \in {None, Unreadable} THEN <<>> ELSE Load(content)

OurFaults(content) == content = Unreadable \/ (content # None /\ Load(content) # content)
RelativityFault(c) == c.sql \in Frozen /\ c.query \in Relative

(* ------------------------------------------------------------------------ *)
(* Writing.                                                                   *)

(* What the file would hold: replacements in place, additions at the end.     *)
Merged(existing, items, remove) ==
    LET kept == CasesBut(existing, remove)
    IN  [i \in DOMAIN kept |-> IF kept[i].id \in IdsOf(items) THEN WithId(items, kept[i].id) ELSE kept[i]]
        \o CasesBut(items, IdsOf(existing))

NothingFaulty(d, items, remove, agreed) == TRUE
MayWrite(d, items, remove, agreed) ==
    LET ids == IdsOf(Read(file[d])) IN
    /\ IsInjective([i \in DOMAIN items |-> items[i].id])
    /\ ~OurFaults(file[d])
    /\ ~\E c \in ToSet(items) : RelativityFault(c)
    /\ remove \subseteq ids
    /\ (IdsOf(items) \cap ids # {} \/ remove # {}) => agreed

(* The file as the write leaves it: what the reader refuses is put back.      *)
RolledBack(d, content) == IF OurFaults(content) THEN file[d] ELSE content

(* Who stands for what after a write that was not put back.                   *)
Vouch(d, items, stands, remove, content) ==
    IF file'[d] # content THEN vouched[d]
    ELSE {v \in vouched[d] : v[1] \notin remove \cup IdsOf(items)} \cup stands

(* stands is what the door's user vouches for by using it.                    *)
WriteItems(d, items, remove, agreed, stands) ==
    /\ MayWrite(d, items, remove, agreed)
    /\ LET content == Merged(Read(file[d]), items, remove) IN
       /\ file' = [file EXCEPT ![d] = RolledBack(d, content)]
       /\ vouched' = [vouched EXCEPT ![d] = Vouch(d, items, stands, remove, content)]
    /\ named' = IdsOf(items) \cup remove
    /\ UNCHANGED <<records, run, last, told>>

Standing(cases) == {<<c.id, c.sql>> : c \in {c \in ToSet(cases) : c.confirmed}}

(* A row with a statement was validated where it comes from: so _import takes *)
(* it, though the heading of its file says that no import confirms anything.  *)
Imported(rows) ==
    [i \in DOMAIN rows |->
        [id |-> rows[i].id, query |-> rows[i].query, sql |-> rows[i].sql, confirmed |-> rows[i].sql # None,
         match |-> "exact", bounds |-> FALSE, tags |-> {}]]
Import(d, rows, agreed) == WriteItems(d, Imported(rows), {}, agreed, Standing(Imported(rows)))

(* An answer somebody looked at and accepted.                                 *)
Save(d, c, agreed) == Valid(c) /\ WriteItems(d, <<c>>, {}, agreed, Standing(<<c>>))

(* One action queued on the page.                                             *)
Touch(c, op) ==
    CASE op.op = "tag" -> [c EXCEPT !.tags = @ \cup {op.value}]
      [] op.op = "untag" -> [c EXCEPT !.tags = @ \ {op.value}]
      [] op.op = "match" -> [c EXCEPT !.match = op.value]
      [] op.op = "question" -> [c EXCEPT !.query = op.value]
MutateAsConfirmed(c, op) ==
    IF op.op = "withdraw" THEN c ELSE Touch(c, op)
Mutate(c, op) ==
    IF op.op = "withdraw" THEN [c EXCEPT !.confirmed = FALSE] ELSE Touch(c, op)

(* The actions on one case are folded onto each other.                        *)
Edited(cases, queue) ==
    LET edits == {op \in ToSet(queue) : op.op # "remove"}
        touched == CasesOf(cases, {op.id : op \in edits})
    IN  [i \in DOMAIN touched |->
            FoldLeft(Mutate, touched[i], Within(queue, {op \in edits : op.id = touched[i].id}))]

Apply(d, queue, agreed) ==
    LET cases == Read(file[d])
        edited == Edited(cases, queue)
        remove == {op.id : op \in {op \in ToSet(queue) : op.op = "remove"}}
        withdrawn == {op.id : op \in {op \in ToSet(queue) : op.op = "withdraw"}}
    IN  /\ file[d] # None
        /\ {op.id : op \in ToSet(queue)} \subseteq IdsOf(cases)
        /\ remove \cap IdsOf(edited) = {}
        /\ WriteItems(d, edited, remove, agreed,
                      {v \in vouched[d] : v[1] \in IdsOf(edited) \ withdrawn})

(* The process dies on the way: some of the file is written, down to none,    *)
(* or all of it and nothing put back.  Any case may be lost then: a file cut  *)
(* between two cases, or empty, reads as a dataset that never had the rest.   *)
WriteDies(d, items) ==
    LET merged == Merged(Read(file[d]), items, {})
    IN  /\ MayWrite(d, items, {}, TRUE)
        /\ \E content \in {Unreadable} \cup {SubSeq(merged, 1, n) : n \in 0..Len(merged)} :
            /\ file' = [file EXCEPT ![d] = content]
            /\ vouched' = [vouched EXCEPT ![d] = Vouch(d, items, Standing(items), {}, content)]
            /\ named' = IF content = merged THEN IdsOf(items) ELSE IdsOf(merged)
        /\ UNCHANGED <<records, run, last, told>>

(* Somebody edits the YAML, and stands for what it then says.                 *)
EditByHand(d, content) ==
    /\ content # file[d]
    /\ file' = [file EXCEPT ![d] = content]
    /\ vouched' = [vouched EXCEPT ![d] = Standing(Read(content))]
    /\ named' = IF file[d] \in {None, Unreadable} THEN IdsOf(content) ELSE IdsOf(file[d]) \cup IdsOf(content)
    /\ UNCHANGED <<records, run, last, told>>

(* ------------------------------------------------------------------------ *)
(* Scoring one case.                                                          *)

Outcome(c, status, exact, gated) ==
    [id |-> c.id, confirmed |-> c.confirmed, status |-> status, exact |-> exact, gated |-> gated]

SelfJudging == {"bounded", "nonempty"}

(* A refused answer key says nothing of the answer; a refused answer is one.  *)
(* Two results that ran may still be beyond comparing.                        *)
StatusOfEither(envelope, answerKey) == IF envelope = "failed" THEN "error" ELSE "unscored"
StatusOf(envelope, answerKey) ==
    CASE envelope = "failed" -> "error"
      [] envelope = "uncompared" \/ (envelope = "refused" /\ answerKey) -> "unscored"
      [] OTHER -> "scored"

Score(c, w) ==
    CASE w.gen = "none" -> Outcome(c, "error", FALSE, FALSE)
      [] w.gen = "sql" /\ c.match \notin SelfJudging /\ c.sql = None -> Outcome(c, "unscored", FALSE, w.gated)
      [] w.gen = "sql" /\ c.match \notin SelfJudging /\ c.sql # None /\ w.key # "ok" ->
            Outcome(c, StatusOf(w.key, TRUE), FALSE, w.gated)
      [] OTHER -> Outcome(c, StatusOf(w.made, FALSE), w.made = "ok" /\ w.same, w.gated)

Passed(o) == o.exact /\ ~o.gated
GatingFailure(o) == o.confirmed /\ o.status = "scored" /\ ~Passed(o)
Wrong(outcomes) == {o.id : o \in {o \in ToSet(outcomes) : GatingFailure(o)}}

Section(o) ==
    CASE o.status = "error" -> "error"
      [] o.status # "error" /\ ~o.confirmed -> "unconfirmed"
      [] o.status = "unscored" /\ o.confirmed -> "unscored"
      [] OTHER -> IF Passed(o) THEN "pass" ELSE "failure"

(* 0 no confirmed case was judged wrong, 1 one was, 2 nothing to go by.       *)
VerdictUnfinished(completed, outcomes) ==
    CASE outcomes # <<>> /\ \A o \in ToSet(outcomes) : o.status = "error" -> 2
      [] OTHER -> IF \E o \in ToSet(outcomes) : GatingFailure(o) THEN 1 ELSE 0
Verdict(completed, outcomes) ==
    IF ~completed THEN 2 ELSE VerdictUnfinished(completed, outcomes)

(* ------------------------------------------------------------------------ *)
(* Runs.                                                                      *)

Whole(record) == record.selection = "all"
ReachedVerdict(record) == Verdict(record.completed, record.outcomes) # 2
WhatFailed(outcomes) == Within(outcomes, {o \in ToSet(outcomes) : Section(o) = "failure"})

(* The failures of the newest record that can be trusted.                     *)
TrustedOfAny(d) == Within(records, {r \in ToSet(records) : r.dataset = d /\ ReachedVerdict(r)})
Trusted(d) == Within(records, {r \in ToSet(records) : r.dataset = d /\ Whole(r) /\ ReachedVerdict(r)})
LastFailures(d) == LET outcomes == WhatFailed(Last(Trusted(d)).outcomes) IN [i \in DOMAIN outcomes |-> outcomes[i].id]

Selected(d, selection) ==
    LET cases == Read(file[d])
        present == Within(LastFailures(d), IdsOf(cases))
    IN  CASE selection = "all" -> cases
          [] selection = "rerun" -> [i \in DOMAIN present |-> WithId(cases, present[i])]
          [] OTHER -> Within(cases, {c \in ToSet(cases) : selection \in c.tags})

MayStart(d, selection) ==
    /\ file[d] \notin {None, Unreadable}
    /\ selection = "rerun" => Trusted(d) # <<>>
    /\ selection \notin {"all", "rerun"} => Selected(d, selection) # <<>>

Started(d, selection, cases) ==
    [dataset |-> d, selection |-> selection, cases |-> cases, worlds |-> <<>>, outcomes |-> <<>>, completed |-> TRUE]

(* The process reads the file once; a rerun of nothing ends at once, clean.   *)
Start(d, selection) ==
    /\ run = NoRun /\ Busy /\ MayStart(d, selection)
    /\ LET cases == Selected(d, selection) IN
       IF selection = "rerun" /\ cases = <<>>
       THEN run' = NoRun /\ last' = [cases |-> <<>>, worlds |-> <<>>, code |-> 0]
       ELSE run' = Started(d, selection, cases) /\ last' = None
    /\ UNCHANGED <<file, records, vouched, named, told>>

Running == run # NoRun /\ run.completed /\ Len(run.outcomes) < Len(run.cases)

RunCase(w) ==
    /\ Running
    /\ LET c == run.cases[Len(run.outcomes) + 1] IN
       run' = IF w.gen = "raises" THEN [run EXCEPT !.completed = FALSE]
              ELSE [run EXCEPT !.worlds = Append(@, w), !.outcomes = Append(@, Score(c, w))]
    /\ UNCHANGED <<file, records, last, ops, vouched, named, told>>

(* The verdict is given whether or not the artifact could be written.         *)
Finish(written) ==
    /\ run # NoRun /\ ~Running
    /\ LET code == Verdict(run.completed, run.outcomes) IN
       /\ last' = [cases |-> run.cases, worlds |-> run.worlds, code |-> code]
       /\ records' = IF written THEN Append(records, [dataset |-> run.dataset, selection |-> run.selection,
                                                      completed |-> run.completed, outcomes |-> run.outcomes])
                     ELSE records
       /\ told' = IF written /\ run.selection = "all" /\ code # 2
                  THEN [told EXCEPT ![run.dataset] = {Wrong(run.outcomes)}]
                  ELSE told
    /\ run' = NoRun
    /\ UNCHANGED <<file, ops, vouched, named>>

Interrupt == run # NoRun /\ run' = NoRun /\ UNCHANGED <<file, records, last, ops, vouched, named, told>>

GoldenInit ==
    /\ file \in FirstFiles
    /\ vouched = [d \in Datasets |-> Standing(Read(file[d]))]
    /\ records = <<>> /\ run = NoRun /\ last = None /\ ops = 0 /\ named = {}
    /\ told = [d \in Datasets |-> {}]

Writing ==
    /\ Busy
    /\ \/ \E s \in Sheets, agreed \in BOOLEAN : Import(s[1], s[2], agreed)
       \/ \E a \in Answers, agreed \in BOOLEAN : Save(a[1], a[2], agreed)
       \/ \E p \in Pages, agreed \in BOOLEAN : Apply(p[1], p[2], agreed)
       \/ \E a \in Answers : WriteDies(a[1], <<a[2]>>)
       \/ \E e \in Edits : EditByHand(e[1], e[2])
Evaluating ==
    \/ \E d \in Datasets, selection \in Selections : Start(d, selection)
    \/ \E w \in Worlds : RunCase(w)
    \/ \E written \in BOOLEAN : Finish(written)
    \/ Interrupt

GoldenNext == Writing \/ Evaluating
GoldenSpec == GoldenInit /\ [][GoldenNext]_goldenVars

(* ------------------------------------------------------------------------ *)
(* Properties.                                                                *)

(* A confirmed case carries a statement somebody accepted for it and has not  *)
(* withdrawn: no queue, merge, rollback or crash makes or keeps one confirmed *)
(* by itself.  Accepted is what was saved, what a hand wrote, and what came   *)
(* with its statement in a sheet: the last is how _import reads a sheet, and  *)
(* not how the rest of golden_author.py does (ImportConfirmsNothing).         *)
KeysAreAccepted ==
    \A d \in Datasets : \A c \in ToSet(Read(file[d])) : c.confirmed => <<c.id, c.sql>> \in vouched[d]

(* What the heading of golden_author.py says of its doors (:15): nobody ran a *)
(* sheet's statement, so an imported row is unverified by construction, and   *)
(* what is confirmed after an import was confirmed before it.                 *)
ImportConfirmsNothing ==
    [][\A s \in Sheets, agreed \in BOOLEAN :
        Import(s[1], s[2], agreed) =>
        Standing(Read(file'[s[1]])) \subseteq Standing(Read(file[s[1]]))]_goldenVars

(* A door touches the cases it names and no other, the ones the reader drops  *)
(* included, unless it dies in the middle of the file.                        *)
OthersAreKept ==
    [][\A d \in Datasets :
        file'[d] # file[d] /\ file[d] \notin {None, Unreadable} /\ file'[d] # Unreadable =>
        CasesBut(file[d], named') = CasesBut(file'[d], named')]_goldenVars

(* The case was judged against a key that ran, or needs none, and was wrong.  *)
AnsweredWrong(c, w) ==
    /\ w.gen = "sql" /\ w.made \in {"ok", "refused"}
    /\ c.match \in SelfJudging \/ w.key = "ok"
    /\ w.made = "refused" \/ ~w.same \/ w.gated

(* What an exit code says of the cases of a run and of the worlds they met.   *)
Earned(cases, worlds, code) ==
    LET wrong == {i \in DOMAIN worlds : cases[i].confirmed /\ AnsweredWrong(cases[i], worlds[i])}
        broke == {i \in DOMAIN worlds : worlds[i].gen = "none"}
    IN  /\ code = 1 => wrong # {}
        /\ code = 0 => /\ wrong = {} /\ Len(worlds) = Len(cases)
                       /\ cases # <<>> => broke # DOMAIN worlds

(* The exit code of a run: 1 tells of a confirmed case answered wrongly, and  *)
(* 0 that there was none, that every case was reached and that not all of     *)
(* them broke.                                                                *)
VerdictIsEarned == last # None => Earned(last.cases, last.worlds, last.code)

(* A rerun is of what the last whole run that reached a verdict failed, as    *)
(* far as the dataset still has it, whatever was run in between.              *)
RerunIsOfWhatFailed ==
    [][\A d \in Datasets :
        Start(d, "rerun") => \E failed \in told[d] : IdsOf(run'.cases) = failed \cap IdsOf(Read(file[d]))]_goldenVars

=============================================================================
