------------------------------ MODULE ModelSpec ------------------------------
(* Applying a model spec, a person's declaration of areas, tables, joins and  *)
(* metrics, over an introspected model (semantic_model/model_spec.py): the    *)
(* sheet is checked, the model it makes is built and validated in memory, the *)
(* files are saved aside, replaced in steps and read back; a step that fails  *)
(* puts them back.  Other tools write the same files, with no lock between.   *)
EXTENDS Integers

CONSTANTS
    Areas, Tables, Joins, None,
    From, To,       \* join -> its tables
    Specs,          \* the sheets a person may apply
    FirstFiles,     \* what introspection and other tools have left on disk
    Additions,      \* the metrics `sm add` may write: <<area, metric>>
    Anchors,        \* the tables a person may declare an ambiguity of
    MaxOps          \* bound on applies and on other tools' writes

VARIABLES
    files,          \* [areas, cross, anchors] in datasource.yaml, [beside] the cross-area joins'
                    \* own file, [dir] area -> its directory, [rules] the block in datasource.md
    stamp,          \* the files the newest snapshot is of
    spec,           \* the sheet applied last
    org,            \* the model to write
    backup,         \* the files saved aside
    todo,           \* the areas still to be written
    phase,          \* "idle", or how far the apply is
    result,         \* what it told, until another tool writes
    before,         \* auxiliary: the files when the apply read, then saved them
    raced,          \* auxiliary: the phases in which another tool wrote under it
    unstamped,      \* auxiliary: written by hand or cut short, with no stamp since
    ops

vars == <<files, stamp, spec, org, backup, todo, phase, result, before, raced, unstamped, ops>>

(* ------------------------------------------------------------------------ *)
(* The files, and what the loader serves of them.                             *)

(* A directory is [listed, owned, hidden, joins, metrics]: hidden are its own  *)
(* tables that are rejected; a metric is [name, reads, state].                *)
Defined(f) == UNION {f.dir[a].owned : a \in f.areas}
Hidden(f) == UNION {f.dir[a].hidden : a \in f.areas}

IsFiles(f) == DOMAIN f = {"areas", "cross", "anchors", "beside", "dir", "rules"}

(* What introspection leaves and a sheet names can be told apart.             *)
InputsAreWhole == (\A f \in FirstFiles : IsFiles(f)) /\ \A s \in Specs : s.areas \subseteq Areas

(* An area datasource.yaml names and no directory holds cannot be read.       *)
Loads(f) == \A a \in f.areas : f.dir[a] # None

(* An area's joins are served among the tables it owns; a cross-area one      *)
(* unless an end is on disk and not served.                                   *)
ServedJoins(f) ==
    LET ofArea(a) == {i \in f.dir[a].joins : {From[i.link], To[i.link]} \subseteq f.dir[a].owned \ f.dir[a].hidden}
        between == {i \in f.cross \cup f.beside : {From[i.link], To[i.link]} \cap Hidden(f) = {}}
    IN  {j \in between \cup UNION {ofArea(a) : a \in f.areas} : j.state # "rejected"}

(* The validator's errors a spec can cause: warnings stop nothing.            *)
Validates(f) ==
    /\ \A a \in f.areas : f.dir[a].listed \subseteq Defined(f)
    /\ f.anchors \subseteq Defined(f)

(* ------------------------------------------------------------------------ *)
(* The sheet: [wellFormed, areas, owner, also, joins, approved, metrics,      *)
(* rules]; a metric of it is [area, name, reads, approved].                   *)

Rows(s) == {t \in Tables : s.owner[t] # None}
Owned(s, a) == {t \in Rows(s) : s.owner[t] = a}
Members(s, a) == Owned(s, a) \cup {t \in Rows(s) : a \in s.also[t]}
Marked(s) == s.approved # {} \/ \E m \in s.metrics : m.approved

(* wellFormed: what its cells say of themselves (names, repeats, columns) and *)
(* what the validator would of them alone (an area of too many tables).       *)
CheckSpec(s, f, signer, dryRun) ==
    /\ s.wellFormed /\ s.areas # {} /\ Rows(s) # {} /\ Rows(s) \subseteq Defined(f)
    /\ \A t \in Rows(s) : s.owner[t] \in s.areas /\ s.also[t] \subseteq s.areas
    /\ \A l \in s.joins : {From[l], To[l]} \subseteq Rows(s)
    /\ \A m \in s.metrics : m.area \in s.areas /\ m.reads \subseteq Members(s, m.area)
    /\ Marked(s) => signer \/ dryRun

Reviewed(approved) == IF approved THEN "approved" ELSE "unreviewed"
Relationship(s, l) == [link |-> l, state |-> Reviewed(l \in s.approved)]
Metric(m) == [name |-> m.name, reads |-> m.reads, state |-> Reviewed(m.approved)]

(* A bug: an area is given a join it merely lists the tables of.              *)
HomedByListing(s, a) == {l \in s.joins : {From[l], To[l]} \subseteq Members(s, a)}

(* A join lives in the area that owns both its tables, or between two owners. *)
Homed(s, a) == {l \in s.joins : {From[l], To[l]} \subseteq Owned(s, a)}

(* A metric the spec does not redefine stays in its area.                     *)
Kept(s, f, a) ==
    IF a \notin f.areas THEN {}
    ELSE {k \in f.dir[a].metrics : ~\E m \in s.metrics : m.area = a /\ m.name = k.name}

Area(s, f, a) ==
    [listed |-> Members(s, a), owned |-> Owned(s, a), hidden |-> Owned(s, a) \cap Hidden(f),
     joins |-> {Relationship(s, l) : l \in Homed(s, a)},
     metrics |-> Kept(s, f, a) \cup {Metric(m) : m \in {n \in s.metrics : n.area = a}}]

Built(s, f) ==
    [f EXCEPT !.areas = s.areas, !.beside = {},
              !.cross = {Relationship(s, l) : l \in s.joins \ UNION {Homed(s, a) : a \in s.areas}},
              !.dir = [a \in Areas |-> IF a \in s.areas THEN Area(s, f, a) ELSE None]]

Init ==
    /\ files \in FirstFiles /\ stamp = files /\ before = files /\ backup = files /\ org = files
    /\ spec = None /\ todo = {} /\ phase = "idle" /\ result = "none"
    /\ raced = {} /\ unstamped = FALSE /\ ops = 0

(* ------------------------------------------------------------------------ *)
(* The apply, up to the first write.                                          *)

(* A model that does not load raises before anything is told.                 *)
Begin(s, signer, dryRun) ==
    LET built == Built(s, files)
        good == CheckSpec(s, files, signer, dryRun) /\ Validates(built)
    IN  /\ phase = "idle" /\ ops < MaxOps /\ Loads(files)
        /\ ops' = ops + 1 /\ spec' = s /\ before' = files /\ raced' = {}
        /\ phase' = IF good /\ ~dryRun THEN "planned" ELSE "idle"
        /\ org' = IF good THEN built ELSE files
        /\ result' = CASE ~good -> "refused" [] good /\ dryRun -> "previewed" [] OTHER -> "none"
        /\ UNCHANGED <<files, stamp, backup, todo, unstamped>>

(* A bug: the cross-area joins' own file is not saved.                        *)
SavedTree == [files EXCEPT !.beside = {}]

(* Everything the writes replace.                                             *)
Saved == files

Backup ==
    /\ phase = "planned" /\ phase' = "saved"
    /\ backup' = Saved /\ before' = files
    /\ UNCHANGED <<files, stamp, spec, org, todo, result, raced, unstamped, ops>>

(* ------------------------------------------------------------------------ *)
(* The writes, in their order.                                                *)

Writes(from, to) == phase = from /\ phase' = to /\ UNCHANGED <<spec, org, backup, before, raced, unstamped, ops>>

(* A bug: the old areas are written over, not removed.                        *)
OldAreas == files.dir

Emptied == [a \in Areas |-> None]

RemoveAreas ==
    /\ Writes("saved", "removed") /\ files' = [files EXCEPT !.dir = Emptied]
    /\ UNCHANGED <<stamp, todo, result>>

UnlinkCross ==
    /\ Writes("removed", "unlinked") /\ files' = [files EXCEPT !.beside = {}]
    /\ UNCHANGED <<stamp, todo, result>>

(* The ambiguities are the loaded model's, or, when it had none, those of the *)
(* file about to be written over.                                             *)
WriteRoot ==
    /\ Writes("unlinked", "areas")
    /\ files' = [files EXCEPT !.areas = org.areas, !.cross = org.cross,
                              !.anchors = IF org.anchors # {} THEN org.anchors ELSE @]
    /\ todo' = org.areas
    /\ UNCHANGED <<stamp, result>>

(* Files are added to a directory, and an area with no joins writes none.     *)
Over(old, new) ==
    IF old = None THEN new
    ELSE [new EXCEPT !.owned = @ \cup old.owned, !.hidden = @ \cup (old.hidden \ new.owned),
                     !.joins = IF @ = {} THEN old.joins ELSE @,
                     !.metrics = @ \cup {m \in old.metrics : ~\E n \in @ : n.name = m.name}]

WriteArea(a) ==
    /\ a \in todo /\ todo' = todo \ {a}
    /\ Writes("areas", IF todo' = {} THEN "written" ELSE "areas")
    /\ files' = [files EXCEPT !.dir[a] = Over(@, org.dir[a])]
    /\ UNCHANGED <<stamp, result>>

Stamp == Writes("written", "stamped") /\ stamp' = files /\ UNCHANGED <<files, todo, result>>

(* The block between the markers, not what a person wrote around it.          *)
WriteRules ==
    /\ Writes("stamped", "ruled") /\ files' = [files EXCEPT !.rules = spec.rules]
    /\ UNCHANGED <<stamp, todo, result>>

ReadBack ==
    /\ Loads(files) /\ Validates(files) /\ Writes("ruled", "good")
    /\ UNCHANGED <<files, stamp, todo, result>>

Settled(told, f) ==
    /\ phase' = "idle" /\ result' = told /\ files' = f /\ stamp' = f /\ todo' = {} /\ unstamped' = FALSE
    /\ UNCHANGED <<spec, org, backup, before, raced, ops>>

Record == phase = "good" /\ Settled("applied", files)

InWrites == {"saved", "removed", "unlinked", "areas", "written", "stamped", "ruled"}

(* Any of these steps may raise, or what is read back not be valid.           *)
Restore == phase \in InWrites /\ Settled("restored", backup)

(* The process is killed: the files saved aside are in a temporary directory  *)
(* nobody knows of.                                                           *)
Kill ==
    /\ phase # "idle" /\ phase' = "idle" /\ result' = "none" /\ todo' = {} /\ unstamped' = TRUE
    /\ UNCHANGED <<files, stamp, spec, org, backup, before, raced, ops>>

(* ------------------------------------------------------------------------ *)
(* Other tools: each loads the model, writes, validates and stamps.           *)

Other(f) ==
    /\ ops < MaxOps /\ ops' = ops + 1 /\ f # files
    /\ files' = f
    /\ result' = IF phase = "idle" THEN "none" ELSE result
    /\ raced' = IF phase = "idle" THEN raced ELSE raced \cup {phase}
    /\ UNCHANGED <<spec, org, backup, before, todo, phase>>

Tool(f) == Loads(files) /\ Validates(f) /\ stamp' = f /\ unstamped' = FALSE /\ Other(f)

Exclude(t) ==
    \E a \in files.areas :
        /\ Loads(files) /\ t \in files.dir[a].owned
        /\ Tool([files EXCEPT !.dir[a].hidden = @ \cup {t}])

(* The caller says which areas a join is between: here, those of its tables.  *)
AddJoin(l) ==
    /\ Loads(files) /\ ~\E a \in files.areas : {From[l], To[l]} \subseteq files.dir[a].owned
    /\ {From[l], To[l]} \subseteq Defined(files)
    /\ Tool([files EXCEPT !.beside = @ \cup {[link |-> l, state |-> "unreviewed"]}])

AddMetric(a, m) ==
    /\ Loads(files) /\ a \in files.areas
    /\ Tool([files EXCEPT !.dir[a].metrics = {k \in @ : k.name # m.name} \cup {m}])

(* Ambiguities are written into datasource.yaml by hand.                      *)
DeclareAmbiguity(t) ==
    unstamped' = TRUE /\ UNCHANGED stamp /\ Other([files EXCEPT !.anchors = @ \cup {t}])

Apply ==
    \/ \E s \in Specs, signer, dryRun \in BOOLEAN : Begin(s, signer, dryRun)
    \/ Backup \/ RemoveAreas \/ UnlinkCross \/ WriteRoot
    \/ \E a \in Areas : WriteArea(a)
    \/ Stamp \/ WriteRules \/ ReadBack \/ Record \/ Restore \/ Kill

Next ==
    \/ Apply
    \/ \E t \in Tables : Exclude(t)
    \/ \E l \in Joins : AddJoin(l)
    \/ \E x \in Additions : AddMetric(x[1], x[2])
    \/ \E t \in Anchors : DeclareAmbiguity(t)

Spec == Init /\ [][Next]_vars

(* ------------------------------------------------------------------------ *)

(* The sheet's part of what is on disk.                                       *)
TablesAreTheSheets ==
    /\ files.areas = spec.areas
    /\ \A a \in spec.areas : files.dir[a].owned = Owned(spec, a) /\ files.dir[a].listed = Members(spec, a)
    /\ Hidden(files) = Hidden(before) \cap Rows(spec)
    /\ files.rules = spec.rules

(* Its joins are served, those only, and signed off where it says so; a       *)
(* rejected table has none.                                                   *)
JoinsAreTheSheets ==
    ServedJoins(files) =
        {Relationship(spec, l) : l \in {k \in spec.joins : {From[k], To[k]} \cap Hidden(before) = {}}}

(* Its metrics are there, and those it does not redefine as they were.        *)
MetricsAreKept ==
    \A a \in spec.areas :
        /\ {Metric(m) : m \in {n \in spec.metrics : n.area = a}} \subseteq files.dir[a].metrics
        /\ \A k \in IF a \in before.areas THEN before.dir[a].metrics ELSE {} :
              k \in files.dir[a].metrics \/ \E m \in spec.metrics : m.area = a /\ m.name = k.name

(* At rest the model is the sheet or what it was, all of it, and the newest   *)
(* stamp names it: an apply told applied serves what the sheet says and keeps *)
(* what it leaves alone; one told refused, previewed or restored changed      *)
(* nothing.  What another tool wrote under it is not owed to either.          *)
SpecIsWhole ==
    /\ phase = "idle" /\ ~unstamped => stamp = files
    /\ result = "applied" /\ raced = {} => TablesAreTheSheets /\ JoinsAreTheSheets /\ MetricsAreKept
    /\ result \in {"refused", "previewed"} => files = before
    /\ result = "restored" /\ raced \subseteq {"planned"} => files = before

=============================================================================
