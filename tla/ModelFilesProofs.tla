-------------------------- MODULE ModelFilesProofs --------------------------
(* That an apply leaves the sheet or what was there, whatever fails, is       *)
(* killed or is written beside it, for any sheets, areas, tables and joins;   *)
(* and that a refresh leaves what the database has and what people decided,   *)
(* for any tables, columns, links, schema changes, failed reads and decisions.*)
(*                                                                           *)
(* Both strengthenings are what the files are between two of the writes.  Of  *)
(* an apply, each phase determines their parts from what was saved aside and  *)
(* from the model to write, until another tool writes under it.  Of a         *)
(* refresh, they are the model it loaded with the parts of the merged one     *)
(* written so far, until a decision falls under it.                           *)
EXTENDS ModelFiles, TLAPS

(* ------------------------------------------------------------------------ *)
(* A sheet applied.                                                           *)

(* What CheckSpec has made sure of, whoever signs.                            *)
Checked(s, f) ==
    /\ s \in Specs /\ Rows(s) \subseteq Defined(f)
    /\ \A t \in Rows(s) : s.owner[t] \in s.areas
    /\ \A l \in s.joins : {From[l], To[l]} \subseteq Rows(s)

(* How far the files are from what was saved to what is to be written.        *)
Unwritten == {"planned", "saved"}
FromRoot == {"areas", "written", "stamped", "ruled", "good"}

Progress ==
    /\ phase \in Unwritten => files = before
    /\ phase = "unlinked" => files.beside = {}
    /\ phase \in {"removed", "unlinked"} => files.dir = Emptied
    /\ phase \in FromRoot =>
          /\ files.areas = org.areas /\ files.cross = org.cross /\ files.beside = {}
          /\ files.dir = [a \in Areas |-> IF a \in todo THEN None ELSE org.dir[a]]
          /\ phase # "areas" => todo = {}
    /\ phase \in {"ruled", "good"} => files.rules = spec.rules

Shaped == IsFiles(files) /\ IsFiles(before) /\ IsFiles(backup)
NothingToldYet == phase # "idle" => result = "none"
SavedAside == phase \in InWrites => backup = before
Undisturbed ==
    phase # "idle" /\ raced = {} => org = Built(spec, before) /\ Checked(spec, before) /\ Progress
RestsStamped == phase = "idle" /\ ~unstamped => stamp = files
Untouched == result \in {"refused", "previewed", "restored"} => files = before
Applied == result = "applied" /\ raced = {} => TablesAreTheSheets /\ JoinsAreTheSheets /\ MetricsAreKept

(* The inductive invariant.                                                   *)
IInv ==
    /\ Shaped /\ NothingToldYet /\ SavedAside /\ Undisturbed
    /\ RestsStamped /\ Untouched /\ Applied

(* ------------------------------------------------------------------------ *)
(* The model a sheet makes, part by part.                                     *)

Between(s) == s.joins \ UNION {Homed(s, a) : a \in s.areas}
Across(s) == {Relationship(s, l) : l \in Between(s)}
Replaced(s, f) == [a \in Areas |-> IF a \in s.areas THEN Area(s, f, a) ELSE None]

LEMMA BuiltIs ==
    ASSUME NEW s, NEW f, IsFiles(f)
    PROVE  /\ IsFiles(Built(s, f))
           /\ Built(s, f).areas = s.areas
           /\ Built(s, f).beside = {} /\ Built(s, f).rules = f.rules
           /\ Built(s, f).cross = Across(s)
           /\ Built(s, f).dir = Replaced(s, f)
  <1> DEFINE cross == Across(s)
             dir == Replaced(s, f)
  <1>1. Built(s, f) = [f EXCEPT !.areas = s.areas, !.beside = {}, !.cross = cross, !.dir = dir]
    BY DEF Built, Across, Between, Replaced
  <1> HIDE DEF cross, dir
  <1>2. /\ IsFiles(Built(s, f))
        /\ Built(s, f).areas = s.areas /\ Built(s, f).beside = {} /\ Built(s, f).rules = f.rules
        /\ Built(s, f).cross = cross /\ Built(s, f).dir = dir
    BY <1>1 DEF IsFiles
  <1> QED BY <1>2 DEF cross, dir

LEMMA AreaIs ==
    ASSUME NEW s, NEW f, NEW a
    PROVE  /\ Area(s, f, a).listed = Members(s, a) /\ Area(s, f, a).owned = Owned(s, a)
           /\ Area(s, f, a).hidden = Owned(s, a) \cap Hidden(f)
           /\ Area(s, f, a).joins = {Relationship(s, l) : l \in Homed(s, a)}
           /\ Area(s, f, a).metrics = Kept(s, f, a) \cup {Metric(m) : m \in {n \in s.metrics : n.area = a}}
  BY DEF Area

(* ------------------------------------------------------------------------ *)
(* What a whole apply has written is the sheet.                               *)

Whole ==
    /\ InputsAreWhole /\ IsFiles(before) /\ Checked(spec, before) /\ org = Built(spec, before)
    /\ files.areas = org.areas /\ files.cross = org.cross /\ files.beside = {}
    /\ files.dir = [a \in Areas |-> org.dir[a]] /\ files.rules = spec.rules

LEMMA Directories ==
    ASSUME Whole
    PROVE  files.areas = spec.areas /\ \A a \in spec.areas : files.dir[a] = Area(spec, before, a)
  <1>1. \A a \in spec.areas : a \in Areas
    BY DEF Whole, Checked, InputsAreWhole
  <1>2. files.areas = spec.areas
    BY BuiltIs DEF Whole
  <1>3. ASSUME NEW a \in spec.areas PROVE files.dir[a] = Area(spec, before, a)
    <2>1. org.dir = Replaced(spec, before)
      BY BuiltIs DEF Whole
    <2>2. files.dir[a] = org.dir[a]
      BY <1>1, <1>3 DEF Whole
    <2> QED BY <1>1, <1>3, <2>1, <2>2 DEF Replaced
  <1> QED BY <1>2, <1>3

LEMMA HiddenIs ==
    ASSUME Whole
    PROVE  Hidden(files) = Hidden(before) \cap Rows(spec)
  <1>1. \A t \in Rows(spec) : spec.owner[t] \in spec.areas
    BY DEF Whole, Checked
  <1>2. ASSUME NEW a \in files.areas PROVE files.dir[a].hidden = Owned(spec, a) \cap Hidden(before)
    BY <1>2, Directories, AreaIs
  <1>3. Hidden(files) = UNION {Owned(spec, a) \cap Hidden(before) : a \in spec.areas}
    BY <1>2, Directories DEF Hidden
  <1>4. ASSUME NEW t PROVE t \in Hidden(files) <=> t \in Hidden(before) \cap Rows(spec)
    BY <1>1, <1>3 DEF Owned
  <1> QED BY <1>4

LEMMA WholeTables ==
    ASSUME Whole
    PROVE  TablesAreTheSheets
  <1>1. ASSUME NEW a \in spec.areas
        PROVE  files.dir[a].owned = Owned(spec, a) /\ files.dir[a].listed = Members(spec, a)
    BY <1>1, Directories, AreaIs
  <1> QED BY <1>1, Directories, HiddenIs DEF TablesAreTheSheets, Whole

LEMMA WholeMetrics ==
    ASSUME Whole
    PROVE  MetricsAreKept
  <1>1. ASSUME NEW a \in spec.areas
        PROVE  files.dir[a].metrics = Kept(spec, before, a)
                                      \cup {Metric(m) : m \in {n \in spec.metrics : n.area = a}}
    BY <1>1, Directories, AreaIs
  <1>2. ASSUME NEW a \in spec.areas,
               NEW k \in IF a \in before.areas THEN before.dir[a].metrics ELSE {}
        PROVE  k \in Kept(spec, before, a) \/ \E m \in spec.metrics : m.area = a /\ m.name = k.name
    BY <1>2 DEF Kept
  <1> QED BY <1>1, <1>2 DEF MetricsAreKept


LEMMA RelationshipIs ==
    ASSUME NEW s, NEW l
    PROVE  Relationship(s, l).link = l /\ Relationship(s, l).state # "rejected"
  BY DEF Relationship, Reviewed

(* What the loader serves, by where it is.                                    *)
OfArea(f, a) == {i \in f.dir[a].joins : {From[i.link], To[i.link]} \subseteq f.dir[a].owned \ f.dir[a].hidden}
OfAreas(f) == UNION {OfArea(f, a) : a \in f.areas}
Others(f) == {i \in f.cross \cup f.beside : {From[i.link], To[i.link]} \cap Hidden(f) = {}}

LEMMA ServedIs ==
    ASSUME NEW f, NEW r
    PROVE  r \in ServedJoins(f)
             <=> r.state # "rejected" /\ (r \in Others(f) \/ \E a \in f.areas : r \in OfArea(f, a))
  <1>1. ServedJoins(f) = {j \in Others(f) \cup OfAreas(f) : j.state # "rejected"}
    BY DEF ServedJoins, OfAreas, OfArea, Others
  <1>2. r \in OfAreas(f) <=> \E a \in f.areas : r \in OfArea(f, a)
    BY DEF OfAreas
  <1> QED BY <1>1, <1>2

(* A join is served of an area that owns its tables when neither is hidden.   *)
LEMMA ServedOfAnArea ==
    ASSUME Whole, NEW a \in spec.areas
    PROVE  OfArea(files, a)
           = {Relationship(spec, l) : l \in {k \in Homed(spec, a) : {From[k], To[k]} \cap Hidden(before) = {}}}
  <1>1. /\ files.dir[a].joins = {Relationship(spec, l) : l \in Homed(spec, a)}
        /\ files.dir[a].owned = Owned(spec, a)
        /\ files.dir[a].hidden = Owned(spec, a) \cap Hidden(before)
    BY Directories, AreaIs
  <1>2. ASSUME NEW l \in Homed(spec, a)
        PROVE  /\ {From[l], To[l]} \subseteq Owned(spec, a)
               /\ Relationship(spec, l).link = l
    BY RelationshipIs DEF Homed
  <1>3. ASSUME NEW l \in Homed(spec, a)
        PROVE  {From[l], To[l]} \subseteq Owned(spec, a) \ (Owned(spec, a) \cap Hidden(before))
                 <=> {From[l], To[l]} \cap Hidden(before) = {}
    BY <1>2
  <1> QED BY <1>1, <1>2, <1>3 DEF OfArea

LEMMA ServedBetween ==
    ASSUME Whole
    PROVE  Others(files)
           = {Relationship(spec, l) : l \in {k \in Between(spec) : {From[k], To[k]} \cap Hidden(before) = {}}}
  <1>1. files.cross \cup files.beside = Across(spec)
    <2>1. Built(spec, before).cross = Across(spec)
      BY BuiltIs DEF Whole
    <2>2. files.cross = Built(spec, before).cross /\ files.beside = {}
      BY DEF Whole
    <2> QED BY <2>1, <2>2
  <1>2. ASSUME NEW l \in Between(spec)
        PROVE  /\ Relationship(spec, l).link = l
               /\ {From[l], To[l]} \cap Hidden(files) = {} <=> {From[l], To[l]} \cap Hidden(before) = {}
    <2>1. {From[l], To[l]} \subseteq Rows(spec)
      BY DEF Whole, Checked, Between
    <2> QED BY <2>1, HiddenIs, RelationshipIs
  <1> QED BY <1>1, <1>2 DEF Across, Others

LEMMA WholeJoins ==
    ASSUME Whole
    PROVE  JoinsAreTheSheets
  <1> DEFINE Shown(l) == {From[l], To[l]} \cap Hidden(before) = {}
  <1>1. \A a \in spec.areas : OfArea(files, a) = {Relationship(spec, l) : l \in {k \in Homed(spec, a) : Shown(k)}}
    BY ServedOfAnArea
  <1>2. Others(files) = {Relationship(spec, l) : l \in {k \in Between(spec) : Shown(k)}}
    BY ServedBetween
  <1>3. \A l : l \in spec.joins <=> l \in Between(spec) \/ \E a \in spec.areas : l \in Homed(spec, a)
    BY DEF Between, Homed
  <1> HIDE DEF Shown
  <1>4. ASSUME NEW j PROVE j \in ServedJoins(files) <=> \E l \in spec.joins : Shown(l) /\ j = Relationship(spec, l)
    <2>1. ASSUME j \in ServedJoins(files) PROVE \E l \in spec.joins : Shown(l) /\ j = Relationship(spec, l)
      <3>1. CASE j \in Others(files)
        BY <3>1, <1>2, <1>3
      <3>2. CASE \E a \in spec.areas : j \in OfArea(files, a)
        BY <3>2, <1>1, <1>3
      <3> QED BY <2>1, <3>1, <3>2, Directories, ServedIs
    <2>2. ASSUME NEW l \in spec.joins, Shown(l), j = Relationship(spec, l) PROVE j \in ServedJoins(files)
      <3>1. j.state # "rejected"
        BY <2>2, RelationshipIs
      <3>2. j \in Others(files) \/ \E a \in spec.areas : j \in OfArea(files, a)
        BY <2>2, <1>1, <1>2, <1>3
      <3> QED BY <3>1, <3>2, Directories, ServedIs
    <2> QED BY <2>1, <2>2
  <1>5. ServedJoins(files) = {Relationship(spec, l) : l \in {k \in spec.joins : Shown(k)}}
    BY <1>4
  <1> QED BY <1>5 DEF JoinsAreTheSheets, Shown

(* ------------------------------------------------------------------------ *)
(* The steps.                                                                 *)

LEMMA InvInit == InputsAreWhole /\ Init => IInv
  BY DEF InputsAreWhole, Init, IInv, Shaped, NothingToldYet, SavedAside, Undisturbed,
         RestsStamped, Untouched, Applied, InWrites

LEMMA BeginStep ==
    ASSUME IInv, NEW s \in Specs, NEW signer \in BOOLEAN, NEW dryRun \in BOOLEAN, Begin(s, signer, dryRun)
    PROVE  IInv'
  <1> DEFINE good == CheckSpec(s, files, signer, dryRun) /\ Validates(Built(s, files))
  <1>1. /\ phase = "idle" /\ spec' = s /\ before' = files /\ files' = files
        /\ stamp' = stamp /\ unstamped' = unstamped /\ backup' = backup
        /\ phase' = IF good /\ ~dryRun THEN "planned" ELSE "idle"
        /\ org' = IF good THEN Built(s, files) ELSE files
        /\ result' = CASE ~good -> "refused" [] good /\ dryRun -> "previewed" [] OTHER -> "none"
    BY DEF Begin
  <1>2. good => Checked(s, files)
    BY DEF CheckSpec, Checked
  <1> HIDE DEF good
  <1>3. Shaped' /\ SavedAside' /\ RestsStamped' /\ Untouched'
    BY <1>1 DEF IInv, Shaped, SavedAside, InWrites, RestsStamped, Untouched
  <1>4. NothingToldYet' /\ Applied'
    BY <1>1 DEF NothingToldYet, Applied
  <1>5. Undisturbed'
    <2> SUFFICES ASSUME phase' = "planned" PROVE Undisturbed'
      BY <1>1 DEF Undisturbed
    <2>1. org' = Built(s, files) /\ Checked(s, files)
      BY <1>1, <1>2
    <2>2. org' = Built(spec, before)' /\ Checked(spec, before)'
      BY <1>1, <2>1 DEF Built, Checked, Area, Kept, Hidden, Defined
    <2>3. Progress'
      BY <1>1 DEF Progress, Unwritten, FromRoot
    <2> QED BY <2>2, <2>3 DEF Undisturbed
  <1> QED BY <1>3, <1>4, <1>5 DEF IInv


(* A step of the apply that leaves the newest stamp, or none, to the next.    *)
LEMMA BackupStep ==
    ASSUME IInv, Backup
    PROVE  IInv'
  <1>1. /\ phase = "planned" /\ phase' = "saved" /\ backup' = files /\ before' = files
        /\ UNCHANGED <<files, stamp, spec, org, todo, result, raced, unstamped>>
    BY DEF Backup, Saved
  <1>2. Shaped' /\ NothingToldYet' /\ SavedAside' /\ RestsStamped'
    BY <1>1 DEF IInv, Shaped, NothingToldYet, SavedAside, RestsStamped
  <1>3. result' = "none"
    BY <1>1 DEF IInv, NothingToldYet
  <1>4. Undisturbed'
    <2> SUFFICES ASSUME raced = {} PROVE Undisturbed'
      BY <1>1 DEF Undisturbed
    <2>1. before = files /\ org = Built(spec, before) /\ Checked(spec, before)
      BY <1>1 DEF IInv, Undisturbed, Progress, Unwritten
    <2>2. before' = before /\ spec' = spec /\ org' = org /\ files' = before'
      BY <1>1, <2>1
    <2>3. org' = Built(spec, before)' /\ Checked(spec, before)'
      BY <2>1, <2>2 DEF Built, Checked, Area, Kept, Hidden, Defined
    <2>4. Progress'
      BY <1>1, <2>2 DEF Progress, Unwritten, FromRoot
    <2> QED BY <2>3, <2>4 DEF Undisturbed
  <1> QED BY <1>2, <1>3, <1>4 DEF IInv, Untouched, Applied

(* A write keeps all but how far the files are.                               *)
LEMMA WriteStep ==
    ASSUME IInv, NEW from \in InWrites, NEW to \in InWrites \cup {"good"}, Writes(from, to),
           IsFiles(files'), result' = result, raced = {} /\ Progress => Progress'
    PROVE  IInv'
  <1>1. /\ phase = from /\ phase' = to /\ to # "idle" /\ from # "idle" /\ from \in InWrites
        /\ UNCHANGED <<spec, org, backup, before, raced, unstamped>>
    BY DEF Writes, InWrites
  <1>2. Shaped' /\ RestsStamped'
    BY <1>1 DEF IInv, Shaped, RestsStamped
  <1>3. NothingToldYet' /\ Untouched' /\ Applied'
    <2>1. result' = "none"
      BY <1>1 DEF IInv, NothingToldYet, Writes
    <2> QED BY <2>1 DEF NothingToldYet, Untouched, Applied
  <1>4. SavedAside' /\ Undisturbed'
    <2>1. SavedAside'
      BY <1>1 DEF IInv, SavedAside
    <2> SUFFICES ASSUME raced = {} PROVE Undisturbed'
      BY <1>1, <2>1 DEF Undisturbed
    <2>2. org = Built(spec, before) /\ Checked(spec, before) /\ Progress
      BY <1>1 DEF IInv, Undisturbed
    <2>3. org' = Built(spec, before)' /\ Checked(spec, before)'
      BY <1>1, <2>2 DEF Built, Checked, Area, Kept, Hidden, Defined
    <2> QED BY <2>2, <2>3 DEF Undisturbed
  <1> QED BY <1>2, <1>3, <1>4 DEF IInv


LEMMA RemoveAreasStep ==
    ASSUME IInv, RemoveAreas
    PROVE  IInv'
  <1>1. /\ Writes("saved", "removed") /\ result' = result /\ phase' = "removed"
        /\ files' = [files EXCEPT !.dir = Emptied]
    BY DEF RemoveAreas, Writes
  <1>2. IsFiles(files') /\ files'.dir = Emptied'
    BY <1>1 DEF IInv, Shaped, IsFiles, Emptied
  <1>3. Progress'
    BY <1>1, <1>2 DEF Progress, Unwritten, FromRoot
  <1> QED BY <1>1, <1>2, <1>3, WriteStep DEF InWrites

LEMMA UnlinkCrossStep ==
    ASSUME IInv, UnlinkCross
    PROVE  IInv'
  <1>1. /\ Writes("removed", "unlinked") /\ result' = result /\ phase = "removed" /\ phase' = "unlinked"
        /\ files' = [files EXCEPT !.beside = {}]
    BY DEF UnlinkCross, Writes
  <1>2. IsFiles(files') /\ files'.dir = files.dir /\ files'.beside = {}
    BY <1>1 DEF IInv, Shaped, IsFiles
  <1>3. Progress => Progress'
    BY <1>1, <1>2 DEF Progress, Unwritten, FromRoot, Emptied
  <1> QED BY <1>1, <1>2, <1>3, WriteStep DEF InWrites

LEMMA WriteRootStep ==
    ASSUME IInv, WriteRoot
    PROVE  IInv'
  <1> DEFINE anchors == IF org.anchors # {} THEN org.anchors ELSE files.anchors
  <1>1. /\ Writes("unlinked", "areas") /\ result' = result /\ phase = "unlinked" /\ phase' = "areas"
        /\ org' = org /\ spec' = spec /\ raced' = raced /\ todo' = org.areas
        /\ files' = [files EXCEPT !.areas = org.areas, !.cross = org.cross, !.anchors = anchors]
    BY DEF WriteRoot, Writes
  <1> HIDE DEF anchors
  <1>2. /\ IsFiles(files') /\ files'.areas = org.areas /\ files'.cross = org.cross
        /\ files'.dir = files.dir /\ files'.beside = files.beside
    BY <1>1 DEF IInv, Shaped, IsFiles
  <1>3. ASSUME raced = {}, Progress PROVE Progress'
    <2>1. files.dir = Emptied /\ files.beside = {}
      BY <1>1, <1>3 DEF Progress
    <2>2. org = Built(spec, before) /\ IsFiles(before)
      BY <1>1, <1>3 DEF IInv, Undisturbed, Shaped
    <2>3. org.areas = spec.areas /\ org.dir = Replaced(spec, before)
      BY <2>2, BuiltIs
    <2>4. files'.dir = [a \in Areas |-> IF a \in todo' THEN None ELSE org'.dir[a]]
      <3>1. ASSUME NEW a \in Areas PROVE None = IF a \in org.areas THEN None ELSE org.dir[a]
        BY <3>1, <2>3 DEF Replaced
      <3> QED BY <1>1, <1>2, <2>1, <3>1 DEF Emptied
    <2> QED BY <1>1, <1>2, <2>1, <2>4 DEF Progress, Unwritten, FromRoot
  <1> QED BY <1>1, <1>2, <1>3, WriteStep DEF InWrites

LEMMA WriteAreaStep ==
    ASSUME IInv, NEW a \in Areas, WriteArea(a)
    PROVE  IInv'
  <1>1. /\ a \in todo /\ todo' = todo \ {a} /\ result' = result
        /\ phase = "areas" /\ phase' = IF todo' = {} THEN "written" ELSE "areas"
        /\ Writes("areas", IF todo' = {} THEN "written" ELSE "areas")
        /\ org' = org /\ spec' = spec /\ raced' = raced
        /\ files' = [files EXCEPT !.dir[a] = Over(@, org.dir[a])]
    BY DEF WriteArea, Writes
  <1>2. /\ IsFiles(files') /\ files'.areas = files.areas /\ files'.cross = files.cross
        /\ files'.beside = files.beside
        /\ files'.dir = [files.dir EXCEPT ![a] = Over(files.dir[a], org.dir[a])]
    BY <1>1 DEF IInv, Shaped, IsFiles
  <1>3. ASSUME raced = {}, Progress PROVE Progress'
    <2>1. files.dir = [b \in Areas |-> IF b \in todo THEN None ELSE org.dir[b]]
      BY <1>1, <1>3 DEF Progress, FromRoot
    <2>2. Over(files.dir[a], org.dir[a]) = org.dir[a]
      BY <1>1, <2>1 DEF Over
    <2>3. files'.dir = [b \in Areas |-> IF b \in todo' THEN None ELSE org'.dir[b]]
      BY <1>1, <1>2, <2>1, <2>2
    <2>4. files'.areas = org'.areas /\ files'.cross = org'.cross /\ files'.beside = {}
      BY <1>1, <1>2, <1>3 DEF Progress, FromRoot
    <2> QED BY <1>1, <2>3, <2>4 DEF Progress, Unwritten, FromRoot
  <1> QED BY <1>1, <1>2, <1>3, WriteStep DEF InWrites

LEMMA StampStep ==
    ASSUME IInv, Stamp
    PROVE  IInv'
  <1>1. /\ Writes("written", "stamped") /\ result' = result /\ phase = "written" /\ phase' = "stamped"
        /\ files' = files /\ todo' = todo /\ org' = org /\ spec' = spec
    BY DEF Stamp, Writes
  <1>2. Progress => Progress'
    BY <1>1 DEF Progress, Unwritten, FromRoot
  <1>3. IsFiles(files')
    BY <1>1 DEF IInv, Shaped
  <1> QED BY <1>1, <1>2, <1>3, WriteStep DEF InWrites

LEMMA WriteRulesStep ==
    ASSUME IInv, WriteRules
    PROVE  IInv'
  <1>1. /\ Writes("stamped", "ruled") /\ result' = result /\ phase = "stamped" /\ phase' = "ruled"
        /\ files' = [files EXCEPT !.rules = spec.rules] /\ todo' = todo /\ org' = org /\ spec' = spec
    BY DEF WriteRules, Writes
  <1>2. /\ IsFiles(files') /\ files'.areas = files.areas /\ files'.cross = files.cross
        /\ files'.beside = files.beside /\ files'.dir = files.dir /\ files'.rules = spec.rules
    BY <1>1 DEF IInv, Shaped, IsFiles
  <1>3. Progress => Progress'
    BY <1>1, <1>2 DEF Progress, Unwritten, FromRoot
  <1> QED BY <1>1, <1>2, <1>3, WriteStep DEF InWrites

LEMMA ReadBackStep ==
    ASSUME IInv, ReadBack
    PROVE  IInv'
  <1>1. /\ Writes("ruled", "good") /\ result' = result /\ phase = "ruled" /\ phase' = "good"
        /\ files' = files /\ todo' = todo /\ org' = org /\ spec' = spec
    BY DEF ReadBack, Writes
  <1>2. Progress => Progress'
    BY <1>1 DEF Progress, Unwritten, FromRoot
  <1>3. IsFiles(files')
    BY <1>1 DEF IInv, Shaped
  <1> QED BY <1>1, <1>2, <1>3, WriteStep DEF InWrites

(* ------------------------------------------------------------------------ *)
(* How an apply ends.                                                         *)

LEMMA RecordStep ==
    ASSUME InputsAreWhole, IInv, Record
    PROVE  IInv'
  <1>1. /\ phase = "good" /\ phase' = "idle" /\ result' = "applied" /\ files' = files /\ stamp' = files
        /\ UNCHANGED <<spec, org, backup, before, raced>>
    BY DEF Record, Settled
  <1>2. Shaped' /\ NothingToldYet' /\ SavedAside' /\ Undisturbed' /\ RestsStamped' /\ Untouched'
    BY <1>1 DEF IInv, Shaped, NothingToldYet, SavedAside, InWrites, Undisturbed, RestsStamped, Untouched
  <1>3. ASSUME raced = {} PROVE TablesAreTheSheets' /\ JoinsAreTheSheets' /\ MetricsAreKept'
    <2>1. org = Built(spec, before) /\ Checked(spec, before) /\ Progress
      BY <1>1, <1>3 DEF IInv, Undisturbed
    <2>2. todo = {} /\ files.dir = [a \in Areas |-> IF a \in todo THEN None ELSE org.dir[a]]
      BY <1>1, <2>1 DEF Progress, FromRoot
    <2>3. Whole
      BY <1>1, <2>1, <2>2 DEF Whole, Progress, FromRoot, IInv, Shaped
    <2>4. TablesAreTheSheets /\ JoinsAreTheSheets /\ MetricsAreKept
      BY <2>3, WholeTables, WholeJoins, WholeMetrics
    <2> QED BY <1>1, <2>4 DEF TablesAreTheSheets, JoinsAreTheSheets, MetricsAreKept, Hidden, ServedJoins
  <1>4. Applied'
    BY <1>1, <1>3 DEF Applied
  <1> QED BY <1>2, <1>4 DEF IInv

LEMMA RestoreStep ==
    ASSUME IInv, Restore
    PROVE  IInv'
  <1>1. /\ phase \in InWrites /\ phase' = "idle" /\ result' = "restored" /\ files' = backup /\ stamp' = backup
        /\ UNCHANGED <<spec, org, backup, before, raced>>
    BY DEF Restore, Settled
  <1>2. backup = before
    BY <1>1 DEF IInv, SavedAside
  <1> QED BY <1>1, <1>2 DEF IInv, Shaped, NothingToldYet, SavedAside, InWrites, Undisturbed,
                            RestsStamped, Untouched, Applied

LEMMA KillStep ==
    ASSUME IInv, Kill
    PROVE  IInv'
  BY DEF Kill, IInv, Shaped, NothingToldYet, SavedAside, InWrites, Undisturbed,
         RestsStamped, Untouched, Applied

(* ------------------------------------------------------------------------ *)
(* The other tools.                                                           *)

LEMMA OtherStep ==
    ASSUME IInv, NEW f, IsFiles(f), Other(f), stamp' = f \/ unstamped' = TRUE
    PROVE  IInv'
  <1>1. /\ files' = f /\ phase' = phase
        /\ result' = IF phase = "idle" THEN "none" ELSE result
        /\ raced' = IF phase = "idle" THEN raced ELSE raced \cup {phase}
        /\ UNCHANGED <<spec, org, backup, before>>
    BY DEF Other
  <1>2. Shaped' /\ SavedAside' /\ Undisturbed' /\ RestsStamped'
    BY <1>1 DEF IInv, Shaped, SavedAside, Undisturbed, RestsStamped
  <1>3. result' = "none"
    BY <1>1 DEF IInv, NothingToldYet
  <1> QED BY <1>2, <1>3 DEF IInv, NothingToldYet, Untouched, Applied

LEMMA ExcludeStep ==
    ASSUME IInv, NEW t, Exclude(t)
    PROVE  IInv'
  <1>1. PICK a : Tool([files EXCEPT !.dir[a].hidden = @ \cup {t}])
    BY DEF Exclude
  <1> DEFINE f == [files EXCEPT !.dir[a].hidden = @ \cup {t}]
  <1>2. IsFiles(f)
    BY DEF IInv, Shaped, IsFiles
  <1> HIDE DEF f
  <1>3. Tool(f)
    BY <1>1 DEF f
  <1> QED BY <1>2, <1>3, OtherStep DEF Tool

LEMMA AddJoinStep ==
    ASSUME IInv, NEW l, AddJoin(l)
    PROVE  IInv'
  <1> DEFINE f == [files EXCEPT !.beside = @ \cup {[link |-> l, state |-> "unreviewed"]}]
  <1>1. Tool(f)
    BY DEF AddJoin
  <1>2. IsFiles(f)
    BY DEF IInv, Shaped, IsFiles
  <1> HIDE DEF f
  <1> QED BY <1>1, <1>2, OtherStep DEF Tool

LEMMA AddMetricStep ==
    ASSUME IInv, NEW a, NEW m, AddMetric(a, m)
    PROVE  IInv'
  <1> DEFINE f == [files EXCEPT !.dir[a].metrics = {k \in @ : k.name # m.name} \cup {m}]
  <1>1. Tool(f)
    BY DEF AddMetric
  <1>2. IsFiles(f)
    BY DEF IInv, Shaped, IsFiles
  <1> HIDE DEF f
  <1> QED BY <1>1, <1>2, OtherStep DEF Tool

LEMMA DeclareAmbiguityStep ==
    ASSUME IInv, NEW t, DeclareAmbiguity(t)
    PROVE  IInv'
  <1> DEFINE f == [files EXCEPT !.anchors = @ \cup {t}]
  <1>1. Other(f) /\ unstamped' = TRUE
    BY DEF DeclareAmbiguity
  <1>2. IsFiles(f)
    BY DEF IInv, Shaped, IsFiles
  <1> HIDE DEF f
  <1> QED BY <1>1, <1>2, OtherStep

LEMMA InvStep == InputsAreWhole /\ IInv /\ [Next]_vars => IInv'
  <1> SUFFICES ASSUME InputsAreWhole, IInv, [Next]_vars PROVE IInv'
    OBVIOUS
  <1>1. ASSUME Apply PROVE IInv'
    <2>1. CASE \E s \in Specs, signer, dryRun \in BOOLEAN : Begin(s, signer, dryRun)
      BY <2>1, BeginStep
    <2>2. CASE \E a \in Areas : WriteArea(a)
      BY <2>2, WriteAreaStep
    <2> QED BY <1>1, <2>1, <2>2, BackupStep, RemoveAreasStep, UnlinkCrossStep, WriteRootStep, StampStep,
               WriteRulesStep, ReadBackStep, RecordStep, RestoreStep, KillStep DEF Apply
  <1>2. CASE UNCHANGED vars
    BY <1>2, SMTT(30) DEF vars, IInv, Shaped, NothingToldYet, SavedAside, Undisturbed, Progress, RestsStamped,
                Untouched, Applied, Checked, Built, Area, Kept, Hidden, Defined, Emptied, ServedJoins,
                TablesAreTheSheets, JoinsAreTheSheets, MetricsAreKept
  <1> QED BY <1>1, <1>2, ExcludeStep, AddJoinStep, AddMetricStep, DeclareAmbiguityStep DEF Next

LEMMA WholeFromInv == IInv => SpecIsWhole
  BY DEF IInv, RestsStamped, Untouched, Applied, SpecIsWhole

(* However the steps of an apply, its failures, its kill and the other tools' *)
(* writes fall, the model at rest is the sheet or what it was, all of it, and *)
(* the newest stamp names it.                                                 *)
THEOREM AppliesAreWhole == FilesSpec => []SpecIsWhole
  <1>1. FilesInit => IInv
    BY InputsAssumption, InvInit DEF FilesInit
  <1>2. IInv /\ [FilesNext]_<<writer, vars, baseVars>> => IInv'
    BY InputsAssumption, InvStep DEF FilesNext
  <1> QED BY <1>1, <1>2, WholeFromInv, PTL DEF FilesSpec


(* ------------------------------------------------------------------------ *)
(* A refresh: what its steps know.                                            *)

(* What the files say of a column and of a join.                              *)
ColumnRec == [state : {"approved", "rejected", "stale"}, type : Types \cup {NoType}, key : BOOLEAN]
JoinRec ==
    [link : Links, place : {"area", "sidecar", "datasource"}, card : Base!Cardinalities,
     state : {"unreviewed", "approved", "rejected", "stale"}, by : {NoType, "system", "person"},
     confirmed : BOOLEAN, flagged : BOOLEAN]

(* A column the model never had is not taken out; a join between areas is in  *)
(* one of the two files for those, and the engine approves none in the        *)
(* separate one; a rejected join is no longer the engine's.                   *)
ColumnsAreSound(m) ==
    m.col \in [Columns -> ColumnRec] /\ \A c \in Columns : ~Base!Present(m, c) => m.col[c].state = "approved"
JoinIsSound(e) ==
    /\ e \in JoinRec
    /\ e.place = "area" <=> e.link \notin Apart
    /\ e.place = "sidecar" => e.by # "system"
    /\ e.state = "rejected" => e.by # "system"
IsModel(m) ==
    /\ DOMAIN m = {"table", "col", "grain", "uniques", "joins"}
    /\ m.table \in [DbTables -> {NoType, "approved", "rejected", "stale"}]
    /\ ColumnsAreSound(m)
    /\ m.grain = [t \in DbTables |-> m.grain[t]]
    /\ \A e \in m.joins : JoinIsSound(e)

(* The steps of a refresh under way.                                          *)
Steps == {"loaded", "merged", "listed", "tabled"}
AfterMerge == Steps \ {"loaded"}

(* What it read is what the database has, until the schema changes under it.  *)
Reading ==
    step \in Steps =>
        /\ option \in Options /\ IsModel(held)
        /\ \A c \in Columns : seen.table[TableOf[c]].type[c] \in Types \cup {NoType}
        /\ "schema" \notin under =>
              /\ seen.listed = Base!InDatabase(db)
              /\ \A c \in Columns :
                    seen.table[TableOf[c]].type[c] = IF TableOf[c] \in option.unreadable THEN NoType ELSE db.type[c]

(* What is merged, part by part: the tables and columns; the joins people     *)
(* decided, kept unless a confirmed one is on one retyped column, which is    *)
(* there unconfirmed; the labels, from the merged keys; and an area with joins has joins still, so that its  *)
(* file is written.                                                           *)
TablesAreMerged ==
    /\ merged.table = [t \in DbTables |-> Base!MergedTable(t)]
    /\ merged.col = [c \in Columns |-> IF Base!InBatch(TableOf[c]) THEN Base!MergedColumn(c) ELSE held.col[c]]
Surrendered(e) == e.confirmed /\ Base!IsColumnForm(e.link) /\ Base!TypeMoved(e)
BackIn(e, joins) == \E f \in joins : f.link = e.link /\ f.place = e.place /\ f.card = e.card /\ ~f.confirmed
DecisionsAreMerged ==
    \A e \in held.joins : Base!Decided(e) => e \in merged.joins \/ (Surrendered(e) /\ BackIn(e, merged.joins))
LabelsAreTheKeys ==
    option.uniquesUnread = {} =>
        \A e \in merged.joins : Base!EngineApproved(e) => e.card = Base!InferCardinality(merged, e.link)
AreasStay == (\E e \in held.joins : e.place = "area") => Base!AreaJoins # {}
Merging ==
    step \in AfterMerge =>
        IsModel(merged) /\ TablesAreMerged /\ DecisionsAreMerged /\ LabelsAreTheKeys /\ AreasStay

(* What is on disk after each write, until a decision falls under it.         *)
ListedJoins ==
    {e \in held.joins : e.place # "datasource"}
        \cup {Base!Listed(e) : e \in {j \in merged.joins : j.place # "area"}}
Undecided ==
    "decision" \notin under =>
        /\ step \in {"loaded", "merged"} => model = held
        /\ step = "listed" => model = [held EXCEPT !.joins = ListedJoins]
        /\ step = "tabled" => model = [merged EXCEPT !.joins = ListedJoins]

(* The inductive invariant of a refresh.                                      *)
RefreshInv ==
    /\ db \in Catalogs /\ IsModel(model)
    /\ step \in {"idle"} \cup Steps
    /\ step \in {"listed", "tabled"} => synced = {}
    /\ Reading /\ Merging /\ Undecided /\ ServesTheDatabase

(* The assumption, as the steps use it.                                       *)
LEMMA CatalogFacts ==
    /\ TableOf \in [Columns -> DbTables] /\ Links \subseteq SUBSET (Columns \X Columns)
    /\ Apart \subseteq Links /\ References \subseteq Links
    /\ \A l, k \in Links : l \subseteq k /\ l \notin Apart => k \notin Apart
    /\ FirstCatalogs \subseteq Catalogs
    /\ \A d \in Catalogs : d.type \in [Columns -> Types \cup {NoType}] /\ d.links \subseteq Links
    /\ NoType \notin Types \cup {"approved", "rejected", "stale", "system"}
    /\ \A o \in Options : o.all => o.scope = DbTables
  BY InputsAssumption DEF Base!CatalogsAreOne

(* A step that leaves what the merge is made of leaves what is known of it.   *)
LEMMA SameMerge ==
    ASSUME UNCHANGED <<option, seen, held, merged>>,
           IsModel(merged), TablesAreMerged, DecisionsAreMerged, LabelsAreTheKeys, AreasStay
    PROVE  /\ TablesAreMerged' /\ DecisionsAreMerged' /\ LabelsAreTheKeys' /\ AreasStay'
  <1>1. \A t : Base!InBatch(t)' = Base!InBatch(t) /\ Base!MergedTable(t)' = Base!MergedTable(t)
    BY DEF Base!InBatch, Base!Readable, Base!ColumnsOf, Base!MergedTable, Base!Gone, Base!InModel
  <1>2. \A c : Base!MergedColumn(c)' = Base!MergedColumn(c)
    BY DEF Base!MergedColumn, Base!MergedKey, Base!OldKey, Base!ColumnsOf, Base!Present
  <1>3. TablesAreMerged'
    BY <1>1, <1>2 DEF TablesAreMerged
  <1>4. DecisionsAreMerged'
    BY DEF DecisionsAreMerged, Surrendered, BackIn, Base!Decided, Base!Ends, Base!TypeMoved
  <1>5. LabelsAreTheKeys' /\ AreasStay'
    BY DEF LabelsAreTheKeys, AreasStay, Base!AreaJoins, Base!EngineApproved
  <1> QED BY <1>3, <1>4, <1>5

LEMMA RefreshInitInv == Base!Init => RefreshInv
  <1> SUFFICES ASSUME Base!Init PROVE RefreshInv
    OBVIOUS
  <1>1. db \in Catalogs /\ step = "idle" /\ synced = {} /\ model = Base!NoTables
    BY CatalogFacts DEF Base!Init
  <1>2. IsModel(Base!NoTables)
    BY CatalogFacts DEF IsModel, ColumnsAreSound, ColumnRec, Base!NoTables, Base!Present
  <1> QED BY <1>1, <1>2 DEF RefreshInv, Reading, Merging, Undecided, ServesTheDatabase,
            Base!ServesTheDatabase, Steps, AfterMerge

(* Around the refresh: the schema changes, or people decide.                  *)
LEMMA Outside ==
    ASSUME RefreshInv, UNCHANGED <<option, seen, held, merged, step>>, synced' = {},
           db' \in Catalogs, IsModel(model'), under \subseteq under',
           db' = db \/ step = "idle" \/ "schema" \in under',
           model' = model \/ step = "idle" \/ "decision" \in under'
    PROVE  RefreshInv'
  <1>1. Merging'
    <2> SUFFICES ASSUME step' \in AfterMerge
                 PROVE  IsModel(merged) /\ TablesAreMerged' /\ DecisionsAreMerged' /\ LabelsAreTheKeys' /\ AreasStay'
      BY DEF Merging, IsModel, ColumnsAreSound, JoinIsSound, Base!Present, AfterMerge, Steps
    <2>1. IsModel(merged) /\ TablesAreMerged /\ DecisionsAreMerged /\ LabelsAreTheKeys /\ AreasStay
      BY DEF RefreshInv, Merging, AfterMerge, Steps
    <2> QED BY <2>1, SameMerge
  <1>2. Reading'
    BY DEF RefreshInv, Reading, Steps, Base!InDatabase
  <1>3. Undecided'
    <2>1. ListedJoins' = ListedJoins
      BY DEF ListedJoins
    <2> QED BY <2>1 DEF RefreshInv, Undecided, Steps
  <1>4. ServesTheDatabase'
    BY DEF ServesTheDatabase, Base!ServesTheDatabase
  <1> QED BY <1>1, <1>2, <1>3, <1>4 DEF RefreshInv, Steps

(* The reading takes the database as it is and the model on disk.             *)
LEMMA ReadStep == ASSUME RefreshInv, NEW o \in Options, Base!ReadTables(o) PROVE RefreshInv'
  <1>1. /\ option' = o /\ held' = model /\ step' = "loaded" /\ UNCHANGED <<db, model, merged, under, synced>>
        /\ seen' = [listed |-> Base!InDatabase(db), table |-> [t \in DbTables |-> Base!BuildTable(t, o)]]
    BY DEF Base!ReadTables
  <1>2. \A c \in Columns :
          seen'.table[TableOf[c]].type[c] = IF TableOf[c] \in o.unreadable THEN NoType ELSE db.type[c]
    <2> SUFFICES ASSUME NEW c \in Columns
                 PROVE  seen'.table[TableOf[c]].type[c] = IF TableOf[c] \in o.unreadable THEN NoType ELSE db.type[c]
      OBVIOUS
    <2>1. seen'.table[TableOf[c]] = Base!BuildTable(TableOf[c], o)
      BY <1>1, CatalogFacts
    <2>2. c \in Base!ColumnsOf(TableOf[c])
      BY DEF Base!ColumnsOf
    <2> QED BY <2>1, <2>2 DEF Base!BuildTable
  <1>3. \A c \in Columns : db.type[c] \in Types \cup {NoType}
    BY CatalogFacts DEF RefreshInv
  <1>4. Reading'
    BY <1>1, <1>2, <1>3 DEF RefreshInv, Reading, Base!InDatabase
  <1>5. ServesTheDatabase'
    BY <1>1 DEF RefreshInv, ServesTheDatabase, Base!ServesTheDatabase, Base!Served, Base!Present, Base!Excluded,
                Base!EngineApproved
  <1> QED BY <1>1, <1>4, <1>5 DEF RefreshInv, Merging, Undecided, Steps, AfterMerge

(* A refresh given up, or dead between two files, has told nobody it is done. *)
LEMMA EndStep == ASSUME RefreshInv, Base!NotWritten \/ Base!Crash PROVE RefreshInv'
  <1>1. step' = "idle" /\ UNCHANGED <<db, model, synced>>
    BY DEF Base!NotWritten, Base!Crash, Base!Rest
  <1>2. ServesTheDatabase'
    BY <1>1 DEF RefreshInv, ServesTheDatabase, Base!ServesTheDatabase, Base!Served, Base!Present, Base!Excluded,
                Base!EngineApproved
  <1> QED BY <1>1, <1>2 DEF RefreshInv, Reading, Merging, Undecided, Steps, AfterMerge

(* ------------------------------------------------------------------------ *)
(* The merge.                                                                 *)

(* What it does to one join: it stays the join of its link in its place.      *)
IsOf(f, e) == JoinIsSound(f) /\ f.link = e.link /\ f.place = e.place

(* A decided join that goes back to review is on one column, and is left as   *)
(* it was labelled, unconfirmed and not approved.                             *)
GivenBack(e) ==
    LET f == Base!Withdraw(e)
    IN  /\ Base!GoesBack(e) /\ Base!IsColumnForm(e.link)
        /\ IsOf(f, e) /\ f.card = e.card /\ ~f.confirmed /\ f.state # "approved"

LEMMA Labelled ==
    ASSUME NEW m, NEW l
    PROVE  Base!InferCardinality(m, l) \in Base!Cardinalities
  BY DEF Base!InferCardinality, Base!Cardinalities

LEMMA JoinSteps ==
    ASSUME NEW m, NEW e, JoinIsSound(e)
    PROVE  /\ IsOf(Base!Withdraw(e), e) /\ IsOf(Base!Suggest(m, e), e) /\ IsOf(Base!Recheck(m, e), e)
           /\ Base!EngineApproved(Base!Suggest(m, e)) => Base!Suggest(m, e) = e
           /\ Base!EngineApproved(Base!Recheck(m, e)) /\ ~Base!KeysUnknown(e.link) =>
                 Base!Recheck(m, e).card = Base!InferCardinality(m, e.link)
           /\ Base!Decided(e) => Base!Recheck(m, e) = e /\ (Base!Withdraw(e) = e \/ GivenBack(e))
  <1>1. /\ IsOf(Base!Withdraw(e), e) /\ (Base!Withdraw(e) = e \/ Base!GoesBack(e))
        /\ Base!Decided(e) => Base!Withdraw(e) = e \/ GivenBack(e)
    <2>1. CASE Base!GoesBack(e)
      <3> DEFINE f == [e EXCEPT !.confirmed = FALSE, !.state = IF @ = "stale" THEN @ ELSE "unreviewed"]
      <3>1. Base!Withdraw(e) = f /\ IsOf(f, e) /\ f.card = e.card /\ ~f.confirmed /\ f.state # "approved"
        BY <2>1 DEF IsOf, JoinIsSound, JoinRec, Base!Withdraw
      <3>2. Base!Decided(e) => Base!IsColumnForm(e.link)
        BY <2>1 DEF Base!Decided, Base!GoesBack, Base!Unserved, JoinIsSound
      <3> QED BY <2>1, <3>1, <3>2 DEF GivenBack
    <2>2. CASE ~Base!GoesBack(e)
      BY <2>2 DEF IsOf, Base!Withdraw
    <2> QED BY <2>1, <2>2
  <1>2. \A f : JoinIsSound(f) => IsOf(Base!Suggest(m, f), f)
    <2> SUFFICES ASSUME NEW f, JoinIsSound(f) PROVE IsOf(Base!Suggest(m, f), f)
      OBVIOUS
    <2>1. NoType # "system"
      BY CatalogFacts
    <2>2. CASE Base!LooksOneToOne(m, f)
      <3> DEFINE g == [f EXCEPT !.state = "unreviewed", !.by = NoType, !.flagged = TRUE]
      <3>1. Base!Suggest(m, f) = g
        BY <2>2 DEF Base!Suggest
      <3> QED BY <2>1, <3>1 DEF IsOf, JoinIsSound, JoinRec
    <2>3. CASE ~Base!LooksOneToOne(m, f)
      BY <2>3 DEF IsOf, Base!Suggest
    <2> QED BY <2>2, <2>3
  <1>3. \A f : JoinIsSound(f) /\ Base!EngineApproved(Base!Suggest(m, f)) => Base!Suggest(m, f) = f
    BY DEF JoinIsSound, JoinRec, Base!Suggest, Base!EngineApproved
  <1>4. IsOf(Base!Relabel(m, e), e)
        /\ (~Base!KeysUnknown(e.link) => Base!Relabel(m, e).card = Base!InferCardinality(m, e.link))
    BY Labelled DEF IsOf, JoinIsSound, JoinRec, Base!Relabel
  <1>5. CASE Base!EngineApproved(e)
    <2> DEFINE f == Base!Relabel(m, e)
    <2>1. Base!Recheck(m, e) = Base!Suggest(m, f)
      BY <1>5 DEF Base!Recheck
    <2>2. JoinIsSound(f) /\ f.link = e.link /\ f.place = e.place
          /\ (~Base!KeysUnknown(e.link) => f.card = Base!InferCardinality(m, e.link))
      BY <1>4 DEF IsOf
    <2> HIDE DEF f
    <2>3. IsOf(Base!Suggest(m, f), f)
      BY <1>2, <2>2
    <2>4. ~Base!Decided(e)
      BY <1>5 DEF Base!Decided, Base!EngineApproved, Base!Unserved
    <2> QED BY <1>1, <1>2, <1>3, <2>1, <2>2, <2>3, <2>4 DEF IsOf
  <1>6. CASE ~Base!EngineApproved(e)
    <2>1. Base!Recheck(m, e) = e
      BY <1>6 DEF Base!Recheck
    <2> QED BY <1>1, <1>2, <1>3, <1>6, <2>1 DEF IsOf
  <1> QED BY <1>5, <1>6

(* A join read from the database is sound, and one the engine approves is     *)
(* labelled from the keys.                                                    *)
LEMMA FreshSteps ==
    ASSUME db \in Catalogs, NEW m, NEW e \in Base!FreshJoins(m)
    PROVE  /\ JoinIsSound(e)
           /\ Base!EngineApproved(e) => e.card = Base!InferCardinality(m, e.link)
  <1>1. CASE \E l \in Base!DeclaredKeys(m) : e = Base!DeclaredJoin(m, l)
    <2>1. PICK l \in Base!DeclaredKeys(m) : e = Base!DeclaredJoin(m, l)
      BY <1>1
    <2>2. l \in Links
      BY CatalogFacts DEF Base!DeclaredKeys
    <2> QED BY <2>1, <2>2, Labelled
            DEF JoinIsSound, JoinRec, Base!DeclaredJoin, Base!Join, Base!HomeOf, Base!EngineApproved
  <1>2. CASE \E l \in Base!GuessedReferences(m) : e = Base!GuessedJoin(m, l)
    <2>1. PICK l \in Base!GuessedReferences(m) : e = Base!GuessedJoin(m, l)
      BY <1>2
    <2>2. l \in Links
      BY CatalogFacts DEF Base!GuessedReferences
    <2> QED BY <2>1, <2>2, Labelled
            DEF JoinIsSound, JoinRec, Base!GuessedJoin, Base!Join, Base!HomeOf, Base!EngineApproved
  <1> QED BY <1>1, <1>2 DEF Base!FreshJoins

(* What it does to all of them: they are sound, what the engine vouches for   *)
(* is labelled from the merged keys, what people decided is there or, on one  *)
(* column, there for review, and an area with joins keeps some.               *)
LEMMA JoinsMerge ==
    ASSUME db \in Catalogs, NEW m, IsModel(held)
    PROVE  LET new == Base!MergedJoins(m) IN
           /\ \A e \in new : JoinIsSound(e)
           /\ \A e \in new : Base!EngineApproved(e) /\ ~Base!KeysUnknown(e.link) =>
                 e.card = Base!InferCardinality(m, e.link)
           /\ \A e \in held.joins :
                 Base!Decided(e) => e \in new \/ (Base!GoesBack(e) /\ Base!IsColumnForm(e.link) /\ BackIn(e, new))
           /\ (\E e \in held.joins : e.place = "area") => \E e \in new : e.place = "area"
  <1> DEFINE prev == {Base!Withdraw(e) : e \in held.joins}
             fresh == Base!FreshJoins(m)
             applied == Base!Applied(prev, fresh)
             kept == prev \ Base!Replaced(prev, fresh)
             added == {f \in applied : f.link \notin {e.link : e \in kept}}
             new == Base!MergedJoins(m)
  <1>1. new = {Base!Recheck(m, e) : e \in kept} \cup {Base!Suggest(m, c) : c \in added}
    BY DEF Base!MergedJoins
  <1>2. \A e \in held.joins : JoinIsSound(e)
    BY DEF IsModel
  <1>3. \A e \in prev : JoinIsSound(e)
    BY <1>2, JoinSteps DEF IsOf
  <1>4. kept \subseteq prev /\ added \subseteq applied /\ applied \subseteq fresh
    BY DEF Base!Applied
  <1>5. \A e \in fresh : JoinIsSound(e) /\ (Base!EngineApproved(e) => e.card = Base!InferCardinality(m, e.link))
    BY FreshSteps
  <1>6. \A p \in prev \ kept : /\ Base!EngineApproved(p)
                               /\ \E c \in applied : p.link \subseteq c.link
    BY DEF Base!Replaced, Base!Applied, Base!Covered
  <1>7. \A e \in held.joins : Base!Withdraw(e) \in prev
    OBVIOUS
  <1>8. /\ \A e \in kept : Base!Recheck(m, e) \in new
        /\ \A c \in added : Base!Suggest(m, c) \in new
        /\ \A f \in new : \/ \E e \in kept : f = Base!Recheck(m, e)
                          \/ \E c \in added : f = Base!Suggest(m, c)
    BY <1>1
  <1>9. added = {f \in applied : \A e \in kept : f.link # e.link}
    OBVIOUS
  <1> HIDE DEF prev, fresh, applied, kept, added, new
  <1>10. \A f \in new : /\ JoinIsSound(f)
                        /\ Base!EngineApproved(f) /\ ~Base!KeysUnknown(f.link) =>
                              f.card = Base!InferCardinality(m, f.link)
    <2>1. ASSUME NEW e \in kept PROVE
              /\ JoinIsSound(Base!Recheck(m, e))
              /\ Base!EngineApproved(Base!Recheck(m, e)) /\ ~Base!KeysUnknown(Base!Recheck(m, e).link) =>
                    Base!Recheck(m, e).card = Base!InferCardinality(m, Base!Recheck(m, e).link)
      BY <1>3, <1>4, JoinSteps DEF IsOf
    <2>2. ASSUME NEW c \in added PROVE
              /\ JoinIsSound(Base!Suggest(m, c))
              /\ Base!EngineApproved(Base!Suggest(m, c)) =>
                    Base!Suggest(m, c).card = Base!InferCardinality(m, Base!Suggest(m, c).link)
      BY <1>4, <1>5, JoinSteps DEF IsOf
    <2> QED BY <1>8, <2>1, <2>2
  <1>11. ASSUME NEW e \in held.joins, Base!Decided(e)
         PROVE  e \in new \/ (Base!GoesBack(e) /\ Base!IsColumnForm(e.link) /\ BackIn(e, new))
    <2>1. JoinIsSound(e) /\ (Base!Withdraw(e) = e \/ GivenBack(e))
      BY <1>2, <1>11, JoinSteps
    <2>2. ASSUME NEW f \in prev, ~Base!EngineApproved(f) PROVE f \in kept /\ f \in new
      <3>1. f \in kept
        BY <1>6, <2>2
      <3>2. Base!Recheck(m, f) = f
        BY <2>2 DEF Base!Recheck
      <3> QED BY <1>8, <3>1, <3>2
    <2>3. CASE Base!Withdraw(e) = e
      <3>1. ~Base!EngineApproved(e)
        BY <1>11 DEF Base!Decided, Base!EngineApproved, Base!Unserved
      <3> QED BY <1>7, <2>2, <2>3, <3>1
    <2>4. CASE GivenBack(e)
      <3> DEFINE f == Base!Withdraw(e)
      <3>1. /\ f \in prev /\ Base!GoesBack(e) /\ Base!IsColumnForm(e.link) /\ ~Base!EngineApproved(f)
            /\ f.link = e.link /\ f.place = e.place /\ f.card = e.card /\ ~f.confirmed
        BY <1>7, <2>4 DEF GivenBack, IsOf, Base!EngineApproved
      <3> HIDE DEF f
      <3> QED BY <2>2, <3>1 DEF BackIn
    <2> QED BY <2>1, <2>3, <2>4
  <1>12. ASSUME NEW e \in held.joins, e.place = "area" PROVE \E f \in new : f.place = "area"
    <2> DEFINE p == Base!Withdraw(e)
    <2>1. p \in prev /\ JoinIsSound(p) /\ p.place = "area"
      BY <1>2, <1>7, <1>12, JoinSteps DEF IsOf
    <2> HIDE DEF p
    <2>2. CASE p \in kept
      BY <1>8, <2>1, <2>2, JoinSteps DEF IsOf
    <2>3. CASE p \notin kept
      <3>1. PICK c \in applied : p.link \subseteq c.link
        BY <1>6, <2>1, <2>3
      <3>2. JoinIsSound(c) /\ c.place = "area"
        BY <1>4, <1>5, <2>1, <3>1, CatalogFacts DEF JoinIsSound, JoinRec
      <3>3. CASE c \in added
        BY <1>8, <3>2, <3>3, JoinSteps DEF IsOf
      <3>4. CASE c \notin added
        <4>1. PICK k \in kept : k.link = c.link
          BY <1>9, <3>4
        <4>2. JoinIsSound(k) /\ k.place = "area"
          BY <1>3, <1>4, <3>2, <4>1 DEF JoinIsSound
        <4> QED BY <1>8, <4>2, JoinSteps DEF IsOf
      <3> QED BY <3>3, <3>4
    <2> QED BY <2>2, <2>3
  <1> QED BY <1>10, <1>11, <1>12 DEF new

(* A merged column is one the files can hold.                                 *)
LEMMA ColumnsMerge ==
    ASSUME IsModel(held), \A c \in Columns : seen.table[TableOf[c]].type[c] \in Types \cup {NoType},
           NEW m, m.col = [c \in Columns |-> IF Base!InBatch(TableOf[c]) THEN Base!MergedColumn(c) ELSE held.col[c]]
    PROVE  ColumnsAreSound(m)
  <1> SUFFICES ASSUME NEW c \in Columns
               PROVE  m.col[c] \in ColumnRec /\ (m.col[c].type = NoType => m.col[c].state = "approved")
    BY DEF ColumnsAreSound, Base!Present
  <1>1. held.col[c] \in ColumnRec /\ (held.col[c].type = NoType => held.col[c].state = "approved")
    BY DEF IsModel, ColumnsAreSound, Base!Present
  <1>2. CASE ~Base!InBatch(TableOf[c])
    BY <1>1, <1>2
  <1>3. CASE Base!InBatch(TableOf[c])
    <2> DEFINE old == held.col[c]
               type == seen.table[TableOf[c]].type[c]
               isKey == c \in Base!MergedKey(TableOf[c])
    <2>1. m.col[c] = Base!MergedColumn(c) /\ type \in Types \cup {NoType} /\ isKey \in BOOLEAN
      BY <1>3
    <2>2. CASE Base!Present(held, c) /\ type = NoType
      <3>1. Base!MergedColumn(c) = [old EXCEPT !.state = IF @ \in Base!Unserved THEN @ ELSE "stale", !.key = isKey]
        BY <2>2 DEF Base!MergedColumn
      <3> QED BY <1>1, <2>1, <2>2, <3>1 DEF ColumnRec, Base!Present
    <2>3. CASE Base!Present(held, c) /\ type # NoType
      <3>1. Base!MergedColumn(c) =
              [old EXCEPT !.state = IF @ = "stale" THEN "approved" ELSE @, !.type = type, !.key = isKey]
        BY <2>3 DEF Base!MergedColumn
      <3> QED BY <1>1, <2>1, <2>3, <3>1 DEF ColumnRec, Base!Present
    <2>4. CASE ~Base!Present(held, c) /\ type # NoType
      <3>1. Base!MergedColumn(c) =
              [state |-> IF c \in option.excluded THEN "rejected" ELSE "approved", type |-> type, key |-> isKey]
        BY <2>4 DEF Base!MergedColumn
      <3> DEFINE state == IF c \in option.excluded THEN "rejected" ELSE "approved"
      <3>2. m.col[c] = [state |-> state, type |-> type, key |-> isKey] /\ state \in {"approved", "rejected"}
        BY <2>1, <3>1
      <3> HIDE DEF state, type, isKey
      <3> QED BY <2>1, <2>4, <3>2 DEF ColumnRec
    <2>5. CASE ~Base!Present(held, c) /\ type = NoType
      <3>1. Base!MergedColumn(c) = old
        BY <2>5 DEF Base!MergedColumn
      <3> QED BY <1>1, <2>1, <3>1
    <2> QED BY <2>2, <2>3, <2>4, <2>5
  <1> QED BY <1>2, <1>3

(* The merge establishes what Merging says of it.                             *)
LEMMA MergeStep == ASSUME RefreshInv, Base!MergeModel PROVE RefreshInv'
  <1> DEFINE m == Base!MergedTables
             joins == Base!MergedJoins(m)
  <1>1. /\ step = "loaded" /\ step' = "merged" /\ merged' = Base!MergedModel
        /\ UNCHANGED <<db, model, option, seen, held, under, synced>>
    BY DEF Base!MergeModel
  <1>2. /\ DOMAIN merged' = {"table", "col", "grain", "uniques", "joins"}
        /\ merged'.table = m.table /\ merged'.col = m.col /\ merged'.grain = m.grain
        /\ merged'.uniques = m.uniques /\ merged'.joins = joins
    <2>1. DOMAIN m = {"table", "col", "grain", "uniques"}
      BY DEF Base!MergedTables
    <2>2. Base!MergedModel = [x \in (DOMAIN m) \cup {"joins"} |-> IF x = "joins" THEN joins ELSE m[x]]
      BY DEF Base!MergedModel
    <2> HIDE DEF m, joins
    <2> QED BY <1>1, <2>1, <2>2
  <1>3. /\ m.table = [t \in DbTables |-> Base!MergedTable(t)]
        /\ m.col = [c \in Columns |-> IF Base!InBatch(TableOf[c]) THEN Base!MergedColumn(c) ELSE held.col[c]]
        /\ m.grain = [t \in DbTables |-> m.grain[t]]
    BY DEF Base!MergedTables
  <1>4. IsModel(held) /\ \A c \in Columns : seen.table[TableOf[c]].type[c] \in Types \cup {NoType}
    BY <1>1 DEF RefreshInv, Reading, Steps
  <1> HIDE DEF m
  <1>5. /\ \A e \in joins : JoinIsSound(e)
        /\ \A e \in joins : Base!EngineApproved(e) /\ ~Base!KeysUnknown(e.link) =>
              e.card = Base!InferCardinality(m, e.link)
        /\ \A e \in held.joins :
              Base!Decided(e) => e \in joins \/ (Base!GoesBack(e) /\ Base!IsColumnForm(e.link) /\ BackIn(e, joins))
        /\ (\E e \in held.joins : e.place = "area") => \E e \in joins : e.place = "area"
    BY <1>4, JoinsMerge DEF RefreshInv
  <1> HIDE DEF joins
  <1>6. merged'.table \in [DbTables -> {NoType, "approved", "rejected", "stale"}]
    BY <1>2, <1>3, <1>4 DEF IsModel, Base!MergedTable, Base!Unserved
  <1>7. ColumnsAreSound(merged')
    <2>1. ColumnsAreSound(m)
      BY <1>3, <1>4, ColumnsMerge
    <2> QED BY <1>2, <2>1 DEF ColumnsAreSound, Base!Present
  <1>8. IsModel(merged')
    BY <1>2, <1>3, <1>5, <1>6, <1>7 DEF IsModel
  <1>9. TablesAreMerged'
    <2>1. \A t : Base!InBatch(t)' = Base!InBatch(t) /\ Base!MergedTable(t)' = Base!MergedTable(t)
      BY <1>1 DEF Base!InBatch, Base!Readable, Base!ColumnsOf, Base!MergedTable, Base!Gone, Base!InModel
    <2>2. \A c : Base!MergedColumn(c)' = Base!MergedColumn(c)
      BY <1>1 DEF Base!MergedColumn, Base!MergedKey, Base!OldKey, Base!ColumnsOf, Base!Present
    <2> QED BY <1>1, <1>2, <1>3, <2>1, <2>2 DEF TablesAreMerged
  <1>10. DecisionsAreMerged'
    <2> SUFFICES ASSUME NEW e \in held.joins, Base!Decided(e), e \notin joins
                 PROVE  /\ e.confirmed /\ Base!IsColumnForm(e.link) /\ BackIn(e, joins)
                        /\ \E c \in Base!Ends(e.link) : merged'.col[c].type # held.col[c].type
      BY <1>1, <1>2 DEF DecisionsAreMerged, Surrendered, BackIn, Base!Decided, Base!Ends, Base!TypeMoved
    <2>1. Base!GoesBack(e) /\ Base!IsColumnForm(e.link) /\ BackIn(e, joins)
      BY <1>5
    <2>2. PICK c \in Base!Ends(e.link) : Base!InBatch(TableOf[c]) /\ Base!Retyped(c)
      BY <2>1 DEF Base!GoesBack, Base!OnRetyped
    <2>3. c \in Columns
      <3>1. e.link \in SUBSET (Columns \X Columns)
        BY <1>4, CatalogFacts DEF IsModel, JoinIsSound, JoinRec
      <3> QED BY <3>1 DEF Base!Ends, Base!FromColumns, Base!ToColumns
    <2>4. merged'.col[c] = Base!MergedColumn(c)
      BY <1>2, <1>3, <2>2, <2>3
    <2>5. held.col[c] \in ColumnRec
      BY <1>4, <2>3 DEF IsModel, ColumnsAreSound
    <2>6. merged'.col[c].type = seen.table[TableOf[c]].type[c]
      BY <2>2, <2>4, <2>5 DEF Base!MergedColumn, Base!Retyped, ColumnRec
    <2> QED BY <2>1, <2>2, <2>6 DEF Base!GoesBack, Base!Retyped
  <1>11. LabelsAreTheKeys'
    <2> SUFFICES ASSUME option.uniquesUnread = {}, NEW e \in joins, Base!EngineApproved(e)
                 PROVE  e.card = Base!InferCardinality(merged', e.link)
      BY <1>1, <1>2 DEF LabelsAreTheKeys, Base!EngineApproved
    <2>1. e.card = Base!InferCardinality(m, e.link)
      BY <1>5 DEF Base!KeysUnknown
    <2> QED BY <1>2, <2>1 DEF Base!InferCardinality, Base!UniqueOn
  <1>12. AreasStay'
    BY <1>1, <1>2, <1>5 DEF AreasStay, Base!AreaJoins
  <1>13. ServesTheDatabase'
    BY <1>1 DEF RefreshInv, ServesTheDatabase, Base!ServesTheDatabase, Base!Served, Base!Present, Base!Excluded,
                Base!EngineApproved
  <1>14. Merging'
    BY <1>8, <1>9, <1>10, <1>11, <1>12 DEF Merging, IsModel, ColumnsAreSound, JoinIsSound, Base!Present
  <1>15. Reading' /\ Undecided'
    BY <1>1 DEF RefreshInv, Reading, Undecided, Steps, Base!InDatabase
  <1> QED BY <1>1, <1>13, <1>14, <1>15 DEF RefreshInv, Steps

(* ------------------------------------------------------------------------ *)
(* The writes.                                                                *)
(* A join written to datasource.yaml changes its place and nothing else.      *)
LEMMA ListedIsSound ==
    ASSUME NEW e, JoinIsSound(e), e.place # "area"
    PROVE  /\ JoinIsSound(Base!Listed(e)) /\ Base!Listed(e).place = "datasource"
           /\ Base!Listed(e).link = e.link /\ Base!Listed(e).card = e.card
           /\ Base!Listed(e).state = e.state /\ Base!Listed(e).by = e.by
           /\ e.place = "datasource" => Base!Listed(e) = e
  BY DEF JoinIsSound, JoinRec, Base!Listed

(* A model with other sound joins.                                            *)
LEMMA SetJoins ==
    ASSUME NEW m, NEW joins, IsModel(m), \A e \in joins : JoinIsSound(e)
    PROVE  LET n == [m EXCEPT !.joins = joins] IN
           /\ IsModel(n) /\ n.joins = joins
           /\ n.table = m.table /\ n.col = m.col /\ n.grain = m.grain /\ n.uniques = m.uniques
  <1> DEFINE n == [m EXCEPT !.joins = joins]
  <1>1. /\ DOMAIN n = DOMAIN m /\ n.joins = joins
        /\ n.table = m.table /\ n.col = m.col /\ n.grain = m.grain /\ n.uniques = m.uniques
    BY DEF IsModel
  <1> HIDE DEF n
  <1>2. IsModel(n)
    BY <1>1 DEF IsModel, ColumnsAreSound, Base!Present
  <1> QED BY <1>1, <1>2 DEF n

(* A write but the last leaves what was read and merged as it is.             *)
LEMMA RefreshWrites ==
    ASSUME RefreshInv, step \in AfterMerge, step' \in {"listed", "tabled"}, synced' = {},
           UNCHANGED <<db, option, seen, held, merged, under>>, IsModel(model'), Undecided'
    PROVE  RefreshInv'
  <1>1. Merging'
    <2>1. IsModel(merged) /\ TablesAreMerged /\ DecisionsAreMerged /\ LabelsAreTheKeys /\ AreasStay
      BY DEF RefreshInv, Merging
    <2>2. IsModel(merged)'
      BY <2>1 DEF IsModel, ColumnsAreSound, JoinIsSound, Base!Present
    <2> QED BY <2>1, <2>2, SameMerge DEF Merging
  <1>2. Reading'
    BY DEF RefreshInv, Reading, Steps, AfterMerge, Base!InDatabase
  <1>3. ServesTheDatabase'
    BY DEF ServesTheDatabase, Base!ServesTheDatabase
  <1> QED BY <1>1, <1>2, <1>3 DEF RefreshInv, Steps

(* datasource.yaml, the tables, the joins of the areas.                       *)
LEMMA WriteDatasourceStep == ASSUME RefreshInv, Base!WriteDatasource PROVE RefreshInv'
  <1> DEFINE joins == {e \in model.joins : e.place # "datasource"}
                      \cup {Base!Listed(e) : e \in {j \in merged.joins : j.place # "area"}}
  <1>1. /\ step = "merged" /\ step' = "listed" /\ model' = [model EXCEPT !.joins = joins] /\ synced' = {}
        /\ UNCHANGED <<db, option, seen, held, merged, under>>
    BY DEF Base!WriteDatasource
  <1>2. IsModel(model) /\ IsModel(merged)
    BY <1>1 DEF RefreshInv, Merging, AfterMerge, Steps
  <1>3. \A e \in joins : JoinIsSound(e)
    BY <1>2, ListedIsSound DEF IsModel
  <1>4. "decision" \notin under => model = held /\ joins = ListedJoins
    BY <1>1 DEF RefreshInv, Undecided, ListedJoins
  <1> HIDE DEF joins
  <1>5. IsModel(model')
    <2>1. IsModel([model EXCEPT !.joins = joins])
      BY <1>2, <1>3, SetJoins
    <2> QED BY <1>1, <2>1
  <1>6. Undecided'
    <2>1. ListedJoins' = ListedJoins
      BY <1>1 DEF ListedJoins
    <2> QED BY <1>1, <1>4, <2>1 DEF Undecided
  <1> QED BY <1>1, <1>5, <1>6, RefreshWrites DEF AfterMerge, Steps

LEMMA WriteTablesStep == ASSUME RefreshInv, Base!WriteTables PROVE RefreshInv'
  <1>1. /\ step = "listed" /\ step' = "tabled" /\ model' = [merged EXCEPT !.joins = model.joins]
        /\ UNCHANGED <<db, option, seen, held, merged, under, synced>>
    BY DEF Base!WriteTables
  <1>2. IsModel(model) /\ IsModel(merged) /\ synced = {}
    BY <1>1 DEF RefreshInv, Merging, AfterMerge, Steps
  <1>3. \A e \in model.joins : JoinIsSound(e)
    BY <1>2 DEF IsModel
  <1>4. IsModel(model')
    BY <1>1, <1>2, <1>3, SetJoins
  <1>5. "decision" \notin under => model.joins = ListedJoins
    <2> SUFFICES ASSUME "decision" \notin under PROVE model.joins = ListedJoins
      OBVIOUS
    <2>1. model = [held EXCEPT !.joins = ListedJoins] /\ IsModel(held)
      BY <1>1 DEF RefreshInv, Undecided, Reading, Steps
    <2> QED BY <2>1 DEF IsModel
  <1>6. Undecided'
    <2>1. ListedJoins' = ListedJoins
      BY <1>1 DEF ListedJoins
    <2> QED BY <1>1, <1>5, <2>1 DEF Undecided
  <1> QED BY <1>1, <1>2, <1>4, <1>6, RefreshWrites DEF AfterMerge, Steps

(* What a refresh of the whole catalog merges, with every table read, is what *)
(* the database has and nobody took out.                                      *)
LEMMA MergedIsServed ==
    ASSUME RefreshInv, step = "tabled", option.all, option.unreadable = {}, under = {}, NEW c \in Columns
    PROVE  LET table == merged.table[TableOf[c]]
               col == merged.col[c]
           IN  /\ (table \notin {"rejected", "stale", NoType} /\ col.type # NoType /\ col.state \notin {"rejected", "stale"})
                    <=> (db.type[c] # NoType /\ "rejected" \notin {table, col.state})
               /\ (table \notin {"rejected", "stale", NoType} /\ col.type # NoType /\ col.state \notin {"rejected", "stale"})
                    => col.type = db.type[c]
  <1> DEFINE t == TableOf[c]
  <1>1. /\ IsModel(held) /\ option \in Options /\ seen.listed = Base!InDatabase(db)
        /\ \A x \in Columns : seen.table[TableOf[x]].type[x] = db.type[x]
    BY DEF RefreshInv, Reading, Steps
  <1>2. t \in DbTables /\ option.scope = DbTables /\ NoType \notin {"approved", "rejected", "stale"}
    BY <1>1, CatalogFacts
  <1>3. Base!InBatch(t) <=> \E x \in Columns : TableOf[x] = t /\ db.type[x] # NoType
    BY <1>1, <1>2 DEF Base!InBatch, Base!Readable, Base!ColumnsOf
  <1>4. t \in seen.listed <=> \E x \in Columns : TableOf[x] = t /\ db.type[x] # NoType
    BY <1>1 DEF Base!InDatabase
  <1>5. TablesAreMerged
    BY DEF RefreshInv, Merging, AfterMerge, Steps
  <1>6. merged.table[t] = Base!MergedTable(t)
        /\ merged.col[c] = IF Base!InBatch(t) THEN Base!MergedColumn(c) ELSE held.col[c]
    BY <1>2, <1>5 DEF TablesAreMerged
  <1>7. /\ held.table[t] \in {NoType, "approved", "rejected", "stale"}
        /\ held.col[c] \in ColumnRec /\ (held.col[c].type = NoType => held.col[c].state = "approved")
    BY <1>1, <1>2 DEF IsModel, ColumnsAreSound, Base!Present
  <1>8. CASE ~Base!InBatch(t)
    <2>1. db.type[c] = NoType /\ t \notin seen.listed
      BY <1>3, <1>4, <1>8
    <2>2. merged.table[t] \in {NoType, "rejected", "stale"}
      BY <1>6, <1>7, <1>8, <2>1 DEF Base!MergedTable, Base!Gone, Base!InModel, Base!Unserved
    <2> QED BY <2>1, <2>2
  <1>9. CASE Base!InBatch(t)
    <2>0. ~Base!Gone(t)
      BY <1>3, <1>4, <1>9 DEF Base!Gone
    <2>1. merged.table[t] = IF held.table[t] = "rejected" THEN "rejected" ELSE "approved"
      <3>1. Base!MergedTable(t) = IF held.table[t] \in {NoType, "stale"} THEN "approved" ELSE held.table[t]
        BY <1>9, <2>0 DEF Base!MergedTable
      <3> HIDE DEF t
      <3> QED BY <1>2, <1>6, <1>7, <3>1
    <2>2. merged.col[c] = Base!MergedColumn(c) /\ seen.table[t].type[c] = db.type[c]
      BY <1>1, <1>6, <1>9
    <2>3. CASE db.type[c] = NoType
      <3>1. merged.col[c].type = NoType \/ merged.col[c].state \in {"rejected", "stale"}
        BY <1>7, <2>2, <2>3 DEF Base!MergedColumn, Base!Present, Base!Unserved, ColumnRec
      <3> QED BY <2>3, <3>1
    <2>4. CASE db.type[c] # NoType
      <3>1. merged.col[c].type = db.type[c] /\ merged.col[c].state \in {"approved", "rejected"}
        BY <1>7, <2>2, <2>4 DEF Base!MergedColumn, Base!Present, ColumnRec
      <3> QED BY <1>2, <2>1, <2>4, <3>1
    <2> QED BY <2>3, <2>4
  <1> QED BY <1>8, <1>9

(* The last write completes the merged model: no join of before is left in an *)
(* area, and the separate file has none the engine vouches for.               *)
LEMMA WriteAreasStep == ASSUME RefreshInv, Base!WriteAreas PROVE RefreshInv'
  <1> DEFINE joins == IF Base!AreaJoins = {} THEN model.joins
                      ELSE {e \in model.joins : e.place # "area"} \cup Base!AreaJoins
  <1>1. /\ step = "tabled" /\ step' = "idle" /\ model' = [model EXCEPT !.joins = joins] /\ db' = db
        /\ "columns" \in synced' => option.all /\ option.unreadable = {} /\ under = {}
        /\ "labels" \in synced' => "columns" \in synced' /\ option.uniquesUnread = {}
    BY DEF Base!WriteAreas, Base!Rest
  <1>2. IsModel(model) /\ IsModel(merged)
    BY <1>1 DEF RefreshInv, Merging, AfterMerge, Steps
  <1>3. \A e \in joins : JoinIsSound(e)
    BY <1>2 DEF IsModel, Base!AreaJoins
  <1> HIDE DEF joins
  <1>4. IsModel(model') /\ model'.joins = joins /\ model'.table = model.table /\ model'.col = model.col
        /\ model'.grain = model.grain /\ model'.uniques = model.uniques
    BY <1>1, <1>2, <1>3, SetJoins
  <1>5. ASSUME under = {}
        PROVE  /\ model.joins = ListedJoins /\ model.table = merged.table /\ model.col = merged.col
               /\ model.grain = merged.grain /\ model.uniques = merged.uniques
    <2>1. model = [merged EXCEPT !.joins = ListedJoins]
      BY <1>1, <1>5 DEF RefreshInv, Undecided
    <2> QED BY <1>2, <2>1 DEF IsModel
  <1>6. ASSUME "columns" \in synced', NEW c \in Columns
        PROVE  /\ Base!Served(c)' <=> db'.type[c] # NoType /\ ~Base!Excluded(c)'
               /\ Base!Served(c)' => model'.col[c].type = db'.type[c]
    BY <1>1, <1>4, <1>5, <1>6, MergedIsServed DEF Base!Served, Base!Excluded, Base!Present, Base!Unserved
  <1>7. ASSUME "labels" \in synced', NEW e \in model'.joins, Base!EngineApproved(e)
        PROVE  e.card = Base!InferCardinality(model, e.link)'
    <2>1. under = {} /\ option.uniquesUnread = {}
      BY <1>1, <1>7
    <2>2. e.card = Base!InferCardinality(merged, e.link)
      <3>1. LabelsAreTheKeys /\ AreasStay
        BY <1>1 DEF RefreshInv, Merging, AfterMerge, Steps
      <3>2. CASE e \in merged.joins
        BY <1>7, <2>1, <3>1, <3>2 DEF LabelsAreTheKeys
      <3>3. CASE e \notin merged.joins
        <4>1. e \in ListedJoins /\ (Base!AreaJoins # {} => e.place # "area")
          BY <1>4, <1>5, <1>7, <2>1, <3>3 DEF joins, Base!AreaJoins
        <4>2. CASE e \in held.joins /\ e.place # "datasource"
          <5>1. IsModel(held)
            BY <1>1 DEF RefreshInv, Reading, Steps
          <5>2. e.place = "sidecar" /\ e.by # "system"
            BY <3>1, <4>1, <4>2, <5>1 DEF AreasStay, IsModel, JoinIsSound, JoinRec
          <5> QED BY <1>7, <5>2 DEF Base!EngineApproved
        <4>3. CASE \E j \in merged.joins : j.place # "area" /\ e = Base!Listed(j)
          <5>1. PICK j \in merged.joins : j.place # "area" /\ e = Base!Listed(j)
            BY <4>3
          <5>2. e.link = j.link /\ e.card = j.card /\ e.state = j.state /\ e.by = j.by
            BY <1>2, <5>1, ListedIsSound DEF IsModel
          <5> QED BY <1>7, <2>1, <3>1, <5>1, <5>2 DEF LabelsAreTheKeys, Base!EngineApproved
        <4> QED BY <4>1, <4>2, <4>3 DEF ListedJoins
      <3> QED BY <3>2, <3>3
    <2> QED BY <1>4, <1>5, <2>1, <2>2 DEF Base!InferCardinality, Base!UniqueOn
  <1>8. ServesTheDatabase'
    BY <1>6, <1>7 DEF ServesTheDatabase, Base!ServesTheDatabase, Base!EngineApproved
  <1> QED BY <1>1, <1>4, <1>8 DEF RefreshInv, Reading, Merging, Undecided, Steps, AfterMerge

(* A schema change or a decision leaves a model the files can hold.           *)
LEMMA AroundStep == ASSUME RefreshInv, Base!Around PROVE RefreshInv'
  <1>1. ASSUME NEW d \in Catalogs, Base!ChangeSchema(d) PROVE RefreshInv'
    <2>1. /\ db' = d /\ synced' = {} /\ UNCHANGED <<model, option, seen, held, merged, step>>
          /\ under' = IF step = "idle" THEN under ELSE under \cup {"schema"}
      BY <1>1 DEF Base!ChangeSchema
    <2>2. IsModel(model')
      BY <2>1 DEF RefreshInv
    <2> QED BY <2>1, <2>2, Outside
  <1>2. ASSUME NEW d, NEW m, Base!Decide(d, m), IsModel(m) PROVE RefreshInv'
    <2>1. /\ model' = m /\ synced' = {} /\ UNCHANGED <<db, option, seen, held, merged, step>>
          /\ under' = IF step = "idle" THEN under ELSE under \cup {"decision"}
      BY <1>2 DEF Base!Decide
    <2>2. IsModel(model') /\ db' \in Catalogs
      BY <1>2, <2>1 DEF RefreshInv
    <2> QED BY <2>1, <2>2, Outside
  <1>3. IsModel(model)
    BY DEF RefreshInv
  <1>4. ASSUME NEW t \in DbTables, NEW s \in Base!States, Base!DecideTable(t, s) PROVE RefreshInv'
    <2>1. Base!Decide(<<"table", t, s>>, [model EXCEPT !.table[t] = s])
      BY <1>4 DEF Base!DecideTable
    <2>2. IsModel([model EXCEPT !.table[t] = s])
      BY <1>3 DEF IsModel, ColumnsAreSound, Base!Present, Base!States
    <2> QED BY <1>2, <2>1, <2>2
  <1>5. ASSUME NEW c \in Columns, NEW s \in Base!States, Base!DecideColumn(c, s) PROVE RefreshInv'
    <2> DEFINE m == [model EXCEPT !.col[c].state = s]
    <2>1. Base!Decide(<<"column", c, s>>, m) /\ Base!Present(model, c)
      BY <1>5 DEF Base!DecideColumn
    <2>2. /\ DOMAIN m = DOMAIN model /\ m.table = model.table /\ m.grain = model.grain /\ m.joins = model.joins
          /\ m.col = [model.col EXCEPT ![c].state = s]
      BY <1>3 DEF IsModel
    <2>3. ColumnsAreSound(m)
      BY <1>3, <2>1, <2>2 DEF IsModel, ColumnsAreSound, ColumnRec, Base!Present, Base!States
    <2>4. IsModel(m)
      BY <1>3, <2>2, <2>3 DEF IsModel
    <2> QED BY <1>2, <2>1, <2>4
  <1>6. ASSUME NEW t \in DbTables, NEW g \in SUBSET Columns, Base!StateGrain(t, g) PROVE RefreshInv'
    <2>1. Base!Decide(<<"grain", t, g>>, [model EXCEPT !.grain[t] = g])
      BY <1>6 DEF Base!StateGrain
    <2>2. IsModel([model EXCEPT !.grain[t] = g])
      BY <1>3 DEF IsModel, ColumnsAreSound, Base!Present
    <2> QED BY <1>2, <2>1, <2>2
  <1>7. ASSUME NEW l \in Links, NEW f, (\E e \in model.joins : e.link = l) => JoinIsSound(f)
        PROVE  IsModel(Base!Replace(l, f))
    <2>1. \A e \in {IF e.link = l THEN f ELSE e : e \in model.joins} : JoinIsSound(e)
      BY <1>3, <1>7 DEF IsModel
    <2> QED BY <1>3, <2>1, SetJoins DEF Base!Replace
  <1>8. ASSUME NEW l \in Links, \E e \in model.joins : e.link = l PROVE JoinIsSound(Base!Match(l))
    BY <1>3, <1>8 DEF IsModel, Base!Match
  <1>9. ASSUME NEW l \in Links, NEW s \in Base!States, Base!DecideJoin(l, s) PROVE RefreshInv'
    <2> DEFINE f == [Base!Match(l) EXCEPT !.state = s, !.by = IF s = "approved" THEN "person" ELSE NoType]
    <2>1. Base!Decide(<<"join", l, s>>, Base!Replace(l, f))
      BY <1>9 DEF Base!DecideJoin
    <2>2. JoinIsSound(Base!Match(l)) => JoinIsSound(f)
      BY CatalogFacts DEF JoinIsSound, JoinRec, Base!States
    <2> HIDE DEF f
    <2> QED BY <1>2, <1>7, <1>8, <2>1, <2>2
  <1>10. ASSUME NEW l \in Links, NEW card \in Base!Cardinalities, Base!EditJoin(l, card) PROVE RefreshInv'
    <2> DEFINE f == [Base!Match(l) EXCEPT !.card = card, !.state = IF @ = "approved" THEN "stale" ELSE @]
    <2>1. Base!Decide(<<"edit", l, card>>, Base!Replace(l, f))
      BY <1>10 DEF Base!EditJoin
    <2>2. JoinIsSound(Base!Match(l)) => JoinIsSound(f)
      BY DEF JoinIsSound, JoinRec
    <2> HIDE DEF f
    <2> QED BY <1>2, <1>7, <1>8, <2>1, <2>2
  <1>11. ASSUME NEW l \in Links, NEW card \in Base!Cardinalities, Base!AddJoin(l, card) PROVE RefreshInv'
    <2> DEFINE f == Base!Join(l, IF l \in Apart THEN "sidecar" ELSE "area", card, "unreviewed", NoType, FALSE)
    <2>1. Base!Decide(<<"add", l, card>>, [model EXCEPT !.joins = model.joins \cup {f}])
      BY <1>11 DEF Base!AddJoin
    <2>2. JoinIsSound(f)
      BY CatalogFacts DEF JoinIsSound, JoinRec, Base!Join
    <2> HIDE DEF f
    <2>3. \A e \in model.joins \cup {f} : JoinIsSound(e)
      BY <1>3, <2>2 DEF IsModel
    <2>4. IsModel([model EXCEPT !.joins = model.joins \cup {f}])
      BY <1>3, <2>3, SetJoins
    <2> QED BY <1>2, <2>1, <2>4
  <1> QED BY <1>1, <1>4, <1>5, <1>6, <1>9, <1>10, <1>11 DEF Base!Around

(* Every step keeps the invariant.                                            *)
LEMMA RefreshStep == RefreshInv /\ [Base!Next]_baseVars => RefreshInv'
  <1> SUFFICES ASSUME RefreshInv, [Base!Next]_baseVars PROVE RefreshInv'
    OBVIOUS
  <1>1. CASE UNCHANGED baseVars
    <2>1. UNCHANGED <<db, model, option, seen, held, merged, step, under, synced>>
      BY <1>1 DEF baseVars
    <2>2. /\ Reading' = Reading
      BY <2>1 DEF Reading, Base!InDatabase, IsModel, ColumnsAreSound, JoinIsSound, Base!Present
    <2>3. ASSUME step' \in AfterMerge PROVE Merging'
      <3>1. IsModel(merged) /\ TablesAreMerged /\ DecisionsAreMerged /\ LabelsAreTheKeys /\ AreasStay
        BY <2>1, <2>3 DEF RefreshInv, Merging, AfterMerge, Steps
      <3>2. IsModel(merged)'
        BY <2>1, <3>1 DEF IsModel, ColumnsAreSound, JoinIsSound, Base!Present
      <3> QED BY <2>1, <3>1, <3>2, SameMerge DEF Merging
    <2>4. Undecided'
      BY <2>1 DEF RefreshInv, Undecided, ListedJoins
    <2>5. ServesTheDatabase'
      BY <2>1 DEF RefreshInv, ServesTheDatabase, Base!ServesTheDatabase, Base!Served, Base!Present, Base!Excluded,
                  Base!EngineApproved, Base!InferCardinality, Base!UniqueOn
    <2>6. Merging'
      BY <2>3 DEF Merging
    <2>7. IsModel(model')
      BY <2>1 DEF RefreshInv
    <2> QED BY <2>1, <2>2, <2>4, <2>5, <2>6, <2>7 DEF RefreshInv
  <1>2. CASE Base!Next
    BY <1>2, ReadStep, MergeStep, EndStep, WriteDatasourceStep, WriteTablesStep, WriteAreasStep, AroundStep
       DEF Base!Next, Base!Refreshing
  <1> QED BY <1>1, <1>2

(* Each write keeps what people decided: the model under it is the one that   *)
(* was loaded, with the parts written so far.                                 *)
LEMMA KeepsStep ==
    ASSUME RefreshInv, Base!Writing, "decision" \notin under
    PROVE  Base!Keeps(model, model')
  <1>1. IsModel(model) /\ step \in AfterMerge
    BY DEF RefreshInv, Base!Writing, Base!WriteDatasource, Base!WriteTables, Base!WriteAreas, AfterMerge, Steps
  <1>2. IsModel(held) /\ IsModel(merged) /\ TablesAreMerged /\ DecisionsAreMerged
    BY <1>1 DEF RefreshInv, Reading, Merging, AfterMerge
  <1>3. CASE Base!WriteDatasource
    <2> DEFINE joins == {e \in model.joins : e.place # "datasource"}
                        \cup {Base!Listed(e) : e \in {j \in merged.joins : j.place # "area"}}
    <2>1. model = held /\ model' = [model EXCEPT !.joins = joins]
      BY <1>3 DEF RefreshInv, Undecided, Base!WriteDatasource
    <2>2. \A e \in joins : JoinIsSound(e)
      BY <1>1, <1>2, ListedIsSound DEF IsModel
    <2>3. ASSUME NEW e \in model.joins, Base!Decided(e)
          PROVE  e \in joins \/ (Surrendered(e) /\ BackIn(e, joins))
      <3>1. \A f \in merged.joins : f.place = "datasource" => f \in joins
        BY <1>2, ListedIsSound DEF IsModel
      <3>2. e \in held.joins /\ (e.place # "datasource" => e \in joins)
        BY <2>1
      <3> HIDE DEF joins
      <3> QED BY <1>2, <2>3, <3>1, <3>2 DEF DecisionsAreMerged, BackIn
    <2> HIDE DEF joins
    <2>4. model'.joins = joins /\ model'.table = model.table /\ model'.col = model.col
      BY <1>1, <2>1, <2>2, SetJoins
    <2> QED BY <2>3, <2>4 DEF Base!Keeps, Base!ForReview, Surrendered, BackIn
  <1>4. CASE Base!WriteTables
    <2>1. model' = [merged EXCEPT !.joins = model.joins] /\ model = [held EXCEPT !.joins = ListedJoins]
      BY <1>4 DEF RefreshInv, Undecided, Base!WriteTables
    <2>2. model.table = held.table /\ model.col = held.col
      BY <1>2, <2>1 DEF IsModel
    <2>3. model'.joins = model.joins /\ model'.table = merged.table /\ model'.col = merged.col
      BY <1>1, <1>2, <2>1, SetJoins DEF IsModel
    <2>4. ASSUME NEW t \in DbTables, held.table[t] = "rejected" PROVE merged.table[t] = "rejected"
      <3>1. NoType # "rejected"
        BY CatalogFacts
      <3>2. merged.table[t] = Base!MergedTable(t)
        BY <1>2 DEF TablesAreMerged
      <3> QED BY <2>4, <3>1, <3>2 DEF Base!MergedTable, Base!Unserved
    <2>5. ASSUME NEW c \in Columns, held.col[c].state = "rejected" PROVE merged.col[c].state = "rejected"
      <3>1. Base!Present(held, c) /\ held.col[c] \in ColumnRec
        BY <1>2, <2>5 DEF IsModel, ColumnsAreSound
      <3>2. Base!MergedColumn(c).state = "rejected"
        BY <2>5, <3>1 DEF Base!MergedColumn, ColumnRec, Base!Unserved
      <3> QED BY <1>2, <2>5, <3>2 DEF TablesAreMerged
    <2> QED BY <2>2, <2>3, <2>4, <2>5 DEF Base!Keeps
  <1>5. CASE Base!WriteAreas
    <2> DEFINE joins == IF Base!AreaJoins = {} THEN model.joins
                        ELSE {e \in model.joins : e.place # "area"} \cup Base!AreaJoins
    <2>1. model' = [model EXCEPT !.joins = joins] /\ model = [merged EXCEPT !.joins = ListedJoins]
      BY <1>5 DEF RefreshInv, Undecided, Base!WriteAreas
    <2>2. \A e \in joins : JoinIsSound(e)
      BY <1>1, <1>2 DEF IsModel, Base!AreaJoins
    <2>3. ASSUME NEW e \in model.joins, Base!Decided(e)
          PROVE  e \in joins \/ (Surrendered(e) /\ BackIn(e, joins))
      <3>1. e \in ListedJoins
        BY <1>2, <2>1 DEF IsModel
      <3>2. CASE e.place = "area"
        <4>1. e \in held.joins
          BY <1>2, <3>1, <3>2, ListedIsSound DEF ListedJoins, IsModel
        <4>2. \A f \in merged.joins : f.place = "area" => f \in joins
          BY DEF Base!AreaJoins
        <4> HIDE DEF joins
        <4> QED BY <1>2, <2>3, <3>2, <4>1, <4>2 DEF DecisionsAreMerged, BackIn
      <3>3. CASE e.place # "area"
        BY <3>3
      <3> QED BY <3>2, <3>3
    <2> HIDE DEF joins
    <2>4. model'.joins = joins /\ model'.table = model.table /\ model'.col = model.col
      BY <1>1, <2>1, <2>2, SetJoins
    <2> QED BY <2>3, <2>4 DEF Base!Keeps, Base!ForReview, Surrendered, BackIn
  <1> QED BY <1>3, <1>4, <1>5 DEF Base!Writing

(* Once a refresh of the whole catalog is written, whatever was dropped,      *)
(* retyped, restored or taken out before and however its reads fail: a column *)
(* is served exactly when the database has it and no one took it out, with    *)
(* the type it has there, and each join the engine vouches for has the        *)
(* cardinality of the keys.                                                   *)
THEOREM RefreshServesTheDatabase == FilesSpec => []ServesTheDatabase
  <1>1. FilesInit => RefreshInv
    BY RefreshInitInv DEF FilesInit
  <1>2. RefreshInv /\ [FilesNext]_<<writer, vars, baseVars>> => RefreshInv'
    BY RefreshStep DEF FilesNext
  <1>3. RefreshInv => ServesTheDatabase
    BY DEF RefreshInv
  <1> QED BY <1>1, <1>2, <1>3, PTL DEF FilesSpec

(* No write of a refresh undoes what a person decided before it began, but    *)
(* for a confirmed join on one column of another type, which it leaves there  *)
(* unconfirmed, as labelled.                                                  *)
THEOREM DecisionsOutliveARefresh == FilesSpec => DecisionsStand
  <1>1. FilesInit => RefreshInv
    BY RefreshInitInv DEF FilesInit
  <1>2. RefreshInv /\ [FilesNext]_<<writer, vars, baseVars>> => RefreshInv'
    BY RefreshStep DEF FilesNext
  <1>3. RefreshInv /\ [FilesNext]_<<writer, vars, baseVars>>
          => [Base!Writing /\ "decision" \notin under => Base!Keeps(model, model')]_(Base!vars)
    BY KeepsStep
  <1> QED BY <1>1, <1>2, <1>3, PTL DEF FilesSpec, DecisionsStand, Base!DecisionsStand
=============================================================================
