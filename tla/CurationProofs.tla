--------------------------- MODULE CurationProofs ---------------------------
(* That curation keeps what people decided, for any areas, tables, names,     *)
(* conditions, starting models and batches of any length.                     *)
(*                                                                           *)
(* A move lands the joins of a place one after another, a fold over a set:    *)
(* what it keeps is proved by induction over that set, with the induction     *)
(* stated for a set of subsets, not for a predicate.                          *)
EXTENDS Curation, TLAPS, FiniteSetTheorems, WellFoundedInduction

(* ------------------------------------------------------------------------ *)
(* Induction over the naturals and over a finite set, in the form of sets.    *)

LEMMA SetInduction ==
    ASSUME NEW A, A \subseteq Nat, 0 \in A, \A n \in A : n + 1 \in A
    PROVE  A = Nat
  <1> SUFFICES ASSUME NEW a \in Nat \ A PROVE FALSE
    OBVIOUS
  <1> DEFINE T == Nat \ A
  <1>1. IsWellFoundedOn(OpToRel(<, Nat), Nat)
    BY NatLessThanWellFounded
  <1>2. PICK x \in T : \A y \in T : ~(<<y, x>> \in OpToRel(<, Nat))
    BY <1>1, WFMin
  <1>3. x \in Nat /\ x # 0
    BY <1>2
  <1>4. x - 1 \in Nat /\ <<x - 1, x>> \in OpToRel(<, Nat)
    BY <1>3 DEF OpToRel
  <1>5. x - 1 \in A
    BY <1>2, <1>4
  <1>6. (x - 1) + 1 \in A
    BY <1>5
  <1>7. (x - 1) + 1 = x
    BY <1>3
  <1> QED BY <1>2, <1>6, <1>7

LEMMA FiniteInduction ==
    ASSUME NEW S, IsFiniteSet(S), NEW F, {} \in F,
           \A T \in SUBSET S : T # {} /\ (\A x \in T : T \ {x} \in F) => T \in F
    PROVE  S \in F
  <1> DEFINE Bad == (SUBSET S) \ F
  <1> SUFFICES ASSUME S \notin F PROVE FALSE
    OBVIOUS
  <1>1. IsWellFoundedOn(StrictSubsetOrdering(S), FiniteSubsetsOf(S))
    BY FS_StrictSubsetOrderingWellFounded
  <1>2. SUBSET S = FiniteSubsetsOf(S)
    BY FS_FiniteSubsetsOfFinite
  <1>3. /\ Bad \subseteq FiniteSubsetsOf(S) /\ S \in Bad
        /\ \A T : T \in Bad <=> T \in SUBSET S /\ T \notin F
    BY <1>2
  <1> HIDE DEF Bad
  <1>4. PICK T \in Bad : \A U \in Bad : ~(<<U, T>> \in StrictSubsetOrdering(S))
    BY <1>1, <1>3, WFMin
  <1>5. T \in SUBSET S /\ T \notin F
    BY <1>3
  <1>6. T # {}
    BY <1>5
  <1>7. ASSUME NEW x \in T PROVE T \ {x} \in F
    <2>1. <<T \ {x}, T>> \in StrictSubsetOrdering(S)
      BY <1>5 DEF StrictSubsetOrdering
    <2> QED BY <1>3, <1>4, <1>5, <2>1
  <1> QED BY <1>5, <1>6, <1>7

LEMMA FiniteImage ==
    ASSUME NEW S, IsFiniteSet(S), NEW f
    PROVE  IsFiniteSet({f[x] : x \in S})
  <1>1. [x \in S |-> f[x]] \in Surjection(S, {f[x] : x \in S})
    BY DEF Surjection
  <1> QED BY <1>1, FS_Surjection

(* ------------------------------------------------------------------------ *)
(* The fold of LandAll is the function it is written as.                      *)

First(s) == CHOOSE x \in s : TRUE
Landed(from, to, acc, D, f) ==
    f = [s \in D |-> IF s = {} THEN acc ELSE Land(from, to, First(s), f[s \ {First(s)}])]

LEMMA LandedExists ==
    ASSUME NEW from, NEW to, NEW acc, NEW S, IsFiniteSet(S)
    PROVE  \E f : Landed(from, to, acc, SUBSET S, f)
  <1> DEFINE D(n) == {s \in SUBSET S : Cardinality(s) <= n}
             A == {n \in Nat : \E f : Landed(from, to, acc, D(n), f)}
  <1>0. \A s \in SUBSET S : IsFiniteSet(s) /\ Cardinality(s) \in Nat /\ (Cardinality(s) = 0 <=> s = {})
    BY FS_Subset, FS_CardinalityType, FS_EmptySet
  <1>1. 0 \in A
    <2>1. D(0) = {{}}
      BY <1>0
    <2>2. Landed(from, to, acc, D(0), [s \in D(0) |-> acc])
      BY <2>1 DEF Landed
    <2> QED BY <2>2
  <1>2. ASSUME NEW n \in A PROVE n + 1 \in A
    <2>1. PICK f : Landed(from, to, acc, D(n), f)
      OBVIOUS
    <2> DEFINE g == [s \in D(n + 1) |-> IF s \in D(n) THEN f[s] ELSE Land(from, to, First(s), f[s \ {First(s)}])]
    <2>2. ASSUME NEW s \in D(n + 1), s # {} PROVE s \ {First(s)} \in D(n)
      <3>1. First(s) \in s
        BY <2>2 DEF First
      <3>2. Cardinality(s \ {First(s)}) = Cardinality(s) - 1
        BY <3>1, <1>0, FS_RemoveElement
      <3> QED BY <3>2, <1>0
    <2>3. ASSUME NEW s \in D(n + 1)
          PROVE  g[s] = IF s = {} THEN acc ELSE Land(from, to, First(s), g[s \ {First(s)}])
      <3>1. D(n) \subseteq D(n + 1)
        BY <1>0
      <3>2. {} \in D(n)
        BY <1>0, FS_EmptySet
      <3>3. \A r \in D(n) : g[r] = f[r]
        BY <3>1
      <3>4. CASE s = {}
        BY <3>2, <3>3, <3>4, <2>1 DEF Landed
      <3>5. CASE s # {} /\ s \in D(n)
        <4>1. f[s] = Land(from, to, First(s), f[s \ {First(s)}])
          BY <3>5, <2>1 DEF Landed
        <4>2. g[s] = f[s] /\ g[s \ {First(s)}] = f[s \ {First(s)}]
          BY <3>3, <3>5, <2>2
        <4> HIDE DEF g
        <4> QED BY <3>5, <4>1, <4>2
      <3>6. CASE s # {} /\ s \notin D(n)
        BY <3>3, <3>6, <2>2
      <3> QED BY <3>4, <3>5, <3>6
    <2>4. g = [s \in D(n + 1) |-> g[s]]
      OBVIOUS
    <2> HIDE DEF g, D
    <2>5. Landed(from, to, acc, D(n + 1), g)
      BY <2>3, <2>4 DEF Landed
    <2> QED BY <2>5
  <1>3. A = Nat
    BY <1>1, <1>2, SetInduction
  <1>4. Cardinality(S) \in A
    BY <1>3, <1>0
  <1>5. D(Cardinality(S)) = SUBSET S
    BY <1>0, FS_Subset
  <1> QED BY <1>4, <1>5

LandsAs(from, to, acc, f) ==
    /\ LandAll(from, to, acc) = f[files[JoinFile(from)]]
    /\ f[{}] = acc
    /\ \A s \in SUBSET files[JoinFile(from)] :
          s # {} => f[s] = Land(from, to, First(s), f[s \ {First(s)}])

LEMMA LandAllIs ==
    ASSUME NEW from, NEW to, NEW acc, IsFiniteSet(files[JoinFile(from)])
    PROVE  \E f : LandsAs(from, to, acc, f)
  <1> DEFINE S == files[JoinFile(from)]
             f == CHOOSE h : Landed(from, to, acc, SUBSET S, h)
  <1>1. LandAll(from, to, acc) = f[S]
    BY DEF LandAll, FoldSet, MapThenFoldSet, Landed, First
  <1>2. Landed(from, to, acc, SUBSET S, f)
    BY LandedExists
  <1> HIDE DEF f
  <1>3. f[{}] = acc
    BY <1>2 DEF Landed
  <1>4. \A s \in SUBSET S : s # {} => f[s] = Land(from, to, First(s), f[s \ {First(s)}])
    BY <1>2 DEF Landed
  <1>5. LandsAs(from, to, acc, f)
    BY <1>1, <1>3, <1>4 DEF LandsAs
  <1> QED BY <1>5

(* ------------------------------------------------------------------------ *)
(* Items.                                                                     *)

IsItem(i) == DOMAIN i = {"id", "def", "reads", "state", "by", "signed", "fresh"}

(* An item approved is signed off as it stands.                               *)
Sound(i) == IsItem(i) /\ (i.state = "approved" => i.signed = Says(i))

LEMMA ItemSound ==
    ASSUME NEW id, NEW def, NEW reads, NEW state, NEW by
    PROVE  Sound(Item(id, def, reads, state, by))
  BY DEF Sound, IsItem, Says, Item

LEMMA TrustSound ==
    ASSUME NEW i, Sound(i), NEW verb \in AllVerbs, NEW signer, NEW new \in SetTrust(i, verb, signer)
    PROVE  Sound(new)
  <1>1. CASE verb = "approve"
    <2>1. new = [i EXCEPT !.state = "approved", !.by = IF signer = None THEN @ ELSE signer,
                          !.signed = Says(i), !.fresh = FALSE]
      BY <1>1 DEF SetTrust, Approved
    <2>2. IsItem(new) /\ new.signed = Says(i) /\ new.id = i.id /\ new.def = i.def
      BY <2>1 DEF Sound, IsItem
    <2> QED BY <2>2 DEF Sound, Says
  <1>2. CASE verb = "include"
    <2>1. new = [i EXCEPT !.state = "unreviewed", !.by = None, !.fresh = FALSE]
      BY <1>2 DEF SetTrust, Unsigned
    <2> QED BY <2>1 DEF Sound, IsItem
  <1>3. CASE verb = "reject"
    <2>1. new = [i EXCEPT !.state = "rejected", !.by = None, !.fresh = FALSE]
      BY <1>3 DEF SetTrust, Unsigned
    <2> QED BY <2>1 DEF Sound, IsItem
  <1> QED BY <1>1, <1>2, <1>3 DEF AllVerbs

LEMMA EditedSound ==
    ASSUME NEW i, Sound(i), NEW field \in {"id", "def"}, NEW value
    PROVE  Sound(Edited(i, field, value))
  <1> DEFINE new == [i EXCEPT ![field] = value]
  <1>1. IsItem(new) /\ new.state = i.state /\ new.signed = i.signed
    BY DEF Sound, IsItem
  <1> HIDE DEF new
  <1>2. Edited(i, field, value) = StaleOnEdit(i, new)
    BY DEF Edited, new
  <1>3. CASE i.state = "approved" /\ Says(i) # Says(new)
    <2>1. StaleOnEdit(i, new) = [new EXCEPT !.state = "stale", !.fresh = TRUE]
      BY <1>3 DEF StaleOnEdit
    <2> QED BY <1>1, <1>2, <2>1 DEF Sound, IsItem
  <1>4. CASE ~(i.state = "approved" /\ Says(i) # Says(new))
    <2>1. StaleOnEdit(i, new) = new
      BY <1>4 DEF StaleOnEdit
    <2> QED BY <1>1, <1>2, <1>4, <2>1 DEF Sound
  <1> QED BY <1>3, <1>4

(* ------------------------------------------------------------------------ *)
(* Joins landing in a place.                                                  *)

IsLanding(acc) ==
    /\ DOMAIN acc = {"joins", "landings", "ok"}
    /\ IsFiniteSet(acc.joins) /\ \A i \in acc.joins : Sound(i)

(* What was decided of the joins seen so far is decided of one that landed.   *)
Carries(acc, seen) ==
    acc.ok = TRUE => \A j \in seen : Decided(j) =>
        \E i \in acc.joins : Says(i) = Says(j) /\ i.state = j.state /\ SignOffRank(i) = 2

LEMMA RankOfDecided ==
    ASSUME NEW i, Decided(i)
    PROVE  SignOffRank(i) = 2
  <1>1. None # "person"
    BY ModelsAssumption DEF ModelsAssumption
  <1>2. CASE i.state \in {"rejected", "stale"}
    BY <1>2 DEF SignOffRank
  <1>3. CASE i.state = "approved" /\ i.by = "person"
    <2>1. i.by \notin {"engine", "enrich", None}
      BY <1>1, <1>3
    <2> QED BY <1>3, <2>1 DEF SignOffRank
  <1> QED BY <1>2, <1>3 DEF Decided

LEMMA RankType ==
    ASSUME NEW i
    PROVE  SignOffRank(i) \in 0..2
  BY DEF SignOffRank

LEMMA LandKeeps ==
    ASSUME NEW from, NEW to, NEW acc, IsLanding(acc), NEW moved, Sound(moved), NEW seen, Carries(acc, seen)
    PROVE  /\ IsLanding(Land(from, to, moved, acc))
           /\ Carries(Land(from, to, moved, acc), seen \cup {moved})
  <1> DEFINE same == {c \in acc.joins : c.id = moved.id}
             have == CHOOSE c \in same : TRUE
             kept == IF MovedIsKept(have, moved) THEN moved ELSE have
             new == Land(from, to, moved, acc)
  <1>1. CASE same = {}
    <2>1. new = [acc EXCEPT !.joins = @ \cup {moved},
                            !.landings = @ \cup {Landing(from, to, moved.id, moved.id, FALSE)}]
      BY <1>1 DEF Land
    <2> HIDE DEF new
    <2>2. DOMAIN new = {"joins", "landings", "ok"} /\ new.joins = acc.joins \cup {moved} /\ new.ok = acc.ok
      BY <2>1 DEF IsLanding
    <2>3. IsFiniteSet(new.joins)
      BY <2>2, FS_AddElement DEF IsLanding
    <2>4. IsLanding(new)
      BY <2>2, <2>3 DEF IsLanding
    <2>5. Carries(new, seen \cup {moved})
      BY <2>2, RankOfDecided DEF Carries
    <2> QED BY <2>4, <2>5 DEF new
  <1>2. CASE same # {}
    <2>1. /\ new.joins = (acc.joins \ {have}) \cup {kept} /\ new.ok = (acc.ok /\ Mergeable(have, moved))
          /\ DOMAIN new = {"joins", "landings", "ok"}
      BY <1>2 DEF Land
    <2>2. have \in acc.joins /\ have.id = moved.id
      BY <1>2
    <2> HIDE DEF same, have, new
    <2>3. IsFiniteSet(new.joins)
      <3>1. IsFiniteSet(acc.joins \ {have})
        BY FS_RemoveElement DEF IsLanding
      <3> HIDE DEF kept
      <3> QED BY <2>1, <3>1, FS_AddElement
    <2>4. IsLanding(new)
      BY <2>1, <2>2, <2>3 DEF IsLanding
    <2>5. ASSUME new.ok = TRUE, NEW j \in seen \cup {moved}, Decided(j)
          PROVE  \E i \in new.joins : Says(i) = Says(j) /\ i.state = j.state /\ SignOffRank(i) = 2
      <3>1. acc.ok = TRUE /\ Mergeable(have, moved)
        BY <2>1, <2>5
      <3>2. SignOffRank(have) \in 0..2 /\ SignOffRank(moved) \in 0..2
        BY RankType
      <3>3. SignOffRank(have) = 2 => have \in new.joins
        BY <2>1, <3>2 DEF MovedIsKept
      <3>4. CASE j = moved
        <4>1. SignOffRank(moved) = 2
          BY <2>5, <3>4, RankOfDecided
        <4>2. CASE SignOffRank(have) = 2
          <5>1. have.state = moved.state /\ have.def = moved.def
            BY <3>1, <4>1, <4>2 DEF Mergeable, Agree
          <5> QED BY <2>2, <3>3, <3>4, <4>2, <5>1 DEF Says
        <4>3. CASE SignOffRank(have) # 2
          <5>1. moved \in new.joins
            BY <2>1, <3>2, <4>1, <4>3 DEF MovedIsKept
          <5> QED BY <3>4, <4>1, <5>1
        <4> QED BY <4>2, <4>3
      <3>5. CASE j \in seen
        <4>1. PICK i \in acc.joins : Says(i) = Says(j) /\ i.state = j.state /\ SignOffRank(i) = 2
          BY <2>5, <3>1, <3>5 DEF Carries
        <4>2. i \in new.joins
          BY <2>1, <3>3, <4>1
        <4> QED BY <4>1, <4>2
      <3> QED BY <2>5, <3>4, <3>5
    <2> QED BY <2>4, <2>5 DEF Carries, new
  <1> QED BY <1>1, <1>2

LEMMA LandAllKeeps ==
    ASSUME NEW from, NEW to, NEW acc, IsLanding(acc), NEW seen, Carries(acc, seen),
           IsFiniteSet(files[JoinFile(from)]), \A i \in files[JoinFile(from)] : Sound(i)
    PROVE  /\ IsLanding(LandAll(from, to, acc))
           /\ Carries(LandAll(from, to, acc), seen \cup files[JoinFile(from)])
  <1>1. PICK f : LandsAs(from, to, acc, f)
    BY LandAllIs
  <1> DEFINE S == files[JoinFile(from)]
             F == {s \in SUBSET S : IsLanding(f[s]) /\ Carries(f[s], seen \cup s)}
  <1> HIDE DEF S
  <1>2. {} \in F
    <2>1. seen \cup {} = seen
      OBVIOUS
    <2>2. IsLanding(f[{}]) /\ Carries(f[{}], seen \cup {})
      BY <1>1, <2>1 DEF LandsAs
    <2> QED BY <2>2
  <1>3. ASSUME NEW T \in SUBSET S, T # {}, \A x \in T : T \ {x} \in F PROVE T \in F
    <2> DEFINE x == First(T)
    <2>1. x \in T /\ Sound(x)
      BY <1>3 DEF First, S
    <2>2. IsLanding(f[T \ {x}]) /\ Carries(f[T \ {x}], seen \cup (T \ {x}))
      BY <1>3, <2>1
    <2>3. f[T] = Land(from, to, x, f[T \ {x}])
      BY <1>1, <1>3 DEF S, LandsAs
    <2>4. T = (T \ {x}) \cup {x}
      BY <2>1
    <2> HIDE DEF x, F
    <2>5. IsLanding(f[T]) /\ Carries(f[T], (seen \cup (T \ {x})) \cup {x})
      BY <2>1, <2>2, <2>3, LandKeeps
    <2>6. (seen \cup (T \ {x})) \cup {x} = seen \cup T
      BY <2>4
    <2> QED BY <2>5, <2>6 DEF F
  <1>4. IsFiniteSet(S)
    BY DEF S
  <1>5. S \in F
    <2> HIDE DEF F
    <2> QED BY <1>2, <1>3, <1>4, FiniteInduction
  <1> QED BY <1>1, <1>5 DEF S, LandsAs


(* ------------------------------------------------------------------------ *)
(* The inductive invariant.                                                   *)

(* The model on disk, and what a batch began with: every item sound, every    *)
(* list finite, every table in an area.                                       *)
AreHeld(f) ==
    /\ f = [p \in Paths |-> f[p]]
    /\ \A p \in ItemFiles : IsFiniteSet(f[p]) /\ \A i \in f[p] : Sound(i)
    /\ \A t \in Tables : \E a \in Areas : f[TableFile(a, t)] = TRUE
    /\ f[DatasourceFile] \subseteq Areas

(* Between the first write of a batch and its end, what is not saved aside is *)
(* as it was.                                                                 *)
SavedAside ==
    \A p \in Paths : /\ p \in DOMAIN backups => backups[p] = base[p]
                     /\ p \notin DOMAIN backups => files[p] = base[p]

IInv == AreHeld(files) /\ (Batching => AreHeld(base) /\ SavedAside)

(* ------------------------------------------------------------------------ *)
(* Paths.                                                                     *)

LEMMA PathsApart ==
    /\ ItemFiles \subseteq Paths /\ DatasourceFile \in Paths
    /\ \A a \in Areas, t \in Tables : TableFile(a, t) \in Paths
    /\ \A a, t : TableFile(a, t) \notin ItemFiles
    /\ \A a : AreaFile(a) \notin ItemFiles
    /\ DatasourceFile \notin ItemFiles
    /\ \A a, t, p : TableFile(a, t) # JoinFile(p) /\ AreaFile(a) # JoinFile(p)
    /\ \A p : DatasourceFile # JoinFile(p) /\ JoinFile(p) \notin MetricFiles
    /\ \A a, t, b, n : TableFile(a, t) # MetricFile(b, n) /\ DatasourceFile # MetricFile(b, n)
    /\ \A a, t : DatasourceFile # TableFile(a, t)
    /\ \A p, q : JoinFile(p) = JoinFile(q) => p = q
    /\ \A a, t, b, u : TableFile(a, t) = TableFile(b, u) => a = b /\ t = u
  <1>1. ItemFiles \subseteq Paths /\ DatasourceFile \in Paths
    BY DEF Paths
  <1>2. \A a \in Areas, t \in Tables : TableFile(a, t) \in Paths
    BY DEF Paths
  <1>3. /\ \A a, t : TableFile(a, t) \notin ItemFiles
        /\ \A a : AreaFile(a) \notin ItemFiles
        /\ DatasourceFile \notin ItemFiles
    BY DEF ItemFiles, MetricFiles, JoinFiles, TableFile, AreaFile, DatasourceFile, MetricFile, JoinFile
  <1>4. /\ \A a, t, p : TableFile(a, t) # JoinFile(p) /\ AreaFile(a) # JoinFile(p)
        /\ \A p : DatasourceFile # JoinFile(p) /\ JoinFile(p) \notin MetricFiles
        /\ \A a, t, b, n : TableFile(a, t) # MetricFile(b, n) /\ DatasourceFile # MetricFile(b, n)
        /\ \A a, t : DatasourceFile # TableFile(a, t)
    BY DEF MetricFiles, TableFile, AreaFile, DatasourceFile, MetricFile, JoinFile
  <1>5. /\ \A p, q : JoinFile(p) = JoinFile(q) => p = q
        /\ \A a, t, b, u : TableFile(a, t) = TableFile(b, u) => a = b /\ t = u
    BY DEF JoinFile, TableFile
  <1> QED BY <1>1, <1>2, <1>3, <1>4, <1>5

(* ------------------------------------------------------------------------ *)
(* What an operation of a batch writes.                                       *)

IsContent(c) == \A p \in DOMAIN c : p \in ItemFiles => IsFiniteSet(c[p]) /\ \A i \in c[p] : Sound(i)

LEMMA WriteHolds ==
    ASSUME IInv, NEW content, Write(content), IsContent(content),
           \A t \in Tables : \E a \in Areas : files'[TableFile(a, t)] = TRUE,
           files'[DatasourceFile] \subseteq Areas
    PROVE  IInv'
  <1>1. /\ files' = [p \in Paths |-> IF p \in DOMAIN content THEN content[p] ELSE files[p]]
        /\ backups' = Snapshot(IF Batching THEN backups ELSE <<>>, DOMAIN content)
        /\ base' = IF Batching THEN base ELSE files
        /\ Batching'
    BY DEF Write, Batching
  <1>2. AreHeld(files)'
    <2>1. files' = [p \in Paths |-> files'[p]]
      BY <1>1
    <2>2. \A p \in ItemFiles : IsFiniteSet(files'[p]) /\ \A i \in files'[p] : Sound(i)
      BY <1>1, PathsApart DEF IInv, AreHeld, IsContent
    <2> QED BY <2>1, <2>2 DEF AreHeld
  <1>3. AreHeld(base')
    BY <1>1 DEF IInv
  <1>4. SavedAside'
    <2> DEFINE kept == IF Batching THEN backups ELSE <<>>
    <2>1. /\ DOMAIN backups' = (DOMAIN kept) \cup DOMAIN content
          /\ \A p \in (DOMAIN kept) \cup DOMAIN content :
                backups'[p] = IF p \in DOMAIN kept THEN kept[p] ELSE files[p]
      BY <1>1 DEF Snapshot
    <2>2. \A p \in Paths : /\ p \in DOMAIN kept => kept[p] = base'[p]
                           /\ p \notin DOMAIN kept => files[p] = base'[p]
      BY <1>1 DEF IInv, SavedAside
    <2> HIDE DEF kept
    <2> QED BY <1>1, <2>1, <2>2 DEF SavedAside
  <1> QED BY <1>2, <1>3, <1>4 DEF IInv, AreHeld

(* What touches items only leaves the tables where they are.                  *)
LEMMA WriteOfItems ==
    ASSUME IInv, NEW content, Write(content), IsContent(content), DOMAIN content \subseteq ItemFiles
    PROVE  IInv'
  <1>1. \A a \in Areas, t \in Tables : files'[TableFile(a, t)] = files[TableFile(a, t)]
    BY PathsApart DEF Write
  <1>2. \A t \in Tables : \E a \in Areas : files'[TableFile(a, t)] = TRUE
    BY <1>1 DEF IInv, AreHeld
  <1>3. files'[DatasourceFile] \subseteq Areas
    BY PathsApart DEF Write, IInv, AreHeld
  <1> QED BY <1>2, <1>3, WriteHolds

(* One entry of a file written anew.                                          *)
LEMMA WriteOfOne ==
    ASSUME IInv, NEW p \in ItemFiles, NEW old, NEW new, Sound(new),
           Write(At(p, (files[p] \ {old}) \cup {new}))
    PROVE  IInv'
  <1> DEFINE entries == (files[p] \ {old}) \cup {new}
             content == At(p, entries)
  <1>1. IsFiniteSet(entries)
    BY FS_RemoveElement, FS_AddElement DEF IInv, AreHeld
  <1>2. \A i \in entries : Sound(i)
    BY DEF IInv, AreHeld
  <1>3. DOMAIN content = {p} /\ content[p] = entries
    BY DEF At
  <1> HIDE DEF entries, content
  <1>4. IsContent(content) /\ DOMAIN content \subseteq ItemFiles
    BY <1>1, <1>2, <1>3 DEF IsContent
  <1>5. Write(content)
    BY DEF content, entries
  <1> QED BY <1>4, <1>5, WriteOfItems


(* ------------------------------------------------------------------------ *)
(* What an operation finds, and where a join belongs.                         *)

LEMMA HitsAre ==
    ASSUME NEW paths, NEW h \in HitsIn(paths)
    PROVE  h[1] \in paths /\ h[2] \in files[h[1]]
  BY DEF HitsIn

LEMMA FoundAre ==
    ASSUME AreHeld(files), NEW kind, NEW id, kind = "metric" => id \in Names,
           NEW area \in Places, NEW h \in Find(kind, id, area)
    PROVE  h[1] \in ItemFiles /\ h[2] \in files[h[1]]
  <1>1. Listed \subseteq Areas
    BY DEF AreHeld, Listed
  <1>2. CASE kind = "metric" /\ area # None
    <2>1. h \in HitsIn({MetricFile(area, id)})
      BY <1>2 DEF Find, FindItem
    <2> QED BY <1>2, <2>1, HitsAre DEF Places, ItemFiles, MetricFiles
  <1>3. CASE kind = "metric" /\ area = None
    <2>1. h \in HitsIn({MetricFile(a, id) : a \in Listed})
      BY <1>3 DEF Find, FindItem
    <2> QED BY <1>1, <1>3, <2>1, HitsAre DEF ItemFiles, MetricFiles
  <1>4. CASE kind # "metric"
    <2>1. PICK as : as \subseteq Areas /\ h \in HitsIn({JoinFile(p) : p \in as \cup {Cross}})
      <3> DEFINE search(as) == {g \in HitsIn({JoinFile(p) : p \in as \cup {Cross}}) : id \in {None, g[2].id}}
      <3>1. h \in IF area # None /\ search({area}) # {} THEN search({area}) ELSE search(Listed)
        BY <1>4 DEF Find, FindJoin
      <3>2. \A as : h \in search(as) => h \in HitsIn({JoinFile(p) : p \in as \cup {Cross}})
        OBVIOUS
      <3> HIDE DEF search
      <3>3. CASE area # None /\ h \in search({area})
        <4>1. {area} \subseteq Areas
          BY <3>3 DEF Places
        <4> QED BY <3>2, <3>3, <4>1
      <3>4. CASE h \in search(Listed)
        BY <1>1, <3>2, <3>4
      <3> QED BY <3>1, <3>3, <3>4
    <2> DEFINE paths == {JoinFile(p) : p \in as \cup {Cross}}
    <2>2. paths \subseteq ItemFiles
      BY <2>1 DEF ItemFiles, JoinFiles
    <2>3. h \in HitsIn(paths)
      BY <2>1
    <2> HIDE DEF paths
    <2> QED BY <2>2, <2>3, HitsAre
  <1> QED BY <1>2, <1>3, <1>4

LEMMA OwnerIs ==
    ASSUME AreHeld(files), NEW t \in Tables
    PROVE  Owner(t) \in Areas /\ files[TableFile(Owner(t), t)]
  BY DEF AreHeld, Owner

LEMMA JoinPlaceIs ==
    ASSUME NEW owner \in [Tables -> Areas]
    PROVE  JoinFile(JoinPlace(owner)) \in JoinFiles
  <1>1. CASE Cardinality({owner[t] : t \in Tables}) = 1
    <2>1. Tables # {}
      <3> SUFFICES ASSUME Tables = {} PROVE FALSE
        OBVIOUS
      <3>1. {owner[t] : t \in Tables} = {}
        OBVIOUS
      <3> QED BY <1>1, <3>1, FS_EmptySet
    <2> QED BY <1>1, <2>1 DEF JoinPlace, JoinFiles
  <1>2. CASE Cardinality({owner[t] : t \in Tables}) # 1
    BY <1>2 DEF JoinPlace, JoinFiles
  <1> QED BY <1>1, <1>2

LEMMA OwnersAre ==
    ASSUME AreHeld(files)
    PROVE  Owners \in [Tables -> Areas]
  BY OwnerIs DEF Owners

(* ------------------------------------------------------------------------ *)
(* The steps.                                                                 *)

LEMMA TrustStep ==
    ASSUME IInv, NEW kind, NEW id, kind = "metric" => id \in Names, NEW area \in Places,
           NEW verb \in Verbs, NEW signer, TrustOp(kind, id, area, verb, signer)
    PROVE  IInv'
  <1>1. PICK h \in Find(kind, id, area) : \E new \in SetTrust(h[2], verb, signer) :
            Write(At(h[1], (files[h[1]] \ {h[2]}) \cup {new}))
    BY DEF TrustOp
  <1>2. PICK new \in SetTrust(h[2], verb, signer) : Write(At(h[1], (files[h[1]] \ {h[2]}) \cup {new}))
    BY <1>1
  <1>3. h[1] \in ItemFiles /\ Sound(h[2])
    BY FoundAre DEF IInv, AreHeld
  <1>4. Sound(new)
    BY <1>2, <1>3, TrustSound, CurationAssumption
  <1> QED BY <1>2, <1>3, <1>4, WriteOfOne

LEMMA EditStep ==
    ASSUME IInv, NEW kind, NEW id, kind = "metric" => id \in Names, NEW area \in Places,
           NEW field \in {"id", "def"}, NEW value, EditOp(kind, id, area, field, value)
    PROVE  IInv'
  <1>1. PICK h \in Find(kind, id, area) :
            Write(At(h[1], (files[h[1]] \ {h[2]}) \cup {Edited(h[2], field, value)}))
    BY DEF EditOp
  <1>2. h[1] \in ItemFiles /\ Sound(h[2])
    BY FoundAre DEF IInv, AreHeld
  <1>3. Sound(Edited(h[2], field, value))
    BY <1>2, EditedSound
  <1> QED BY <1>1, <1>2, <1>3, WriteOfOne

LEMMA BatchErrorStep ==
    ASSUME IInv, NEW kind, NEW id, BatchError(kind, id)
    PROVE  IInv'
  BY DEF BatchError, IInv, Batching, AreHeld, SavedAside

LEMMA AddJoinStep ==
    ASSUME IInv, NEW on, NEW card, AddJoin(on, card)
    PROVE  IInv'
  <1> DEFINE path == JoinFile(JoinPlace(Owners))
             new == Item(on, card, Tables, "unreviewed", None)
  <1>1. Write(At(path, files[path] \cup {new})) /\ Sound(new)
    BY ItemSound DEF AddJoin
  <1>2. path \in ItemFiles
    BY OwnersAre, JoinPlaceIs DEF IInv, ItemFiles
  <1> HIDE DEF path, new
  <1>3. files[path] \cup {new} = (files[path] \ {new}) \cup {new}
    OBVIOUS
  <1> QED BY <1>1, <1>2, <1>3, WriteOfOne

LEMMA UndoneIsBase ==
    ASSUME IInv, Undo
    PROVE  files' = base
  <1>1. Batching /\ files' = [p \in Paths |-> IF p \in DOMAIN backups THEN backups[p] ELSE files[p]]
    BY DEF Undo
  <1>2. base = [p \in Paths |-> base[p]]
    BY <1>1 DEF IInv, AreHeld
  <1>3. \A p \in Paths : (IF p \in DOMAIN backups THEN backups[p] ELSE files[p]) = base[p]
    BY <1>1 DEF IInv, SavedAside
  <1>4. files' = [p \in Paths |-> base[p]]
    BY <1>1, <1>3
  <1> QED BY <1>2, <1>4

LEMMA UndoStep ==
    ASSUME IInv, Undo
    PROVE  IInv'
  <1>1. files' = base /\ AreHeld(base) /\ phase' = "idle"
    BY UndoneIsBase DEF Undo, Idle, IInv
  <1> QED BY <1>1 DEF IInv, AreHeld, Batching


LEMMA SettledHolds ==
    ASSUME IInv, files' = Settled, phase' = "idle"
    PROVE  IInv'
  <1>1. ASSUME NEW p \in ItemFiles
        PROVE  IsFiniteSet(files'[p]) /\ \A i \in files'[p] : Sound(i)
    <2> DEFINE clear == [i \in files[p] |-> [i EXCEPT !.fresh = FALSE]]
    <2>1. files'[p] = {clear[i] : i \in files[p]}
      <3>1. files'[p] = {[i EXCEPT !.fresh = FALSE] : i \in files[p]}
        BY PathsApart DEF Settled
      <3>2. \A i \in files[p] : clear[i] = [i EXCEPT !.fresh = FALSE]
        OBVIOUS
      <3> HIDE DEF clear
      <3> QED BY <3>1, <3>2, ZenonT(30)
    <2>2. IsFiniteSet(files[p]) /\ \A i \in files[p] : Sound(i)
      BY DEF IInv, AreHeld
    <2>3. \A i \in files[p] : Sound(clear[i])
      <3> SUFFICES ASSUME NEW i \in files[p] PROVE Sound([i EXCEPT !.fresh = FALSE])
        OBVIOUS
      <3> QED BY <2>2 DEF Sound, IsItem, Says
    <2> HIDE DEF clear
    <2> QED BY <2>1, <2>2, <2>3, FiniteImage
  <1>2. /\ files' = [p \in Paths |-> files'[p]]
        /\ \A p \in Paths : p \notin ItemFiles => files'[p] = files[p]
    BY DEF Settled
  <1> QED BY <1>1, <1>2, PathsApart DEF IInv, AreHeld, Batching

(* A file of items written outside a batch.                                   *)
LEMMA QuietHolds ==
    ASSUME IInv, Quiet, NEW path, path \in JoinFiles \/ \E b, n : path = MetricFile(b, n),
           NEW entries, path \in ItemFiles => IsFiniteSet(entries) /\ \A i \in entries : Sound(i),
           files' = [files EXCEPT ![path] = entries]
    PROVE  IInv'
  <1>1. ~Batching'
    BY DEF Quiet, Batching
  <1>2. files = [p \in Paths |-> files[p]]
    BY DEF IInv, AreHeld
  <1>3. files' = [p \in Paths |-> IF p = path THEN entries ELSE files[p]]
    BY <1>2
  <1>4. files' = [p \in Paths |-> files'[p]]
    BY <1>3
  <1>5. \A p \in ItemFiles : IsFiniteSet(files'[p]) /\ \A i \in files'[p] : Sound(i)
    BY <1>3, PathsApart DEF IInv, AreHeld
  <1>6. path # DatasourceFile /\ \A a, t : path # TableFile(a, t)
    BY PathsApart DEF ItemFiles
  <1>7. /\ files'[DatasourceFile] = files[DatasourceFile]
        /\ \A a \in Areas, t \in Tables : files'[TableFile(a, t)] = files[TableFile(a, t)]
    BY <1>3, <1>6, PathsApart
  <1> QED BY <1>1, <1>4, <1>5, <1>7 DEF IInv, AreHeld

LEMMA WriteItemStep ==
    ASSUME IInv, NEW area, NEW w, WriteItem(area, w)
    PROVE  IInv'
  <1> DEFINE new == Item(w.id, w.def, w.reads, w.state, IF w.state = "approved" THEN "person" ELSE None)
  <1>1. Quiet /\ files' = [files EXCEPT ![MetricFile(area, w.id)] = {new}]
    BY DEF WriteItem
  <1>2. Sound(new)
    BY ItemSound
  <1> HIDE DEF new
  <1>3. IsFiniteSet({new})
    BY FS_Singleton
  <1> QED BY <1>1, <1>2, <1>3, QuietHolds

LEMMA AddRelationshipStep ==
    ASSUME IInv, NEW on, NEW card, NEW state, AddRelationship(on, card, state)
    PROVE  IInv'
  <1> DEFINE path == JoinFile(JoinPlace(Owners))
             new == Item(on, card, Tables, state, IF state = "approved" THEN "enrich" ELSE None)
  <1>1. Quiet /\ files' = [files EXCEPT ![path] = files[path] \cup {new}]
    BY DEF AddRelationship
  <1>2. path \in JoinFiles /\ Sound(new)
    BY OwnersAre, JoinPlaceIs, ItemSound DEF IInv
  <1> HIDE DEF path, new
  <1>3. IsFiniteSet(files[path] \cup {new}) /\ \A i \in files[path] \cup {new} : Sound(i)
    BY <1>2, FS_AddElement DEF IInv, AreHeld, ItemFiles
  <1> QED BY <1>1, <1>2, <1>3, QuietHolds

LEMMA RefreshStep ==
    ASSUME IInv, NEW path \in JoinFiles, NEW item \in files[path], Refresh(path, item)
    PROVE  IInv'
  <1> DEFINE engine == item.state = "approved" /\ item.by = "engine"
  <1>1. PICK card \in Definitions \ {Invalid}, retyped \in BOOLEAN :
            files' = [files EXCEPT ![path] = (files[path] \ {item}) \cup
                {[item EXCEPT !.state = IF retyped /\ item.state # "stale" THEN "unreviewed" ELSE item.state,
                              !.def = IF engine /\ ~retyped THEN card ELSE item.def,
                              !.signed = IF engine /\ ~retyped THEN <<item.id, card>> ELSE item.signed]}]
    BY DEF Refresh
  <1> DEFINE new == [item EXCEPT !.state = IF retyped /\ item.state # "stale" THEN "unreviewed" ELSE item.state,
                                 !.def = IF engine /\ ~retyped THEN card ELSE item.def,
                                 !.signed = IF engine /\ ~retyped THEN <<item.id, card>> ELSE item.signed]
             entries == (files[path] \ {item}) \cup {new}
  <1>2. files' = [files EXCEPT ![path] = entries]
    BY <1>1
  <1>3. Sound(item)
    BY DEF IInv, AreHeld, ItemFiles
  <1>4. Sound(new)
    BY <1>3 DEF Sound, IsItem, Says
  <1> HIDE DEF new
  <1>5. IsFiniteSet(entries) /\ \A i \in entries : Sound(i)
    BY <1>4, FS_RemoveElement, FS_AddElement DEF IInv, AreHeld, ItemFiles
  <1>6. Quiet
    BY DEF Refresh
  <1> HIDE DEF entries
  <1> QED BY <1>2, <1>5, <1>6, QuietHolds


(* ------------------------------------------------------------------------ *)
(* A table moved.                                                             *)

LEMMA LandJoinsKeeps ==
    ASSUME AreHeld(files), NEW src \in Areas, NEW to, JoinFile(to) \in JoinFiles
    PROVE  /\ IsLanding(LandJoins(src, to))
           /\ Carries(LandJoins(src, to), files[JoinFile(to)] \cup files[JoinFile(src)] \cup files[JoinFile(Cross)])
  <1> DEFINE held(p) == IsFiniteSet(files[p]) /\ \A i \in files[p] : Sound(i)
             stay == {Landing(Cross, Cross, j.id, j.id, FALSE) : j \in files[JoinFile(Cross)]}
             none == [joins |-> files[JoinFile(to)], landings |-> {}, ok |-> TRUE]
             here == [none EXCEPT !.landings = stay]
  <1>1. JoinFile(src) \in JoinFiles /\ JoinFile(Cross) \in JoinFiles
    BY DEF JoinFiles
  <1>2. held(JoinFile(to)) /\ held(JoinFile(src)) /\ held(JoinFile(Cross))
    BY <1>1 DEF AreHeld, ItemFiles
  <1>3. LandJoins(src, to) = IF to = Cross THEN LandAll(src, to, here)
                             ELSE LandAll(Cross, to, LandAll(src, to, none))
    BY DEF LandJoins
  <1>4. ASSUME NEW acc \in {none, here}
        PROVE  IsLanding(acc) /\ Carries(acc, files[JoinFile(to)])
    <2> HIDE DEF stay
    <2>1. IsLanding(acc)
      BY <1>2 DEF IsLanding
    <2>2. acc.joins = files[JoinFile(to)]
      OBVIOUS
    <2> HIDE DEF none, here
    <2> QED BY <2>1, <2>2, RankOfDecided DEF Carries
  <1> HIDE DEF none, here
  <1>5. CASE to = Cross
    <2>1. /\ IsLanding(LandAll(src, to, here))
          /\ Carries(LandAll(src, to, here), files[JoinFile(to)] \cup files[JoinFile(src)])
      BY <1>2, <1>4, LandAllKeeps
    <2>2. files[JoinFile(to)] \cup files[JoinFile(src)] \cup files[JoinFile(Cross)]
          = files[JoinFile(to)] \cup files[JoinFile(src)]
      BY <1>5
    <2> QED BY <1>3, <1>5, <2>1, <2>2
  <1>6. CASE to # Cross
    <2>1. /\ IsLanding(LandAll(src, to, none))
          /\ Carries(LandAll(src, to, none), files[JoinFile(to)] \cup files[JoinFile(src)])
      BY <1>2, <1>4, LandAllKeeps
    <2>2. /\ IsLanding(LandAll(Cross, to, LandAll(src, to, none)))
          /\ Carries(LandAll(Cross, to, LandAll(src, to, none)),
                     files[JoinFile(to)] \cup files[JoinFile(src)] \cup files[JoinFile(Cross)])
      BY <1>2, <2>1, LandAllKeeps
    <2> QED BY <1>3, <1>6, <2>2
  <1> QED BY <1>5, <1>6

LEMMA BothIs ==
    ASSUME NEW c, NEW d
    PROVE  /\ DOMAIN Both(c, d) = (DOMAIN c) \cup DOMAIN d
           /\ \A p \in DOMAIN c : Both(c, d)[p] = c[p]
           /\ \A p \in DOMAIN d : p \notin DOMAIN c => Both(c, d)[p] = d[p]
  BY DEF Both

LEMMA AtIs ==
    ASSUME NEW p, NEW content
    PROVE  DOMAIN At(p, content) = {p} /\ At(p, content)[p] = content
  BY DEF At

(* What a move writes, by the kind of file.                                   *)
MovedTable(t, src, dst) == Both(At(TableFile(src, t), FALSE), At(TableFile(dst, t), TRUE))
Content(t, src, dst, to) ==
    Both(MovedTable(t, src, dst),
         Both(AreaContent(t, src, dst),
              Both(JoinContent(LandJoins(src, to), src, to), CarriedContent(CarriedMetrics(t, src, dst), dst))))

LEMMA MoveWrites ==
    ASSUME NEW t, NEW dst, Move(t, dst),
           NEW src, src = Owner(t), NEW to, to = JoinPlace([Owners EXCEPT ![t] = dst])
    PROVE  dst # src /\ LandJoins(src, to).ok = TRUE /\ Write(Content(t, src, dst, to))
  BY DEF Move, Content, MovedTable

LEMMA MovedTableIs ==
    ASSUME NEW t, NEW src, NEW dst, src # dst
    PROVE  /\ DOMAIN MovedTable(t, src, dst) = {TableFile(src, t), TableFile(dst, t)}
           /\ MovedTable(t, src, dst)[TableFile(dst, t)] = TRUE
  <1> DEFINE c == At(TableFile(src, t), FALSE)
             d == At(TableFile(dst, t), TRUE)
  <1>1. TableFile(src, t) # TableFile(dst, t)
    BY PathsApart
  <1>2. DOMAIN c = {TableFile(src, t)} /\ DOMAIN d = {TableFile(dst, t)}
    BY DEF At
  <1>3. d[TableFile(dst, t)] = TRUE
    BY DEF At
  <1>4. MovedTable(t, src, dst) = Both(c, d)
    BY DEF MovedTable
  <1> HIDE DEF c, d
  <1>5. /\ DOMAIN Both(c, d) = (DOMAIN c) \cup DOMAIN d
        /\ TableFile(dst, t) \in DOMAIN d /\ TableFile(dst, t) \notin DOMAIN c
             => Both(c, d)[TableFile(dst, t)] = d[TableFile(dst, t)]
    BY DEF Both
  <1> QED BY <1>1, <1>2, <1>3, <1>4, <1>5

LEMMA AreaContentIs ==
    ASSUME NEW t, NEW src, NEW dst
    PROVE  /\ DOMAIN AreaContent(t, src, dst) \subseteq {AreaFile(src), AreaFile(dst), DatasourceFile}
           /\ DatasourceFile \in DOMAIN AreaContent(t, src, dst)
                => AreaContent(t, src, dst)[DatasourceFile] = Listed \cup {dst}
  <1> DEFINE areas == Both(At(AreaFile(src), files[AreaFile(src)] \ {t}),
                           At(AreaFile(dst), files[AreaFile(dst)] \cup {t}))
             new == IF dst \in Listed THEN <<>> ELSE At(DatasourceFile, Listed \cup {dst})
  <1>1. AreaContent(t, src, dst) = Both(areas, new)
    BY DEF AreaContent
  <1>2. DOMAIN areas = {AreaFile(src), AreaFile(dst)}
    <2> DEFINE c == At(AreaFile(src), files[AreaFile(src)] \ {t})
               d == At(AreaFile(dst), files[AreaFile(dst)] \cup {t})
    <2>1. DOMAIN c = {AreaFile(src)} /\ DOMAIN d = {AreaFile(dst)}
      BY DEF At
    <2> HIDE DEF c, d
    <2>2. DOMAIN Both(c, d) = (DOMAIN c) \cup DOMAIN d
      BY BothIs
    <2>3. areas = Both(c, d)
      BY DEF c, d
    <2> HIDE DEF areas
    <2> QED BY <2>1, <2>2, <2>3
  <1>3. /\ DOMAIN new \subseteq {DatasourceFile}
        /\ DatasourceFile \in DOMAIN new => new[DatasourceFile] = Listed \cup {dst}
    <2>1. CASE dst \in Listed
      BY <2>1
    <2>2. CASE dst \notin Listed
      BY <2>2 DEF At
    <2> QED BY <2>1, <2>2
  <1>4. DatasourceFile \notin {AreaFile(src), AreaFile(dst)}
    BY DEF DatasourceFile, AreaFile
  <1> HIDE DEF areas, new
  <1>5. /\ DOMAIN Both(areas, new) = (DOMAIN areas) \cup DOMAIN new
        /\ DatasourceFile \in DOMAIN new /\ DatasourceFile \notin DOMAIN areas
             => Both(areas, new)[DatasourceFile] = new[DatasourceFile]
    BY DEF Both
  <1> QED BY <1>1, <1>2, <1>3, <1>4, <1>5

LEMMA CarriedContentIs ==
    ASSUME AreHeld(files), NEW carried, carried \subseteq MetricFiles, NEW dst
    PROVE  /\ \A p \in DOMAIN CarriedContent(carried, dst) : \E a, n : p = MetricFile(a, n)
           /\ IsContent(CarriedContent(carried, dst))
  <1> DEFINE content == CarriedContent(carried, dst)
             from(p) == CHOOSE c \in carried : c[3] = p[3]
  <1>1. /\ DOMAIN content = carried \cup {MetricFile(dst, c[3]) : c \in carried}
        /\ \A p \in DOMAIN content : content[p] = IF p \in carried THEN {} ELSE files[from(p)]
    BY DEF CarriedContent
  <1>2. \A p \in carried : \E a, n : p = MetricFile(a, n)
    BY DEF MetricFiles
  <1>3. ASSUME NEW p \in DOMAIN content, p \notin carried PROVE from(p) \in carried
    <2>1. PICK c \in carried : p = MetricFile(dst, c[3])
      BY <1>1, <1>3
    <2>2. p[3] = c[3]
      BY <2>1 DEF MetricFile
    <2> QED BY <2>2
  <1> HIDE DEF content, from
  <1>4. \A p \in carried : IsFiniteSet(files[p]) /\ \A i \in files[p] : Sound(i)
    BY DEF AreHeld, ItemFiles
  <1>5. IsContent(content)
    BY <1>1, <1>3, <1>4, FS_EmptySet DEF IsContent
  <1>6. \A p \in DOMAIN content : \E a, n : p = MetricFile(a, n)
    BY <1>1, <1>2
  <1> QED BY <1>5, <1>6 DEF content

(* Of four parts, the first that has a path says what it holds.               *)
AreParts(a, b, c, d, all) ==
    /\ DOMAIN all = (DOMAIN a) \cup (DOMAIN b) \cup (DOMAIN c) \cup DOMAIN d
    /\ \A p \in DOMAIN a : all[p] = a[p]
    /\ \A p \in DOMAIN b : p \notin DOMAIN a => all[p] = b[p]
    /\ \A p \in DOMAIN c : p \notin (DOMAIN a) \cup DOMAIN b => all[p] = c[p]
    /\ \A p \in DOMAIN d : p \notin (DOMAIN a) \cup (DOMAIN b) \cup DOMAIN c => all[p] = d[p]

LEMMA FourAre ==
    ASSUME NEW a, NEW b, NEW c, NEW d, NEW all, all = Both(a, Both(b, Both(c, d)))
    PROVE  AreParts(a, b, c, d, all)
  <1> DEFINE cd == Both(c, d)
             bcd == Both(b, cd)
  <1>1. /\ DOMAIN cd = (DOMAIN c) \cup DOMAIN d
        /\ \A p \in DOMAIN c : cd[p] = c[p]
        /\ \A p \in DOMAIN d : p \notin DOMAIN c => cd[p] = d[p]
    BY DEF Both
  <1> HIDE DEF cd
  <1>2. /\ DOMAIN bcd = (DOMAIN b) \cup DOMAIN cd
        /\ \A p \in DOMAIN b : bcd[p] = b[p]
        /\ \A p \in DOMAIN cd : p \notin DOMAIN b => bcd[p] = cd[p]
    BY DEF Both
  <1> HIDE DEF bcd
  <1>3. all = Both(a, bcd)
    BY DEF bcd, cd
  <1>4. /\ DOMAIN all = (DOMAIN a) \cup DOMAIN bcd
        /\ \A p \in DOMAIN a : all[p] = a[p]
        /\ \A p \in DOMAIN bcd : p \notin DOMAIN a => all[p] = bcd[p]
    BY <1>3 DEF Both
  <1> QED BY <1>1, <1>2, <1>4 DEF AreParts

(* Which files a move writes, and what it leaves in them.                     *)
IsMove(t, src, dst, to, all) ==
    /\ IsContent(all)
    /\ TableFile(dst, t) \in DOMAIN all /\ all[TableFile(dst, t)] = TRUE
    /\ \A a, u : u # t => TableFile(a, u) \notin DOMAIN all
    /\ DatasourceFile \in DOMAIN all => all[DatasourceFile] = Listed \cup {dst}
    /\ JoinFile(to) \in DOMAIN all /\ all[JoinFile(to)] = LandJoins(src, to).joins
    /\ \A p \in JoinFiles : p \in DOMAIN all => p \in {JoinFile(to), JoinFile(src), JoinFile(Cross)}

LEMMA ContentIs ==
    ASSUME AreHeld(files), NEW t \in Tables, NEW src \in Areas, NEW dst \in Areas, src # dst,
           NEW to, JoinFile(to) \in JoinFiles, NEW all, all = Content(t, src, dst, to)
    PROVE  IsMove(t, src, dst, to, all)
  <1> DEFINE landed == LandJoins(src, to)
             a == MovedTable(t, src, dst)
             b == AreaContent(t, src, dst)
             c == JoinContent(landed, src, to)
             d == CarriedContent(CarriedMetrics(t, src, dst), dst)
  <1>1. DOMAIN a = {TableFile(src, t), TableFile(dst, t)} /\ a[TableFile(dst, t)] = TRUE
    BY MovedTableIs
  <1>2. /\ DOMAIN b \subseteq {AreaFile(src), AreaFile(dst), DatasourceFile}
        /\ DatasourceFile \in DOMAIN b => b[DatasourceFile] = Listed \cup {dst}
    BY AreaContentIs
  <1>3. /\ DOMAIN c \subseteq {JoinFile(src), JoinFile(to), JoinFile(Cross)} /\ JoinFile(to) \in DOMAIN c
        /\ \A p \in DOMAIN c : c[p] = IF p = JoinFile(to) THEN landed.joins ELSE {}
    <2> HIDE DEF landed
    <2> QED BY DEF JoinContent
  <1>4. /\ \A p \in DOMAIN d : \E e, n : p = MetricFile(e, n)
        /\ IsContent(d)
    BY CarriedContentIs DEF CarriedMetrics
  <1>5. all = Both(a, Both(b, Both(c, d)))
    BY DEF Content
  <1>6. IsFiniteSet(landed.joins) /\ \A i \in landed.joins : Sound(i)
    BY LandJoinsKeeps DEF IsLanding
  <1> HIDE DEF a, b, c, d, landed
  <1>7. /\ DOMAIN all = (DOMAIN a) \cup (DOMAIN b) \cup (DOMAIN c) \cup DOMAIN d
        /\ \A p \in DOMAIN a : all[p] = a[p]
        /\ \A p \in DOMAIN b : p \notin DOMAIN a => all[p] = b[p]
        /\ \A p \in DOMAIN c : p \notin (DOMAIN a) \cup DOMAIN b => all[p] = c[p]
        /\ \A p \in DOMAIN d : p \notin (DOMAIN a) \cup (DOMAIN b) \cup DOMAIN c => all[p] = d[p]
    <2>1. AreParts(a, b, c, d, all)
      BY <1>5, FourAre
    <2> QED BY <2>1 DEF AreParts
  <1>8. IsContent(all)
    <2> SUFFICES ASSUME NEW p \in DOMAIN all, p \in ItemFiles
                 PROVE  IsFiniteSet(all[p]) /\ \A i \in all[p] : Sound(i)
      BY DEF IsContent
    <2>1. p \notin DOMAIN a /\ p \notin DOMAIN b
      BY <1>1, <1>2, PathsApart
    <2>2. CASE p \in DOMAIN c
      <3>1. all[p] = IF p = JoinFile(to) THEN landed.joins ELSE {}
        BY <1>3, <1>7, <2>1, <2>2
      <3> QED BY <1>6, <3>1, FS_EmptySet
    <2>3. CASE p \notin DOMAIN c
      <3>1. p \in DOMAIN d /\ all[p] = d[p]
        BY <1>7, <2>1, <2>3
      <3> QED BY <1>4, <3>1 DEF IsContent
    <2> QED BY <2>2, <2>3
  <1>9. TableFile(dst, t) \in DOMAIN all /\ all[TableFile(dst, t)] = TRUE
    BY <1>1, <1>7
  <1>10. ASSUME NEW e, NEW u, u # t PROVE TableFile(e, u) \notin DOMAIN all
    <2>1. TableFile(e, u) \notin DOMAIN a
      BY <1>1, <1>10, PathsApart
    <2>2. TableFile(e, u) \notin DOMAIN b
      BY <1>2 DEF TableFile, AreaFile, DatasourceFile
    <2>3. TableFile(e, u) \notin DOMAIN c /\ TableFile(e, u) \notin DOMAIN d
      BY <1>3, <1>4, PathsApart
    <2> QED BY <1>7, <2>1, <2>2, <2>3
  <1>11. ASSUME DatasourceFile \in DOMAIN all PROVE all[DatasourceFile] = Listed \cup {dst}
    <2>1. DatasourceFile \notin DOMAIN a
      BY <1>1, PathsApart
    <2>2. DatasourceFile \notin DOMAIN c /\ DatasourceFile \notin DOMAIN d
      BY <1>3, <1>4, PathsApart
    <2> QED BY <1>2, <1>7, <1>11, <2>1, <2>2
  <1>12. JoinFile(to) \in DOMAIN all /\ all[JoinFile(to)] = landed.joins
    <2>1. JoinFile(to) \notin DOMAIN a /\ JoinFile(to) \notin DOMAIN b
      BY <1>1, <1>2, PathsApart
    <2> QED BY <1>3, <1>7, <2>1
  <1>13. ASSUME NEW p \in JoinFiles, p \in DOMAIN all
         PROVE  p \in {JoinFile(to), JoinFile(src), JoinFile(Cross)}
    <2>1. PICK q : p = JoinFile(q)
      BY DEF JoinFiles
    <2>2. p \notin DOMAIN a /\ p \notin DOMAIN b
      BY <1>1, <1>2, <2>1, PathsApart
    <2>3. p \notin DOMAIN d
      BY <1>4, <2>1 DEF MetricFile, JoinFile
    <2> QED BY <1>3, <1>7, <1>13, <2>2, <2>3
  <1> QED BY <1>8, <1>9, <1>10, <1>11, <1>12, <1>13 DEF landed, IsMove

(* The places of a move: the area left, and where the joins go.               *)
LEMMA MovePlaces ==
    ASSUME AreHeld(files), NEW t \in Tables, NEW dst \in Areas
    PROVE  Owner(t) \in Areas /\ JoinFile(JoinPlace([Owners EXCEPT ![t] = dst])) \in JoinFiles
  <1>1. [Owners EXCEPT ![t] = dst] \in [Tables -> Areas]
    BY OwnersAre
  <1> QED BY <1>1, OwnerIs, JoinPlaceIs

LEMMA MoveStep ==
    ASSUME IInv, NEW t \in Tables, NEW dst \in Areas, Move(t, dst)
    PROVE  IInv'
  <1> DEFINE src == Owner(t)
             to == JoinPlace([Owners EXCEPT ![t] = dst])
             all == Content(t, src, dst, to)
  <1>1. AreHeld(files)
    BY DEF IInv
  <1>2. src \in Areas /\ JoinFile(to) \in JoinFiles
    BY <1>1, MovePlaces
  <1>3. dst # src /\ Write(all)
    BY MoveWrites
  <1> HIDE DEF src, to
  <1>4. /\ IsContent(all)
        /\ TableFile(dst, t) \in DOMAIN all /\ all[TableFile(dst, t)] = TRUE
        /\ \A a, u : u # t => TableFile(a, u) \notin DOMAIN all
        /\ DatasourceFile \in DOMAIN all => all[DatasourceFile] = Listed \cup {dst}
    <2>1. IsMove(t, src, dst, to, all)
      BY <1>1, <1>2, <1>3, ContentIs
    <2> HIDE DEF all
    <2> QED BY <2>1 DEF IsMove
  <1> HIDE DEF all
  <1>5. \A p \in Paths : files'[p] = IF p \in DOMAIN all THEN all[p] ELSE files[p]
    BY <1>3 DEF Write
  <1>6. ASSUME NEW u \in Tables PROVE \E a \in Areas : files'[TableFile(a, u)] = TRUE
    <2>1. CASE u = t
      BY <1>4, <1>5, <2>1, PathsApart
    <2>2. CASE u # t
      <3>1. PICK a \in Areas : files[TableFile(a, u)] = TRUE
        BY <1>1 DEF AreHeld
      <3>2. files'[TableFile(a, u)] = files[TableFile(a, u)]
        BY <1>4, <1>5, <2>2, PathsApart
      <3> QED BY <3>1, <3>2
    <2> QED BY <2>1, <2>2
  <1>7. files'[DatasourceFile] \subseteq Areas
    BY <1>1, <1>4, <1>5, PathsApart DEF AreHeld, Listed
  <1> QED BY <1>3, <1>4, <1>6, <1>7, WriteHolds

(* ------------------------------------------------------------------------ *)
(* The invariant holds.                                                       *)

LEMMA InvInit == Init => IInv
  <1> SUFFICES ASSUME Init PROVE IInv
    OBVIOUS
  <1>1. PICK model \in Models : files = Start(model)
    BY DEF Init
  <1>2. ~Batching
    BY DEF Init, Batching
  <1>3. /\ model.owner \in [Tables -> Areas] /\ IsFiniteSet(model.items)
        /\ \A h \in model.items : Sound(h[2])
    <2>1. ASSUME NEW h \in model.items PROVE Sound(h[2])
      <3> DEFINE i == h[2]
      <3>1. i = Item(i.id, i.def, i.reads, i.state, i.by)
        BY ModelsAssumption DEF ModelsAssumption
      <3>2. Sound(Item(i.id, i.def, i.reads, i.state, i.by))
        BY ItemSound
      <3> QED BY <3>1, <3>2
    <2> QED BY <2>1, ModelsAssumption DEF ModelsAssumption
  <1>4. files = [p \in Paths |-> files[p]]
    BY <1>1 DEF Start
  <1>5. ASSUME NEW p \in ItemFiles PROVE IsFiniteSet(files[p]) /\ \A i \in files[p] : Sound(i)
    <2> DEFINE there == {g \in model.items : g[1] = p}
    <2>1. KindOf(p) \notin {"table", "area", "datasource"}
      BY DEF ItemFiles, MetricFiles, JoinFiles, MetricFile, JoinFile, KindOf
    <2>2. files[p] = {h[2] : h \in there}
      BY <1>1, <2>1, PathsApart DEF Start
    <2>3. IsFiniteSet(there)
      BY <1>3, FS_Subset
    <2> DEFINE second == [h \in there |-> h[2]]
    <2>4. {h[2] : h \in there} = {second[h] : h \in there}
      OBVIOUS
    <2>5. \A i \in files[p] : Sound(i)
      BY <1>3, <2>2
    <2> HIDE DEF there, second
    <2>6. IsFiniteSet({second[h] : h \in there})
      BY <2>3, FiniteImage
    <2> QED BY <2>2, <2>4, <2>5, <2>6
  <1>6. ASSUME NEW t \in Tables PROVE \E a \in Areas : files[TableFile(a, t)] = TRUE
    <2> DEFINE a == model.owner[t]
    <2>1. a \in Areas /\ TableFile(a, t) \in Paths
      BY <1>3, PathsApart
    <2>2. KindOf(TableFile(a, t)) = "table" /\ TableFile(a, t)[3] = t /\ Place(TableFile(a, t)) = a
      BY DEF TableFile, KindOf, Place
    <2>3. files[TableFile(a, t)] = (model.owner[t] = a)
      BY <1>1, <2>1, <2>2 DEF Start
    <2> QED BY <2>1, <2>3
  <1>7. files[DatasourceFile] \subseteq Areas
    <2>1. KindOf(DatasourceFile) = "datasource"
      BY DEF DatasourceFile, KindOf
    <2>2. files[DatasourceFile] = {model.owner[t] : t \in Tables}
      BY <1>1, <2>1, PathsApart DEF Start
    <2> QED BY <1>3, <2>2
  <1> QED BY <1>2, <1>4, <1>5, <1>6, <1>7 DEF IInv, AreHeld

LEMMA InvStep == IInv /\ [Next]_vars => IInv'
  <1> SUFFICES ASSUME IInv, [Next]_vars PROVE IInv'
    OBVIOUS
  <1>1. CASE UNCHANGED vars
    BY <1>1 DEF vars, IInv, AreHeld, Batching, SavedAside
  <1>2. CASE Step
    <2>1. ASSUME NEW id \in IF OnMetric THEN Names ELSE Conditions \cup {None}, NEW area \in Places,
                 \/ \E verb \in Verbs, signer \in {None, "person"} : TrustOp(focus, id, area, verb, signer)
                 \/ \E value \in IF OnMetric THEN Names ELSE Conditions : EditOp(focus, id, area, "id", value)
                 \/ \E value \in Definitions : EditOp(focus, id, area, "def", value)
                 \/ BatchError(focus, id)
          PROVE  IInv'
      <3>1. focus = "metric" => id \in Names
        BY DEF OnMetric
      <3>2. ASSUME NEW verb \in Verbs, NEW signer, TrustOp(focus, id, area, verb, signer) PROVE IInv'
        BY <3>1, <3>2, TrustStep
      <3>3. ASSUME NEW field \in {"id", "def"}, NEW value, EditOp(focus, id, area, field, value) PROVE IInv'
        BY <3>1, <3>3, EditStep
      <3>4. CASE BatchError(focus, id)
        BY <3>4, BatchErrorStep
      <3> QED BY <2>1, <3>2, <3>3, <3>4
    <2>2. CASE \E on \in Conditions, card \in Definitions : AddJoin(on, card)
      BY <2>2, AddJoinStep
    <2>3. CASE \E t \in Tables, dst \in Areas : Move(t, dst)
      BY <2>3, MoveStep
    <2>4. CASE Undo
      BY <2>4, UndoStep
    <2>5. CASE Commit \/ Crash
      BY <2>5, SettledHolds DEF Commit, Crash, Idle
    <2>6. CASE \E area \in Areas, w \in Writes : WriteItem(area, w)
      BY <2>6, WriteItemStep
    <2>7. CASE \E on \in Conditions, card \in Definitions, state \in AddedStates : AddRelationship(on, card, state)
      BY <2>7, AddRelationshipStep
    <2>8. CASE \E path \in JoinFiles : \E item \in files[path] : Refresh(path, item)
      BY <2>8, RefreshStep
    <2>9. CASE \E id \in IF OnMetric THEN Names ELSE Conditions \cup {None}, area \in Places :
                  \/ \E verb \in Verbs, signer \in {None, "person"} : TrustOp(focus, id, area, verb, signer)
                  \/ \E value \in IF OnMetric THEN Names ELSE Conditions : EditOp(focus, id, area, "id", value)
                  \/ \E value \in Definitions : EditOp(focus, id, area, "def", value)
                  \/ BatchError(focus, id)
      BY <2>1, <2>9
    <2> QED BY <1>2, <2>2, <2>3, <2>4, <2>5, <2>6, <2>7, <2>8, <2>9 DEF Step
  <1> QED BY <1>1, <1>2 DEF Next

(* ------------------------------------------------------------------------ *)
(* The theorems.                                                              *)

(* What reads as approved says what was signed off, at every point of every   *)
(* batch and after a batch undone or cut short (_set_trust, _stale_on_edit,   *)
(* _kept_copy, _restore).                                                     *)
THEOREM ApprovedAsSigned == Spec => []ApprovedIsAsSigned
  <1>1. IInv => ApprovedIsAsSigned
    BY HitsAre DEF IInv, AreHeld, ApprovedIsAsSigned, Sound
  <1> QED BY <1>1, InvInit, InvStep, PTL DEF Spec

(* A batch undone leaves every file as the batch found it, whatever its       *)
(* operations wrote and however often (_snapshot, _restore).                  *)
THEOREM UndoneLeavesNothing == Spec => UndoneIsUntouched
  <1>1. IInv /\ [Next]_vars => [Undo => files' = base]_vars
    BY UndoneIsBase
  <1> QED BY <1>1, InvInit, InvStep, PTL DEF Spec, UndoneIsUntouched

(* No move loses what a person decided of a join, however many joins land and *)
(* in whatever order (_land_joins, _kept_copy).                               *)
THEOREM MovesKeepDecisions == Spec => MoveKeepsDecisions
  <1>1. ASSUME IInv, NEW t \in Tables, NEW dst \in Areas, Move(t, dst),
               NEW h \in HitsIn(JoinFiles), Decided(h[2])
        PROVE  \E p \in JoinFiles : \E i \in files'[p] : Says(i) = Says(h[2]) /\ i.state = h[2].state
    <2> DEFINE src == Owner(t)
               to == JoinPlace([Owners EXCEPT ![t] = dst])
               all == Content(t, src, dst, to)
               landed == LandJoins(src, to)
    <2>0. all = Content(t, src, dst, to) /\ landed = LandJoins(src, to)
      OBVIOUS
    <2>1. AreHeld(files)
      BY <1>1 DEF IInv
    <2>2. src \in Areas /\ JoinFile(to) \in JoinFiles
      BY <2>1, MovePlaces
    <2>3. dst # src /\ landed.ok = TRUE /\ Write(all)
      BY <1>1, MoveWrites
    <2> HIDE DEF src, to, all
    <2>4. /\ JoinFile(to) \in DOMAIN all /\ all[JoinFile(to)] = landed.joins
          /\ \A p \in JoinFiles : p \in DOMAIN all => p \in {JoinFile(to), JoinFile(src), JoinFile(Cross)}
      <3> HIDE DEF landed
      <3>1. IsMove(t, src, dst, to, all)
        BY <2>0, <2>1, <2>2, <2>3, ContentIs
      <3> QED BY <2>0, <3>1 DEF IsMove
    <2>5. Carries(landed, files[JoinFile(to)] \cup files[JoinFile(src)] \cup files[JoinFile(Cross)])
      BY <2>1, <2>2, LandJoinsKeeps
    <2> HIDE DEF landed
    <2>6. \A p \in JoinFiles : files'[p] = IF p \in DOMAIN all THEN all[p] ELSE files[p]
      BY <2>3, PathsApart DEF Write, ItemFiles
    <2>7. h[1] \in JoinFiles /\ h[2] \in files[h[1]]
      BY <1>1, HitsAre
    <2>8. CASE h[1] \notin DOMAIN all
      BY <2>6, <2>7, <2>8
    <2>9. CASE h[1] \in DOMAIN all
      <3>1. h[2] \in files[JoinFile(to)] \cup files[JoinFile(src)] \cup files[JoinFile(Cross)]
        BY <2>4, <2>7, <2>9
      <3>2. PICK i \in landed.joins : Says(i) = Says(h[2]) /\ i.state = h[2].state
        BY <1>1, <2>3, <2>5, <3>1 DEF Carries
      <3>3. i \in files'[JoinFile(to)]
        BY <2>2, <2>4, <2>6, <3>2
      <3> QED BY <2>2, <3>2, <3>3
    <2> QED BY <2>8, <2>9
  <1>2. IInv /\ [Next]_vars =>
            [\A t \in Tables, dst \in Areas : Move(t, dst) =>
                \A h \in HitsIn(JoinFiles) : Decided(h[2]) =>
                    \E p \in JoinFiles : \E i \in files'[p] : Says(i) = Says(h[2]) /\ i.state = h[2].state]_vars
    BY <1>1
  <1> QED BY <1>2, InvInit, InvStep, PTL DEF Spec, MoveKeepsDecisions
=============================================================================
