-------------------------- MODULE StoreConnProofs --------------------------
(***************************************************************************)
(* The safety properties of StoreConn for any set of instances, any number *)
(* of migration files and units of work, and any bounds on losses and      *)
(* boots.                                                                  *)
(*                                                                         *)
(* The strengthening says what each connection has open, told by where its *)
(* caller is: which makes a commit land exactly the two pieces of one unit *)
(* or of one file, and a position that has something open one at which     *)
(* _mid_transaction or _session_state_held is set.                         *)
(***************************************************************************)
EXTENDS StoreConn, TLAPS

\* What a live connection has open, told by where the caller is.
Sent(s) ==
    CASE st[s].pc = "audit" -> {<<"change", st[s].unit>>}
      [] st[s].pc = "unit_commit" -> {<<"change", st[s].unit>>, <<"audit", st[s].unit>>}
      [] st[s].pc = "row" -> {<<"script", st[s].file>>}
      [] st[s].pc = "file_commit" -> {<<"script", st[s].file>>, <<"row", st[s].file>>}
      [] OTHER -> {}

\* The conjuncts of the invariant that speak of one instance: what it has open,
\* which flag guards it, whose lock it is, and what its position says.
OpenIsSent(s) == conn[s].tx = IF conn[s].up THEN Sent(s) ELSE {}
UnitMarked(s) == st[s].pc \in {"audit", "unit_commit"} => st[s].mid /\ st[s].retry = "first"
MigrationHeld(s) == st[s].pc \in Migrating => st[s].held /\ st[s].retry = "first"
MigrationLocked(s) == st[s].pc \in Migrating /\ conn[s].up => lock = s
UnitKnown(s) == st[s].pc \in {"change", "audit", "unit_commit"} => st[s].unit \in Units
FileKnown(s) == st[s].pc \in {"row", "file_commit"} => st[s].file \in Files \ st[s].applied
PlanCurrent(s) ==
    conn[s].up /\ st[s].pc \in {"script", "row", "file_commit"} => st[s].applied = Recorded

StoreInv(s) ==
    /\ OpenIsSent(s) /\ UnitMarked(s) /\ MigrationHeld(s) /\ MigrationLocked(s)
    /\ UnitKnown(s) /\ FileKnown(s) /\ PlanCurrent(s)

\* The inductive invariant.
IInv == TypeOK /\ (\A s \in Stores : StoreInv(s)) /\ UnitIsWhole /\ AppliedMeansRun

-----------------------------------------------------------------------------
\* The types of TypeOK, named.
ConnRec == [up : BOOLEAN, tx : SUBSET Pieces, aborted : BOOLEAN]
StRec == [pc : Pcs, retry : {"first", "reconnect", "again"}, mid : BOOLEAN,
          held : BOOLEAN, applied : SUBSET Files, file : 0 .. NFiles, unit : 0 .. NUnits]
BoundsRec == [losses : 0 .. MaxLosses, boots : 0 .. MaxBoots, units : 0 .. NUnits]

\* The invariant holds when nothing has started.
LEMMA InitInv == Init => IInv
  <1> SUFFICES ASSUME Init PROVE IInv
    OBVIOUS
  <1>1. TypeOK
    BY StoreAssumption DEF Init, TypeOK, Lost, New, Pcs
  <1>2. ASSUME NEW s \in Stores PROVE StoreInv(s)
    BY DEF Init, Lost, New, StoreInv, OpenIsSent, Sent, UnitMarked, MigrationHeld,
           MigrationLocked, UnitKnown, FileKnown, PlanCurrent, Migrating
  <1>3. UnitIsWhole /\ AppliedMeansRun
    BY DEF Init, UnitIsWhole, AppliedMeansRun, Pieces
  <1> QED
    BY <1>1, <1>2, <1>3 DEF IInv

\* What a statement that runs leaves: its pieces open, its caller at next, and
\* the transaction marked if it writes.
RunTo(s, pc, pieces, next) ==
    /\ conn' \in [Stores -> ConnRec] /\ st' \in [Stores -> StRec]
    /\ conn[s].up /\ conn'[s].up
    /\ conn'[s].tx = conn[s].tx \cup pieces
    /\ st[s].pc = pc
    /\ st'[s].pc = next.pc /\ st'[s].retry = next.retry /\ st'[s].held = next.held
    /\ st'[s].applied = next.applied /\ st'[s].file = next.file /\ st'[s].unit = next.unit
    /\ pc \in Writes => st'[s].mid
    /\ \A t \in Stores \ {s} : conn'[t] = conn[t] /\ st'[t] = st[t]
    /\ db' = db /\ Recorded' = Recorded /\ bounds' \in BoundsRec

\* Runs does that.
LEMMA RunsFacts ==
    ASSUME TypeOK, NEW s \in Stores, NEW pc \in Pcs, NEW pieces \in SUBSET Pieces,
           NEW next \in StRec, Runs(s, pc, pieces, next)
    PROVE  RunTo(s, pc, pieces, next)
  <1>1. conn \in [Stores -> ConnRec] /\ st \in [Stores -> StRec]
    BY DEF TypeOK, ConnRec, StRec
  <1>2. (next.mid \/ pc \in Writes) \in BOOLEAN
    OBVIOUS
  <1>3. [next EXCEPT !.mid = @ \/ pc \in Writes] \in StRec
    BY <1>2 DEF StRec
  <1>4. db' = db /\ bounds' = bounds /\ bounds \in BoundsRec
    BY DEF Runs, TypeOK, BoundsRec
  <1>5. Recorded' = Recorded
    BY <1>4 DEF Recorded
  <1> HIDE DEF Recorded
  <1> QED BY <1>1, <1>2, <1>3, <1>4, <1>5 DEF Runs, RunTo, ConnRec, StRec

\* Where a caller can be sent is a state of the Store.
LEMMA NextStates ==
    ASSUME TypeOK, NEW s \in Stores
    PROVE  /\ st[s] \in StRec
           /\ \A pc \in Pcs : To(s, pc) \in StRec
           /\ Raised(s) \in StRec
  <1>1. st[s] \in StRec
    BY DEF TypeOK, StRec
  <1>2. \A pc \in Pcs : To(s, pc) \in StRec
    BY <1>1 DEF To, StRec
  <1>3. Raised(s) \in StRec
    <2>1. {"cleanup_rollback", "failed", "unwind", "idle"} \subseteq Pcs
      BY DEF Pcs, Rollbacks
    <2>2. \A r \in StRec : [r EXCEPT !.held = FALSE] \in StRec
      BY DEF StRec
    <2> QED BY <1>2, <2>1, <2>2 DEF Raised
  <1> QED BY <1>1, <1>2, <1>3

\* What an exception leaves of the Store: the caller is past its transaction
\* and its migrations, and the flags are as they were or freed by the cleanup.
LEMMA RaisedFacts ==
    ASSUME TypeOK, NEW s \in Stores
    PROVE  /\ Raised(s).pc \in {"cleanup_rollback", "failed", "unwind", "idle"}
           /\ Raised(s).retry = "first"
  <1>1. st[s] \in StRec
    BY DEF TypeOK, StRec
  <1>2. \A pc \in Pcs : To(s, pc) \in StRec /\ To(s, pc).pc = pc /\ To(s, pc).retry = "first"
    BY <1>1 DEF To, StRec
  <1>3. {"cleanup_rollback", "failed", "unwind", "idle"} \subseteq Pcs
    BY DEF Pcs, Rollbacks
  <1>4. \A r \in StRec : /\ [r EXCEPT !.held = FALSE].pc = r.pc
                         /\ [r EXCEPT !.held = FALSE].retry = r.retry
    BY DEF StRec
  <1> QED BY <1>2, <1>3, <1>4 DEF Raised

\* What a commit that returned leaves of the Store.
LEMMA CommittedFacts ==
    ASSUME TypeOK, NEW s \in Stores, st[s].pc \in Commits, FileKnown(s), MigrationHeld(s)
    PROVE  /\ Committed(s) \in StRec
           /\ Committed(s).pc \in {"read", "script", "unlock", "idle", "failed"}
           /\ Committed(s).pc \in {"read", "script"} =>
                 /\ Committed(s).held /\ Committed(s).retry = "first"
                 /\ st[s].pc \in {"create_commit", "file_commit"}
           /\ Committed(s).pc = "script" =>
                 st[s].pc = "file_commit" /\ Committed(s).applied = Ran(s)
  <1>1. st[s] \in StRec
    BY DEF TypeOK, StRec
  <1> DEFINE me == [st[s] EXCEPT !.mid = FALSE]
  <1>2. me \in StRec /\ me.held = st[s].held /\ me.retry = st[s].retry
    BY <1>1 DEF StRec
  <1>3. {"read", "script", "unlock", "idle", "failed"} \subseteq Pcs
    BY DEF Pcs, Statements, Migrating
  <1> HIDE DEF me
  <1>4. CASE st[s].pc = "create_commit"
    <2>1. Committed(s) = [me EXCEPT !.pc = "read"]
      BY <1>4 DEF Committed, me
    <2>2. st[s].held /\ st[s].retry = "first"
      BY <1>4 DEF MigrationHeld, Migrating
    <2> QED BY <1>2, <1>3, <1>4, <2>1, <2>2 DEF StRec
  <1>5. CASE st[s].pc = "file_commit"
    <2>1. Committed(s) = [me EXCEPT !.applied = Ran(s),
                                    !.pc = IF Ran(s) = Files THEN "unlock" ELSE "script"]
      BY <1>5 DEF Committed, me
    <2>2. Ran(s) \in SUBSET Files
      BY <1>1, <1>5 DEF Ran, FileKnown, StRec
    <2>3. st[s].held /\ st[s].retry = "first"
      BY <1>5 DEF MigrationHeld, Migrating
    <2> HIDE DEF Ran
    <2> QED BY <1>2, <1>3, <1>5, <2>1, <2>2, <2>3 DEF StRec
  <1>6. CASE st[s].pc = "unlock_commit"
    <2>1. Committed(s) = [me EXCEPT !.pc = "idle", !.held = FALSE, !.applied = {}, !.file = 0]
      BY <1>6 DEF Committed, me
    <2>2. 0 \in 0 .. NFiles /\ 0 \in 0 .. NUnits
      BY StoreAssumption
    <2>3. Committed(s) \in StRec /\ Committed(s).pc = "idle"
      BY <1>2, <1>3, <2>1, <2>2 DEF StRec
    <2> QED BY <2>3
  <1>7. CASE st[s].pc = "cleanup_commit"
    <2>1. Committed(s) = [me EXCEPT !.pc = "failed", !.held = FALSE]
      BY <1>7 DEF Committed, me
    <2> QED BY <1>2, <1>3, <1>7, <2>1 DEF StRec
  <1>8. CASE st[s].pc = "unit_commit"
    <2>1. Committed(s) = [me EXCEPT !.pc = "idle", !.unit = 0]
      BY <1>8 DEF Committed, me
    <2>2. 0 \in 0 .. NFiles /\ 0 \in 0 .. NUnits
      BY StoreAssumption
    <2>3. Committed(s) \in StRec /\ Committed(s).pc = "idle"
      BY <1>2, <1>3, <2>1, <2>2 DEF StRec
    <2> QED BY <2>3
  <1> QED BY <1>4, <1>5, <1>6, <1>7, <1>8 DEF Commits

\* The pieces a commit lands: the two of one unit, the two of one file, or none.
LEMMA LandedFacts ==
    ASSUME IInv, NEW s \in Stores, st[s].pc \in Commits, conn[s].up, db' = Landed(s)
    PROVE  /\ db' \in [Pieces -> Nat]
           /\ UnitIsWhole' /\ AppliedMeansRun'
           /\ Recorded' = IF st[s].pc = "file_commit" THEN Recorded \cup {st[s].file}
                          ELSE Recorded
  <1>1. db \in [Pieces -> Nat] /\ StoreInv(s)
    BY DEF IInv, TypeOK
  <1>2. db' \in [Pieces -> Nat]
    BY <1>1 DEF Landed
  <1>3. conn[s].tx = Sent(s)
    BY <1>1 DEF StoreInv, OpenIsSent
  <1>4. /\ \A u \in Units : <<"change", u>> \in Pieces /\ <<"audit", u>> \in Pieces
        /\ \A f \in Files : <<"script", f>> \in Pieces /\ <<"row", f>> \in Pieces
    BY DEF Pieces
  <1>5. \A p \in Pieces : db'[p] = IF p \in Sent(s) THEN db[p] + 1 ELSE db[p]
    BY <1>3 DEF Landed
  <1>6. CASE st[s].pc = "file_commit"
    <2>1. Sent(s) = {<<"script", st[s].file>>, <<"row", st[s].file>>}
      BY <1>6 DEF Sent
    <2>2. st[s].file \in Files /\ st[s].file \notin Recorded
      BY <1>1, <1>6 DEF StoreInv, FileKnown, PlanCurrent
    <2>3. \A u \in Units : <<"change", u>> \notin Sent(s) /\ <<"audit", u>> \notin Sent(s)
      BY <2>1
    <2>4. \A f \in Files : /\ <<"script", f>> \in Sent(s) <=> f = st[s].file
                           /\ <<"row", f>> \in Sent(s) <=> f = st[s].file
      BY <2>1
    <2>5. UnitIsWhole'
      BY <1>4, <1>5, <2>3 DEF IInv, UnitIsWhole
    <2>6. ASSUME NEW f \in Files
          PROVE  /\ db[<<"script", f>>] \in Nat /\ db[<<"row", f>>] \in Nat
                 /\ f = st[s].file => /\ db'[<<"script", f>>] = db[<<"script", f>>] + 1
                                      /\ db'[<<"row", f>>] = db[<<"row", f>>] + 1
                 /\ f # st[s].file => /\ db'[<<"script", f>>] = db[<<"script", f>>]
                                      /\ db'[<<"row", f>>] = db[<<"row", f>>]
      <3>1. db[<<"script", f>>] \in Nat /\ db[<<"row", f>>] \in Nat
        BY <1>1, <1>4
      <3>2. CASE f = st[s].file
        BY <1>4, <1>5, <2>4, <3>1, <3>2
      <3>3. CASE f # st[s].file
        BY <1>4, <1>5, <2>4, <3>1, <3>3
      <3> QED BY <3>1, <3>2, <3>3
    <2>7. db[<<"row", st[s].file>>] = 0
      <3>1. ~(db[<<"row", st[s].file>>] > 0)
        BY <2>2 DEF Recorded
      <3>2. db[<<"row", st[s].file>>] \in Nat
        BY <1>1, <1>4, <2>2
      <3>3. \A n \in Nat : n = 0 \/ n > 0
        OBVIOUS
      <3> QED BY <3>1, <3>2, <3>3, Zenon
    <2>8. AppliedMeansRun'
      <3>1. ASSUME NEW f \in Files
            PROVE  db[<<"row", f>>] = db[<<"script", f>>] /\ db[<<"row", f>>] <= 1
        BY DEF IInv, AppliedMeansRun
      <3>2. ASSUME NEW f \in Files
            PROVE  db'[<<"row", f>>] = db'[<<"script", f>>] /\ db'[<<"row", f>>] <= 1
        BY <2>6, <2>7, <3>1
      <3> QED BY <3>2 DEF AppliedMeansRun
    <2>9. Recorded' = Recorded \cup {st[s].file}
      <3>1. ASSUME NEW f \in Files
            PROVE  f \in Recorded' <=> f \in Recorded \/ f = st[s].file
        <4>1. f \in Recorded <=> db[<<"row", f>>] > 0
          BY DEF Recorded
        <4>2. f \in Recorded' <=> db'[<<"row", f>>] > 0
          BY DEF Recorded
        <4>3. \A n \in Nat : n + 1 > 0
          OBVIOUS
        <4>4. CASE f = st[s].file
          BY <2>6, <4>2, <4>3, <4>4, Zenon
        <4>5. CASE f # st[s].file
          BY <2>6, <4>1, <4>2, <4>5, Zenon
        <4> QED BY <4>4, <4>5
      <3> QED BY <2>2, <3>1 DEF Recorded
    <2> QED BY <1>2, <1>6, <2>5, <2>8, <2>9
  <1>7. CASE st[s].pc # "file_commit"
    <2>1. Sent(s) = {} \/ \E u \in Units : Sent(s) = {<<"change", u>>, <<"audit", u>>}
      BY <1>1, <1>7 DEF Sent, Commits, StoreInv, UnitKnown
    <2>2. \A f \in Files : <<"script", f>> \notin Sent(s) /\ <<"row", f>> \notin Sent(s)
      BY <2>1
    <2>3. \A u \in Units : <<"change", u>> \in Sent(s) <=> <<"audit", u>> \in Sent(s)
      BY <2>1
    <2>4. UnitIsWhole'
      BY <1>4, <1>5, <2>3 DEF IInv, UnitIsWhole
    <2>5. AppliedMeansRun' /\ Recorded' = Recorded
      BY <1>4, <1>5, <2>2 DEF IInv, AppliedMeansRun, Recorded
    <2> QED BY <1>2, <1>7, <2>4, <2>5
  <1> QED BY <1>6, <1>7

-----------------------------------------------------------------------------
\* An instance whose connection and state a step leaves alone keeps its
\* invariant, so long as nobody takes its lock or records a file under it.
LEMMA Others ==
    ASSUME NEW t \in Stores, StoreInv(t), conn'[t] = conn[t], st'[t] = st[t],
           lock = t => lock' = t /\ Recorded' = Recorded
    PROVE  StoreInv(t)'
  BY DEF StoreInv, OpenIsSent, Sent, UnitMarked, MigrationHeld, MigrationLocked,
         UnitKnown, FileKnown, PlanCurrent, Migrating

\* A caller that is past its transaction has nothing left to keep.
LEMMA Quiet ==
    ASSUME NEW s \in Stores, conn'[s].tx = {},
           st'[s].pc \notin Migrating \cup {"audit", "unit_commit"},
           st'[s].pc = "change" => st'[s].unit \in Units
    PROVE  StoreInv(s)'
  BY DEF StoreInv, OpenIsSent, Sent, UnitMarked, MigrationHeld, MigrationLocked,
         UnitKnown, FileKnown, PlanCurrent, Migrating

\* A connection that is gone has nothing open, nor has one whose caller is
\* outside a transaction.
LEMMA NothingOpen ==
    ASSUME NEW s \in Stores, StoreInv(s),
           ~conn[s].up \/ st[s].pc \notin {"audit", "unit_commit", "row", "file_commit"}
    PROVE  conn[s].tx = {}
  BY DEF StoreInv, OpenIsSent, Sent

\* A step of s that commits nothing keeps the invariant when it keeps s's own.
LEMMA Kept ==
    ASSUME IInv, NEW s \in Stores,
           conn' \in [Stores -> ConnRec], st' \in [Stores -> StRec], bounds' \in BoundsRec,
           \A t \in Stores \ {s} : conn'[t] = conn[t] /\ st'[t] = st[t],
           lock' \in {lock, Freed(s)} \/ (lock = NoOne /\ lock' = s),
           db' = db, StoreInv(s)'
    PROVE  IInv'
  <1>1. Recorded' = Recorded
    BY DEF Recorded
  <1>2. lock \in Stores \cup {NoOne} /\ NoOne \notin Stores
    BY StoreAssumption DEF IInv, TypeOK
  <1>3. ASSUME NEW t \in Stores \ {s} PROVE StoreInv(t)'
    <2>1. lock = t => lock' = t
      BY <1>2 DEF Freed
    <2>2. StoreInv(t)
      BY DEF IInv
    <2> QED BY <1>1, <2>1, <2>2, Others
  <1>4. TypeOK'
    BY <1>2 DEF IInv, TypeOK, ConnRec, StRec, BoundsRec, Freed
  <1>5. UnitIsWhole' /\ AppliedMeansRun'
    BY DEF IInv, UnitIsWhole, AppliedMeansRun
  <1> QED BY <1>3, <1>4, <1>5 DEF IInv

\* The two functions a step updates at s.
LEMMA Updates ==
    ASSUME IInv, NEW s \in Stores
    PROVE  /\ \A r \in StRec : st' = [st EXCEPT ![s] = r] =>
                 /\ st' \in [Stores -> StRec] /\ st'[s] = r
                 /\ \A t \in Stores \ {s} : st'[t] = st[t]
           /\ \A c \in ConnRec : conn' = [conn EXCEPT ![s] = c] =>
                 /\ conn' \in [Stores -> ConnRec] /\ conn'[s] = c
                 /\ \A t \in Stores \ {s} : conn'[t] = conn[t]
           /\ st \in [Stores -> StRec] /\ conn \in [Stores -> ConnRec]
           /\ bounds \in BoundsRec /\ StoreInv(s) /\ TypeOK
           /\ Lost \in ConnRec /\ Fresh \in ConnRec
  <1>1. st \in [Stores -> StRec] /\ conn \in [Stores -> ConnRec] /\ bounds \in BoundsRec
    BY DEF IInv, TypeOK, StRec, ConnRec, BoundsRec
  <1>2. StoreInv(s) /\ TypeOK
    BY DEF IInv
  <1>3. Lost \in ConnRec /\ Fresh \in ConnRec
    BY DEF Lost, Fresh, ConnRec
  <1> QED BY <1>1, <1>2, <1>3

\* A loss is counted within its bound.
LEMMA LossCounted ==
    ASSUME IInv, bounds.losses < MaxLosses,
           bounds' = [bounds EXCEPT !.losses = @ + 1]
    PROVE  bounds' \in BoundsRec
  <1>1. bounds \in BoundsRec
    BY DEF IInv, TypeOK, BoundsRec
  <1>2. bounds.losses + 1 \in 0 .. MaxLosses
    BY <1>1, StoreAssumption DEF BoundsRec
  <1> QED BY <1>1, <1>2 DEF BoundsRec

-----------------------------------------------------------------------------
\* What the server does to a connection, and an instance's start and end.
LEMMA ServerSteps ==
    ASSUME IInv, NEW s \in Stores, LoseConnection(s) \/ Boot(s) \/ Crash(s) \/ Close(s)
    PROVE  IInv'
  <1> USE Updates
  <1>1. CASE LoseConnection(s)
    <2>1. st' = st /\ db' = db /\ lock' = Freed(s) /\ conn' = [conn EXCEPT ![s] = Lost]
      BY <1>1 DEF LoseConnection
    <2>2. bounds' \in BoundsRec
      BY <1>1, LossCounted DEF LoseConnection
    <2>3. conn'[s] = Lost
      BY <2>1
    <2>4. StoreInv(s)'
      BY <2>1, <2>3
         DEF Lost, StoreInv, OpenIsSent, Sent, UnitMarked, MigrationHeld, MigrationLocked,
             UnitKnown, FileKnown, PlanCurrent
    <2> QED BY <2>1, <2>2, <2>4, Kept
  <1>2. \A pc \in {"boot", "lock"} : /\ New(pc) \in StRec /\ New(pc).pc = pc
                                     /\ pc \notin Migrating \cup {"audit", "unit_commit", "change"}
    <2>1. 0 \in 0 .. NFiles /\ 0 \in 0 .. NUnits
      BY StoreAssumption
    <2> QED BY <2>1 DEF New, StRec, Pcs, Statements, Migrating
  <1>3. CASE Boot(s)
    <2>1. st' = [st EXCEPT ![s] = New("lock")] /\ conn' = [conn EXCEPT ![s] = Fresh]
          /\ db' = db /\ lock' = lock
      BY <1>3 DEF Boot
    <2>2. bounds.boots + 1 \in 0 .. MaxBoots
      BY <1>3, StoreAssumption DEF Boot, BoundsRec
    <2>3. bounds' \in BoundsRec
      BY <1>3, <2>2 DEF Boot, BoundsRec
    <2>4. st'[s] = New("lock") /\ conn'[s] = Fresh
      BY <1>2, <2>1
    <2>5. conn'[s].tx = {}
      BY <2>4 DEF Fresh
    <2>6. StoreInv(s)'
      BY <1>2, <2>4, <2>5, Quiet
    <2> QED BY <1>2, <2>1, <2>3, <2>6, Kept
  <1>4. CASE Crash(s) \/ Close(s)
    <2>1. st' = [st EXCEPT ![s] = New("boot")] /\ conn' = [conn EXCEPT ![s] = Lost]
          /\ db' = db /\ lock' = Freed(s) /\ bounds' = bounds
      BY <1>4 DEF Crash, Close
    <2>2. st'[s] = New("boot") /\ conn'[s] = Lost
      BY <1>2, <2>1
    <2>3. conn'[s].tx = {}
      BY <2>2 DEF Lost
    <2>4. StoreInv(s)'
      BY <1>2, <2>2, <2>3, Quiet
    <2> QED BY <1>2, <2>1, <2>4, Kept
  <1> QED BY <1>1, <1>3, <1>4

\* An exception that reaches the caller, with nothing open behind it.
LEMMA RaisedIsQuiet ==
    ASSUME IInv, NEW s \in Stores, st' = [st EXCEPT ![s] = Raised(s)], conn'[s].tx = {}
    PROVE  /\ st' \in [Stores -> StRec]
           /\ \A t \in Stores \ {s} : st'[t] = st[t]
           /\ StoreInv(s)'
  <1>1. Raised(s) \in StRec /\ Raised(s).pc \in {"cleanup_rollback", "failed", "unwind", "idle"}
    BY Updates, NextStates, RaisedFacts
  <1>2. /\ st' \in [Stores -> StRec] /\ st'[s] = Raised(s)
        /\ \A t \in Stores \ {s} : st'[t] = st[t]
    BY <1>1, Updates
  <1>3. st'[s].pc \notin Migrating \cup {"audit", "unit_commit", "change"}
    BY <1>1, <1>2 DEF Migrating
  <1> QED BY <1>2, <1>3, Quiet

\* What execute and rollback do when a statement fails or its connection is gone.
LEMMA FailureSteps ==
    ASSUME IInv, NEW s \in Stores,
           Fails(s) \/ FindsDead(s) \/ Reconnect(s) \/ RollbackReturns(s) \/ EndsDead(s)
    PROVE  IInv'
  <1> USE Updates
  <1>0. \A b \in BOOLEAN : LET c == [conn[s] EXCEPT !.tx = {}, !.aborted = b]
                           IN  c \in ConnRec /\ c.tx = {}
    BY ZenonT(30) DEF ConnRec
  <1>1. CASE Fails(s)
    <2>1. /\ conn' = [conn EXCEPT ![s] = [conn[s] EXCEPT !.tx = {}, !.aborted = TRUE]]
          /\ st' = [st EXCEPT ![s] = Raised(s)]
          /\ db' = db /\ lock' = lock /\ bounds' = bounds
      BY <1>1 DEF Fails
    <2>2. /\ conn' \in [Stores -> ConnRec] /\ conn'[s].tx = {}
          /\ \A t \in Stores \ {s} : conn'[t] = conn[t]
      BY <1>0, <2>1
    <2> QED BY <2>1, <2>2, RaisedIsQuiet, Kept
  <1>2. CASE FindsDead(s)
    <2>1. /\ conn' = conn /\ db' = db /\ lock' = lock /\ bounds' = bounds
          /\ conn[s].tx = {}
      BY <1>2, NothingOpen DEF FindsDead
    <2>2. CASE st[s].retry = "first" /\ MayReconnect(s)
      <3> DEFINE r == [st[s] EXCEPT !.retry = "reconnect"]
      <3>1. r \in StRec /\ r.pc = st[s].pc /\ r.unit = st[s].unit
        BY DEF StRec
      <3>2. st' = [st EXCEPT ![s] = r]
        BY <1>2, <2>2 DEF FindsDead
      <3> HIDE DEF r
      <3>3. /\ st' \in [Stores -> StRec] /\ st'[s] = r
            /\ \A t \in Stores \ {s} : st'[t] = st[t]
        BY <3>1, <3>2
      <3>4. st[s].pc \notin Migrating \cup {"audit", "unit_commit"}
        BY <2>2 DEF StoreInv, MigrationHeld, UnitMarked, MayReconnect
      <3>5. st[s].pc = "change" => st[s].unit \in Units
        BY DEF StoreInv, UnitKnown
      <3>6. StoreInv(s)'
        BY <2>1, <3>1, <3>3, <3>4, <3>5, Quiet
      <3> QED BY <2>1, <3>3, <3>6, Kept
    <2>3. CASE ~(st[s].retry = "first" /\ MayReconnect(s))
      <3>1. st' = [st EXCEPT ![s] = Raised(s)]
        BY <1>2, <2>3 DEF FindsDead
      <3> QED BY <2>1, <3>1, RaisedIsQuiet, Kept
    <2> QED BY <2>2, <2>3
  <1>3. CASE Reconnect(s)
    <2>1. db' = db /\ lock' = lock /\ bounds' = bounds /\ st[s].retry = "reconnect"
      BY <1>3 DEF Reconnect
    <2>2. st[s].pc \notin Migrating \cup {"audit", "unit_commit"}
      BY <2>1 DEF StoreInv, MigrationHeld, UnitMarked
    <2>3. CASE conn' = [conn EXCEPT ![s] = Fresh] /\ st' = [st EXCEPT ![s].retry = "again"]
      <3>1. conn'[s].tx = {}
        BY <2>3 DEF Fresh
      <3>2. /\ st' \in [Stores -> StRec] /\ st'[s].pc = st[s].pc /\ st'[s].unit = st[s].unit
            /\ \A t \in Stores \ {s} : st'[t] = st[t]
        <4> DEFINE r == [st[s] EXCEPT !.retry = "again"]
        <4>1. r \in StRec /\ r.pc = st[s].pc /\ r.unit = st[s].unit
          BY DEF StRec
        <4>2. st' = [st EXCEPT ![s] = r]
          BY <2>3
        <4> HIDE DEF r
        <4> QED BY <4>1, <4>2
      <3>3. st[s].pc = "change" => st[s].unit \in Units
        BY DEF StoreInv, UnitKnown
      <3>4. StoreInv(s)'
        BY <2>2, <3>1, <3>2, <3>3, Quiet
      <3> QED BY <2>1, <2>3, <3>2, <3>4, Kept
    <2>4. CASE conn' = conn /\ st' = [st EXCEPT ![s] = Raised(s)]
      <3>1. conn[s].tx = {}
        BY <2>2, NothingOpen DEF Migrating
      <3> QED BY <2>1, <2>4, <3>1, RaisedIsQuiet, Kept
    <2> QED BY <1>3, <2>3, <2>4 DEF Reconnect
  <1>4. CASE RollbackReturns(s)
    <2> DEFINE pc == IF st[s].pc = "unwind" THEN "idle" ELSE "cleanup_unlock"
               r  == [To(s, pc) EXCEPT !.mid = FALSE]
    <2>1. /\ conn' = [conn EXCEPT ![s] = [conn[s] EXCEPT !.tx = {}, !.aborted = FALSE]]
          /\ st' = [st EXCEPT ![s] = r]
          /\ db' = db /\ lock' = lock /\ bounds' = bounds
      BY <1>4 DEF RollbackReturns
    <2>2. /\ conn' \in [Stores -> ConnRec] /\ conn'[s].tx = {}
          /\ \A t \in Stores \ {s} : conn'[t] = conn[t]
      BY <1>0, <2>1
    <2>3. r \in StRec /\ r.pc \in {"idle", "cleanup_unlock"}
      <3>1. pc \in Pcs /\ pc \in {"idle", "cleanup_unlock"}
        BY DEF Pcs, Statements
      <3>2. To(s, pc) \in StRec /\ To(s, pc).pc = pc
        BY <3>1, NextStates DEF To, StRec
      <3>3. \A q \in StRec : LET m == [q EXCEPT !.mid = FALSE] IN m \in StRec /\ m.pc = q.pc
        BY DEF StRec
      <3> QED BY <3>1, <3>2, <3>3
    <2> HIDE DEF r
    <2>4. /\ st' \in [Stores -> StRec] /\ st'[s] = r
          /\ \A t \in Stores \ {s} : st'[t] = st[t]
      BY <2>1, <2>3
    <2>5. st'[s].pc \notin Migrating \cup {"audit", "unit_commit", "change"}
      BY <2>3, <2>4 DEF Migrating
    <2>6. StoreInv(s)'
      BY <2>2, <2>5, Quiet
    <2> QED BY <2>1, <2>2, <2>4, <2>6, Kept
  <1>5. CASE EndsDead(s)
    <2>1. /\ conn' = conn /\ db' = db /\ lock' = lock /\ bounds' = bounds
          /\ conn[s].tx = {} /\ st' = [st EXCEPT ![s] = Raised(s)]
      BY <1>5, NothingOpen DEF EndsDead
    <2> QED BY <2>1, RaisedIsQuiet, Kept
  <1> QED BY <1>1, <1>2, <1>3, <1>4, <1>5

-----------------------------------------------------------------------------
\* A commit that returns, and one whose connection goes while it is on its way.
LEMMA CommitSteps ==
    ASSUME IInv, NEW s \in Stores, CommitReturns(s) \/ CommitLost(s)
    PROVE  IInv'
  <1> USE Updates
  <1>1. st[s].pc \in Commits /\ conn[s].up
    BY DEF CommitReturns, CommitLost
  \* Another instance that holds the lock does not see a file recorded: the
  \* one that commits a file holds it.
  <1>2. ASSUME db' = Landed(s), NEW t \in Stores \ {s}, lock = t
        PROVE  Recorded' = Recorded
    <2>1. st[s].pc # "file_commit"
      BY <1>1, <1>2 DEF StoreInv, MigrationLocked, Migrating
    <2> QED BY <1>1, <1>2, <2>1, LandedFacts
  <1>3. /\ db' \in [Pieces -> Nat] /\ UnitIsWhole' /\ AppliedMeansRun'
        /\ \A t \in Stores \ {s} : lock = t => Recorded' = Recorded
    <2>1. CASE db' = Landed(s)
      BY <1>1, <1>2, <2>1, LandedFacts
    <2>2. CASE db' = db
      BY <2>2 DEF IInv, TypeOK, UnitIsWhole, AppliedMeansRun, Recorded
    <2> QED BY <2>1, <2>2 DEF CommitReturns, CommitLost
  <1>4. /\ conn' \in [Stores -> ConnRec] /\ st' \in [Stores -> StRec] /\ StoreInv(s)'
        /\ \A t \in Stores \ {s} : conn'[t] = conn[t] /\ st'[t] = st[t]
        /\ lock' \in {lock, Freed(s)} /\ bounds' \in BoundsRec
    <2>1. CASE CommitReturns(s)
      <3>1. /\ conn' = [conn EXCEPT ![s].tx = {}] /\ st' = [st EXCEPT ![s] = Committed(s)]
            /\ db' = Landed(s) /\ lock' = lock /\ bounds' = bounds
        BY <2>1 DEF CommitReturns
      <3>2. /\ conn' \in [Stores -> ConnRec] /\ conn'[s].tx = {} /\ conn'[s].up
            /\ \A t \in Stores \ {s} : conn'[t] = conn[t]
        BY <1>1, <3>1 DEF ConnRec
      <3>3. FileKnown(s) /\ MigrationHeld(s) /\ MigrationLocked(s) /\ PlanCurrent(s)
        BY DEF StoreInv
      <3>4. Committed(s) \in StRec
        BY <1>1, <3>3, CommittedFacts
      <3>5. /\ st' \in [Stores -> StRec] /\ st'[s] = Committed(s)
            /\ \A t \in Stores \ {s} : st'[t] = st[t]
        BY <3>1, <3>4
      <3>6. CASE Committed(s).pc \in {"unlock", "idle", "failed"}
        <4>1. st'[s].pc \notin Migrating \cup {"audit", "unit_commit", "change"}
          BY <3>5, <3>6 DEF Migrating
        <4> QED BY <3>1, <3>2, <3>5, <4>1, Quiet
      <3>7. CASE Committed(s).pc \in {"read", "script"}
        <4>1. /\ Committed(s).held /\ Committed(s).retry = "first"
              /\ st[s].pc \in {"create_commit", "file_commit"}
              /\ Committed(s).pc = "script" =>
                   st[s].pc = "file_commit" /\ Committed(s).applied = Ran(s)
          BY <1>1, <3>3, <3>7, CommittedFacts
        <4>2. lock' = s
          BY <1>1, <3>1, <3>3, <4>1 DEF MigrationLocked, Migrating
        <4>3. Committed(s).pc = "script" => st'[s].applied = Recorded'
          <5>1. HAVE Committed(s).pc = "script"
          <5>2. st[s].applied = Recorded
            BY <1>1, <3>3, <4>1, <5>1 DEF PlanCurrent
          <5>3. Recorded' = Recorded \cup {st[s].file}
            BY <1>1, <3>1, <4>1, <5>1, LandedFacts
          <5> QED BY <3>5, <4>1, <5>1, <5>2, <5>3 DEF Ran
        <4>4. Sent(s)' = {}
          BY <3>5, <3>7 DEF Sent
        <4>5. StoreInv(s)'
          BY <3>2, <3>5, <3>7, <4>1, <4>2, <4>3, <4>4
             DEF StoreInv, OpenIsSent, UnitMarked, MigrationHeld, MigrationLocked,
                 UnitKnown, FileKnown, PlanCurrent
        <4> QED BY <3>1, <3>2, <3>5, <4>5
      <3>8. Committed(s).pc \in {"read", "script", "unlock", "idle", "failed"}
        BY <1>1, <3>3, CommittedFacts
      <3> QED BY <3>6, <3>7, <3>8
    <2>2. CASE CommitLost(s)
      <3>1. /\ conn' = [conn EXCEPT ![s] = Lost] /\ st' = [st EXCEPT ![s] = Raised(s)]
            /\ lock' = Freed(s)
        BY <2>2 DEF CommitLost
      <3>2. bounds' \in BoundsRec
        BY <2>2, LossCounted DEF CommitLost
      <3>3. conn'[s].tx = {}
        BY <3>1 DEF Lost
      <3> QED BY <3>1, <3>2, <3>3, RaisedIsQuiet
    <2> QED BY <2>1, <2>2
  <1>5. lock \in Stores \cup {NoOne} /\ NoOne \notin Stores
    BY StoreAssumption DEF IInv, TypeOK
  <1>6. TypeOK'
    BY <1>3, <1>4, <1>5 DEF TypeOK, ConnRec, StRec, BoundsRec, Freed
  <1>7. ASSUME NEW t \in Stores \ {s} PROVE StoreInv(t)'
    <2>1. lock = t => lock' = t
      BY <1>4, <1>5 DEF Freed
    <2>2. StoreInv(t)
      BY DEF IInv
    <2> QED BY <1>3, <1>4, <2>1, <2>2, Others
  <1> QED BY <1>3, <1>4, <1>6, <1>7 DEF IInv

-----------------------------------------------------------------------------
\* Sent to another position, the caller keeps everything but its retry.
LEMMA ToFacts ==
    ASSUME IInv, NEW s \in Stores, NEW pc \in Pcs
    PROVE  /\ To(s, pc) \in StRec /\ To(s, pc).pc = pc /\ To(s, pc).retry = "first"
           /\ To(s, pc).held = st[s].held /\ To(s, pc).applied = st[s].applied
           /\ To(s, pc).file = st[s].file /\ To(s, pc).unit = st[s].unit
  <1>1. st[s] \in StRec
    BY Updates
  <1> QED BY <1>1 DEF To, StRec

\* The positions a statement runs from and goes to.
LEMMA Positions ==
    {"lock", "create", "read", "script", "row", "unlock", "cleanup_unlock", "create_commit",
     "file_commit", "unlock_commit", "cleanup_commit", "change", "audit", "unit_commit",
     "probe", "idle"} \subseteq Pcs
  BY DEF Pcs, Statements, Writes, Commits, Migrating

\* A statement that runs keeps the invariant when it keeps s's own.
LEMMA RunKept ==
    ASSUME IInv, NEW s \in Stores, NEW pc, NEW pieces, NEW next, RunTo(s, pc, pieces, next),
           lock' \in {lock, Freed(s)} \/ (lock = NoOne /\ lock' = s), StoreInv(s)'
    PROVE  IInv'
  BY Kept DEF RunTo

\* What holds of a caller in the middle of a run of migrations.
LEMMA Holding ==
    ASSUME IInv, NEW s \in Stores, st[s].pc \in Migrating, conn[s].up
    PROVE  /\ st[s].held /\ st[s].retry = "first" /\ lock = s
           /\ st[s].pc \in {"script", "row", "file_commit"} => st[s].applied = Recorded
  BY DEF IInv, StoreInv, MigrationHeld, MigrationLocked, PlanCurrent

\* A run of migrations that goes on keeps what it holds.
LEMMA GoesOn ==
    ASSUME NEW s \in Stores, conn'[s].up, conn'[s].tx = Sent(s)', st'[s].pc \in Migrating,
           st'[s].held, st'[s].retry = "first", lock' = s,
           st'[s].pc \in {"row", "file_commit"} => st'[s].file \in Files \ st'[s].applied,
           st'[s].pc \in {"script", "row", "file_commit"} => st'[s].applied = Recorded'
    PROVE  StoreInv(s)'
  BY DEF StoreInv, OpenIsSent, UnitMarked, MigrationHeld, MigrationLocked, UnitKnown,
         FileKnown, PlanCurrent, Migrating

\* The steps of run_migrations.
LEMMA MigrationSteps ==
    ASSUME IInv, NEW s \in Stores,
           Lock(s) \/ CreateLedger(s) \/ ReadApplied(s) \/ RunScript(s) \/ InsertRow(s) \/ Unlock(s)
    PROVE  IInv'
  <1>1. TypeOK /\ StoreInv(s) /\ st[s] \in StRec
    BY Updates
  <1>2. {} \in SUBSET Pieces
    OBVIOUS
  <1>3. CASE Lock(s)
    <2> DEFINE next == [To(s, "create") EXCEPT !.held = TRUE]
    <2>1. next \in StRec /\ next.pc = "create" /\ next.held /\ next.retry = "first"
      <3>1. \A r \in StRec : LET n == [r EXCEPT !.held = TRUE]
                             IN  n \in StRec /\ n.pc = r.pc /\ n.held /\ n.retry = r.retry
        BY DEF StRec
      <3> QED BY <3>1, ToFacts, Positions
    <2>2. Runs(s, "lock", {}, next) /\ lock = NoOne /\ lock' = s
      BY <1>3 DEF Lock
    <2> HIDE DEF next
    <2>3. RunTo(s, "lock", {}, next)
      BY <1>1, <1>2, <2>1, <2>2, RunsFacts, Positions
    <2>4. conn[s].tx = {}
      BY <1>1, <2>3, NothingOpen DEF RunTo
    <2>5. /\ conn'[s].up /\ conn'[s].tx = {} /\ st'[s].pc = "create" /\ st'[s].held
          /\ st'[s].retry = "first"
      BY <2>1, <2>3, <2>4 DEF RunTo
    <2>6. StoreInv(s)'
      BY <2>2, <2>5, GoesOn DEF Sent, Migrating
    <2> QED BY <2>2, <2>3, <2>6, RunKept
  <1>4. CASE CreateLedger(s)
    <2> DEFINE next == To(s, "create_commit")
    <2>1. /\ next \in StRec /\ next.pc = "create_commit" /\ next.retry = "first"
          /\ next.held = st[s].held
      BY ToFacts, Positions
    <2>2. Runs(s, "create", {}, next) /\ lock' = lock
      BY <1>4 DEF CreateLedger
    <2> HIDE DEF next
    <2>3. RunTo(s, "create", {}, next)
      BY <1>1, <1>2, <2>1, <2>2, RunsFacts, Positions
    <2>4. conn[s].tx = {} /\ st[s].held /\ lock = s
      BY <1>1, <2>3, NothingOpen, Holding DEF RunTo, Migrating
    <2>5. /\ conn'[s].up /\ conn'[s].tx = {} /\ st'[s].pc = "create_commit" /\ st'[s].held
          /\ st'[s].retry = "first"
      BY <2>1, <2>3, <2>4 DEF RunTo
    <2>6. StoreInv(s)'
      BY <2>2, <2>4, <2>5, GoesOn DEF Sent, Migrating
    <2> QED BY <2>2, <2>3, <2>6, RunKept
  <1>5. CASE ReadApplied(s)
    <2> DEFINE pc == IF Recorded = Files THEN "unlock" ELSE "script"
               next == [To(s, pc) EXCEPT !.applied = Recorded]
    <2>1. pc \in Pcs /\ pc \in {"unlock", "script"}
      BY Positions
    <2>2. Runs(s, "read", {}, next) /\ lock' = lock
      BY <1>5 DEF ReadApplied
    <2> HIDE DEF pc
    <2>3. Recorded \in SUBSET Files
      BY DEF Recorded
    <2>4. /\ next \in StRec /\ next.pc \in {"unlock", "script"} /\ next.retry = "first"
          /\ next.held = st[s].held /\ next.applied = Recorded
      <3> HIDE DEF Recorded
      <3>1. \A r \in StRec : LET n == [r EXCEPT !.applied = Recorded]
                             IN  /\ n \in StRec /\ n.pc = r.pc /\ n.retry = r.retry
                                 /\ n.held = r.held /\ n.applied = Recorded
        BY <2>3 DEF StRec
      <3> QED BY <2>1, <3>1, ToFacts
    <2> HIDE DEF next
    <2>5. RunTo(s, "read", {}, next)
      BY <1>1, <1>2, <2>4, <2>2, RunsFacts, Positions
    <2>6. conn[s].tx = {} /\ st[s].held /\ lock = s
      BY <1>1, <2>5, NothingOpen, Holding DEF RunTo, Migrating
    <2>7. /\ conn'[s].up /\ conn'[s].tx = {} /\ st'[s].pc \in {"unlock", "script"} /\ st'[s].held
          /\ st'[s].retry = "first" /\ st'[s].applied = Recorded'
      BY <2>4, <2>5, <2>6 DEF RunTo
    <2>8. StoreInv(s)'
      <3>1. CASE st'[s].pc = "unlock"
        BY <2>7, <3>1, Quiet DEF Migrating
      <3>2. CASE st'[s].pc = "script"
        BY <2>2, <2>6, <2>7, <3>2, GoesOn DEF Sent, Migrating
      <3> QED BY <2>7, <3>1, <3>2
    <2> QED BY <2>2, <2>5, <2>8, RunKept
  <1>6. CASE RunScript(s)
    <2>1. PICK f \in Files \ st[s].applied :
            /\ Runs(s, "script", {<<"script", f>>}, [To(s, "row") EXCEPT !.file = f])
            /\ lock' = lock
      BY <1>6 DEF RunScript
    <2> DEFINE next == [To(s, "row") EXCEPT !.file = f]
               pieces == {<<"script", f>>}
    <2>2. f \in 0 .. NFiles
      BY StoreAssumption DEF Files
    <2>3. /\ next \in StRec /\ next.pc = "row" /\ next.retry = "first" /\ next.file = f
          /\ next.held = st[s].held /\ next.applied = st[s].applied
      <3>1. \A r \in StRec : LET n == [r EXCEPT !.file = f]
                             IN  /\ n \in StRec /\ n.pc = r.pc /\ n.retry = r.retry
                                 /\ n.held = r.held /\ n.applied = r.applied /\ n.file = f
        BY <2>2 DEF StRec
      <3> QED BY <3>1, ToFacts, Positions
    <2>4. Runs(s, "script", pieces, next) /\ pieces \in SUBSET Pieces
      BY <2>1 DEF Pieces
    <2> HIDE DEF next
    <2>5. RunTo(s, "script", pieces, next)
      <3> HIDE DEF pieces
      <3> QED BY <1>1, <2>3, <2>4, RunsFacts, Positions
    <2>6. conn[s].tx = {} /\ st[s].held /\ lock = s /\ st[s].applied = Recorded
      BY <1>1, <2>5, NothingOpen, Holding DEF RunTo, Migrating
    <2>7. /\ conn'[s].up /\ conn'[s].tx = pieces /\ st'[s].pc = "row" /\ st'[s].held
          /\ st'[s].retry = "first" /\ st'[s].applied = Recorded' /\ st'[s].file = f
      BY <2>3, <2>5, <2>6 DEF RunTo
    <2>8. f \in Files \ st'[s].applied
      BY <2>1, <2>3, <2>5 DEF RunTo
    <2>9. Sent(s)' = pieces
      BY <2>7 DEF Sent
    <2>10. StoreInv(s)'
      BY <2>1, <2>6, <2>7, <2>8, <2>9, GoesOn DEF Migrating
    <2> QED BY <2>1, <2>5, <2>10, RunKept
  <1>7. CASE InsertRow(s)
    <2> DEFINE next == To(s, "file_commit")
               pieces == {<<"row", st[s].file>>}
    <2>1. /\ next \in StRec /\ next.pc = "file_commit" /\ next.retry = "first"
          /\ next.held = st[s].held /\ next.applied = st[s].applied /\ next.file = st[s].file
      BY ToFacts, Positions
    <2>2. Runs(s, "row", pieces, next) /\ lock' = lock /\ st[s].pc = "row" /\ conn[s].up
      BY <1>7 DEF InsertRow, Runs
    <2>3. st[s].held /\ lock = s /\ st[s].applied = Recorded
      BY <2>2, Holding DEF Migrating
    <2>4. st[s].file \in Files \ st[s].applied /\ conn[s].tx = {<<"script", st[s].file>>}
      BY <1>1, <2>2 DEF StoreInv, OpenIsSent, Sent, FileKnown
    <2>5. pieces \in SUBSET Pieces
      BY <2>4 DEF Pieces
    <2> HIDE DEF next
    <2>6. RunTo(s, "row", pieces, next)
      <3> HIDE DEF pieces
      <3> QED BY <1>1, <2>1, <2>2, <2>5, RunsFacts, Positions
    <2>7. /\ conn'[s].up /\ conn'[s].tx = conn[s].tx \cup pieces /\ st'[s].pc = "file_commit"
          /\ st'[s].held /\ st'[s].retry = "first" /\ st'[s].applied = Recorded'
          /\ st'[s].file = st[s].file /\ st'[s].applied = st[s].applied
      <3> HIDE DEF pieces
      <3> QED BY <2>1, <2>3, <2>6 DEF RunTo
    <2>8. conn'[s].tx = Sent(s)'
      BY <2>4, <2>7 DEF Sent
    <2>9. StoreInv(s)'
      BY <2>2, <2>3, <2>4, <2>7, <2>8, GoesOn DEF Migrating
    <2> QED BY <2>2, <2>6, <2>9, RunKept
  <1>8. CASE Unlock(s)
    <2>1. PICK pc \in {"unlock", "cleanup_unlock"}, to \in {"unlock_commit", "cleanup_commit"} :
            Runs(s, pc, {}, To(s, to))
      BY <1>8 DEF Unlock
    <2>2. To(s, to) \in StRec /\ To(s, to).pc = to /\ pc \in Pcs
      BY ToFacts, Positions
    <2>3. RunTo(s, pc, {}, To(s, to))
      BY <1>1, <1>2, <2>1, <2>2, RunsFacts
    <2>4. conn[s].tx = {}
      BY <1>1, <2>3, NothingOpen DEF RunTo
    <2>5. conn'[s].tx = {} /\ st'[s].pc = to
      BY <2>2, <2>3, <2>4 DEF RunTo
    <2>6. StoreInv(s)'
      BY <2>5, Quiet DEF Migrating
    <2>7. lock' = Freed(s)
      BY <1>8 DEF Unlock
    <2> QED BY <2>3, <2>6, <2>7, RunKept
  <1> QED BY <1>3, <1>4, <1>5, <1>6, <1>7, <1>8

\* A unit of work that goes on keeps what it has marked.
LEMMA UnitGoesOn ==
    ASSUME NEW s \in Stores, conn'[s].up, conn'[s].tx = Sent(s)',
           st'[s].pc \in {"audit", "unit_commit"},
           st'[s].mid, st'[s].retry = "first", st'[s].unit \in Units
    PROVE  StoreInv(s)'
  BY DEF StoreInv, OpenIsSent, UnitMarked, MigrationHeld, MigrationLocked, UnitKnown,
         FileKnown, PlanCurrent, Migrating

\* The steps of a unit of work and of a read.
LEMMA CallerSteps ==
    ASSUME IInv, NEW s \in Stores,
           BeginUnit(s) \/ Change(s) \/ Audit(s) \/ BeginRead(s) \/ Probe(s)
    PROVE  IInv'
  <1>1. TypeOK /\ StoreInv(s) /\ st[s] \in StRec
    BY Updates
  <1>2. {} \in SUBSET Pieces
    OBVIOUS
  <1>3. CASE BeginUnit(s)
    <2> DEFINE r == [st[s] EXCEPT !.pc = "change", !.unit = bounds.units + 1]
    <2>1. bounds \in BoundsRec
      BY Updates
    <2>2. bounds.units + 1 \in 0 .. NUnits /\ bounds.units + 1 \in Units
      BY <1>3, <2>1, StoreAssumption DEF BeginUnit, BoundsRec, Units
    <2>3. bounds' \in BoundsRec
      BY <1>3, <2>1, <2>2 DEF BeginUnit, BoundsRec
    <2>4. r \in StRec /\ r.pc = "change" /\ r.unit \in Units
      <3>1. \A u \in 0 .. NUnits : LET q == [st[s] EXCEPT !.pc = "change", !.unit = u]
                                   IN  q \in StRec /\ q.pc = "change" /\ q.unit = u
        BY <1>1, Positions DEF StRec
      <3> QED BY <2>2, <3>1
    <2>5. /\ st' = [st EXCEPT ![s].pc = "change", ![s].unit = bounds.units + 1]
          /\ st[s].pc = "idle" /\ db' = db /\ lock' = lock /\ conn' = conn
      BY <1>3 DEF BeginUnit
    <2>6. st' = [st EXCEPT ![s] = r]
      BY <2>5
    <2> HIDE DEF r
    <2>7. /\ st' \in [Stores -> StRec] /\ st'[s] = r
          /\ \A t \in Stores \ {s} : st'[t] = st[t]
      BY <2>4, <2>6, Updates
    <2>8. conn'[s].tx = {}
      BY <1>1, <2>5, NothingOpen
    <2>9. StoreInv(s)'
      BY <2>4, <2>7, <2>8, Quiet DEF Migrating
    <2> QED BY <2>3, <2>5, <2>7, <2>9, Kept, Updates
  <1>4. CASE Change(s)
    <2> DEFINE next == To(s, "audit")
               pieces == {<<"change", st[s].unit>>}
    <2>1. next \in StRec /\ next.pc = "audit" /\ next.retry = "first" /\ next.unit = st[s].unit
      BY ToFacts, Positions
    <2>2. Runs(s, "change", pieces, next) /\ lock' = lock /\ st[s].pc = "change"
      BY <1>4 DEF Change, Runs
    <2>3. st[s].unit \in Units /\ conn[s].tx = {}
      BY <1>1, <2>2, NothingOpen DEF StoreInv, UnitKnown
    <2>4. pieces \in SUBSET Pieces
      BY <2>3 DEF Pieces
    <2> HIDE DEF next
    <2>5. RunTo(s, "change", pieces, next)
      <3> HIDE DEF pieces
      <3> QED BY <1>1, <2>1, <2>2, <2>4, RunsFacts, Positions
    <2>6. /\ conn'[s].up /\ conn'[s].tx = pieces /\ st'[s].pc = "audit" /\ st'[s].mid
          /\ st'[s].retry = "first" /\ st'[s].unit = st[s].unit
      <3> HIDE DEF pieces
      <3> QED BY <2>1, <2>3, <2>5 DEF RunTo, Writes
    <2>7. conn'[s].tx = Sent(s)'
      BY <2>6 DEF Sent
    <2>8. StoreInv(s)'
      BY <2>3, <2>6, <2>7, UnitGoesOn
    <2> QED BY <2>2, <2>5, <2>8, RunKept
  <1>5. CASE Audit(s)
    <2> DEFINE next == To(s, "unit_commit")
               pieces == {<<"audit", st[s].unit>>}
    <2>1. /\ next \in StRec /\ next.pc = "unit_commit" /\ next.retry = "first"
          /\ next.unit = st[s].unit
      BY ToFacts, Positions
    <2>2. Runs(s, "audit", pieces, next) /\ lock' = lock /\ st[s].pc = "audit" /\ conn[s].up
      BY <1>5 DEF Audit, Runs
    <2>3. st[s].unit \in Units /\ conn[s].tx = {<<"change", st[s].unit>>}
      BY <1>1, <2>2 DEF StoreInv, UnitKnown, OpenIsSent, Sent
    <2>4. pieces \in SUBSET Pieces
      BY <2>3 DEF Pieces
    <2> HIDE DEF next
    <2>5. RunTo(s, "audit", pieces, next)
      <3> HIDE DEF pieces
      <3> QED BY <1>1, <2>1, <2>2, <2>4, RunsFacts, Positions
    <2>6. /\ conn'[s].up /\ conn'[s].tx = conn[s].tx \cup pieces /\ st'[s].pc = "unit_commit"
          /\ st'[s].mid /\ st'[s].retry = "first" /\ st'[s].unit = st[s].unit
      <3> HIDE DEF pieces
      <3> QED BY <2>1, <2>5 DEF RunTo, Writes
    <2>7. conn'[s].tx = Sent(s)'
      BY <2>3, <2>6 DEF Sent
    <2>8. StoreInv(s)'
      BY <2>3, <2>6, <2>7, UnitGoesOn
    <2> QED BY <2>2, <2>5, <2>8, RunKept
  <1>6. CASE BeginRead(s)
    <2> DEFINE r == [st[s] EXCEPT !.pc = "probe"]
    <2>1. r \in StRec /\ r.pc = "probe"
      BY <1>1, Positions DEF StRec
    <2>2. /\ st' = [st EXCEPT ![s] = r] /\ st[s].pc = "idle"
          /\ db' = db /\ lock' = lock /\ conn' = conn /\ bounds' = bounds
      BY <1>6 DEF BeginRead
    <2> HIDE DEF r
    <2>3. /\ st' \in [Stores -> StRec] /\ st'[s] = r
          /\ \A t \in Stores \ {s} : st'[t] = st[t]
      BY <2>1, <2>2, Updates
    <2>4. conn'[s].tx = {}
      BY <1>1, <2>2, NothingOpen
    <2>5. StoreInv(s)'
      BY <2>1, <2>3, <2>4, Quiet DEF Migrating
    <2> QED BY <2>2, <2>3, <2>5, Kept, Updates
  <1>7. CASE Probe(s)
    <2> DEFINE next == To(s, "idle")
    <2>1. next \in StRec /\ next.pc = "idle"
      BY ToFacts, Positions
    <2>2. Runs(s, "probe", {}, next) /\ lock' = lock
      BY <1>7 DEF Probe
    <2> HIDE DEF next
    <2>3. RunTo(s, "probe", {}, next)
      BY <1>1, <1>2, <2>1, <2>2, RunsFacts, Positions
    <2>4. conn[s].tx = {}
      BY <1>1, <2>3, NothingOpen DEF RunTo
    <2>5. conn'[s].tx = {} /\ st'[s].pc = "idle"
      BY <2>1, <2>3, <2>4 DEF RunTo
    <2>6. StoreInv(s)'
      BY <2>5, Quiet DEF Migrating
    <2> QED BY <2>2, <2>3, <2>6, RunKept
  <1> QED BY <1>3, <1>4, <1>5, <1>6, <1>7

-----------------------------------------------------------------------------
\* Every step keeps the invariant.
LEMMA NextInv == IInv /\ [Next]_vars => IInv'
  <1> SUFFICES ASSUME IInv, [Next]_vars PROVE IInv'
    OBVIOUS
  <1>1. CASE Next
    BY <1>1, ServerSteps, FailureSteps, CommitSteps, MigrationSteps, CallerSteps DEF Next, Step
  <1>2. CASE UNCHANGED vars
    BY <1>2 DEF vars, IInv, TypeOK, UnitIsWhole, AppliedMeansRun, StoreInv, OpenIsSent, Sent,
                UnitMarked, MigrationHeld, MigrationLocked, UnitKnown, FileKnown, PlanCurrent,
                Recorded
  <1> QED BY <1>1, <1>2

\* The invariant says what the runs check.
LEMMA InvImplies == IInv => PlanIsCurrent /\ UncommittedIsGuarded
  <1> SUFFICES ASSUME IInv PROVE PlanIsCurrent /\ UncommittedIsGuarded
    OBVIOUS
  <1>1. PlanIsCurrent
    BY DEF IInv, StoreInv, PlanCurrent, PlanIsCurrent
  <1>2. ASSUME NEW s \in Stores, conn[s].tx # {} PROVE ~MayReconnect(s)
    <2>1. StoreInv(s)
      BY DEF IInv
    <2>2. st[s].pc \in {"audit", "unit_commit", "row", "file_commit"}
      BY <1>2, <2>1, NothingOpen
    <2>3. st[s].mid \/ st[s].held
      BY <2>1, <2>2 DEF StoreInv, UnitMarked, MigrationHeld, Migrating
    <2> QED BY <2>3 DEF MayReconnect
  <1> QED BY <1>1, <1>2 DEF UncommittedIsGuarded

-----------------------------------------------------------------------------
\* The inductive invariant holds of every behaviour (store.Store).
THEOREM Invariance == Spec => []IInv
  BY InitInv, NextInv, PTL DEF Spec

\* Every variable keeps its type.
THEOREM TypeCorrect == Spec => []TypeOK
  <1>1. IInv => TypeOK
    BY DEF IInv
  <1> QED BY <1>1, Invariance, PTL

\* However often the connection is lost and reopened under it, a unit of work
\* lands whole or not at all (Store.execute, _reconnected, commit).
THEOREM UnitsLandWhole == Spec => []UnitIsWhole
  <1>1. IInv => UnitIsWhole
    BY DEF IInv
  <1> QED BY <1>1, Invariance, PTL

\* Whoever boots together, a migration is run exactly as often as it is
\* recorded, and at most once (run_migrations).
THEOREM MigrationsRunOnce == Spec => []AppliedMeansRun
  <1>1. IInv => AppliedMeansRun
    BY DEF IInv
  <1> QED BY <1>1, Invariance, PTL

\* What a run of migrations acts on is what the table says, for as long as its
\* connection lives (the advisory lock).
THEOREM PlanStaysCurrent == Spec => []PlanIsCurrent
  BY InvImplies, Invariance, PTL

\* A connection with something uncommitted is never replaced by a new one
\* (_mid_transaction, _session_state_held).
THEOREM OpenWorkIsGuarded == Spec => []UncommittedIsGuarded
  BY InvImplies, Invariance, PTL
=============================================================================
