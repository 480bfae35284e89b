-------------------------- MODULE ModelServingProofs --------------------------
(***************************************************************************)
(* What a reply, a cached model and a vetted statement may be older or     *)
(* newer than, for any number of trees, of deploys and of calls.           *)
(*                                                                         *)
(* The argument is one order, kept by the writers and respected by the     *)
(* readers: version <= examples <= model <= newest tree authored, each of  *)
(* them only growing.  Whatever a call holds lies between the version it   *)
(* read first and the model row of now; when the rows agree, the two ends  *)
(* meet.  It needs deploys that come one at a time and in the order their  *)
(* trees were authored, which InOrder says: with two of them interleaved,  *)
(* or an older tree deployed over a newer one, the order is lost.          *)
(***************************************************************************)
EXTENDS ModelServing, ServedModel, SchemaReply, FiniteSetTheorems, WellFoundedInduction, TLAPS

InOrder == ~Rollback /\ \A d, e \in Deployers : d = e

\* The writers, in their order.
RowsOrdered ==
    /\ rows.version <= rows.examples
    /\ rows.examples <= rows.model
    /\ rows.model <= deploys.newest
WritersInOrder ==
    \A d \in Deployers :
        /\ dep[d].pc # "idle" => dep[d].tree = deploys.newest /\ dep[d].tree \in Trees
        /\ dep[d].pc \in {"write_examples", "write_memory", "write_model_version"} =>
              rows.model = deploys.newest
        /\ dep[d].pc \in {"write_memory", "write_model_version"} =>
              rows.examples = deploys.newest

\* What a call or the cache holds: nothing, or trees no older than the version
\* it is held under and no newer than the model row.
Between(v, t) == v <= t /\ t <= rows.model
Held(v, m) == m = NoModel \/ (Between(v, m.head) /\ Between(v, m.body))
CacheHeld == \A v \in Trees : Held(v, cache[v])
CallHeld(r) ==
    /\ req[r].ver <= rows.version
    /\ Held(req[r].ver, req[r].guard)
    /\ Held(req[r].ver, req[r].got)
    /\ req[r].pc \in {"guard_body", "load_body"} => Between(req[r].ver, req[r].head)
    /\ req[r].pc \in {"engine", "execute"} \/ req[r].ran =>
          req[r].guard.head >= req[r].ver /\ req[r].guard.body >= req[r].ver

\* The inductive invariant.
IInv == TypeOK /\ RowsOrdered /\ WritersInOrder /\ CacheHeld /\ \A r \in Requests : CallHeld(r)

-----------------------------------------------------------------------------
\* The types of TypeOK, named.
RowRec == [model : Rows, examples : Rows, memory : Rows, version : Rows]
Writing == {"idle", "write_datasource", "write_examples", "write_memory", "write_model_version"}
DepRec == [pc : Writing, tree : Rows]
Positions == {"idle", "lookup", "select", "guard_head", "guard_body", "engine", "execute",
              "describe", "load_head", "load_body", "done"}
ReqRec == [pc : Positions, kind : Kinds, ver : Rows, head : Rows, guard : Models, ran : BOOLEAN,
           got : Models]

LEMMA Typed ==
    TypeOK <=> /\ inProcess \in BOOLEAN /\ rows \in RowRec /\ dep \in [Deployers -> DepRec]
               /\ deploys \in [started : 0 .. MaxDeploys, newest : Rows]
               /\ cache \in [Trees -> Models] /\ lock \in Requests \cup {NoOne}
               /\ req \in [Requests -> ReqRec]
  BY DEF TypeOK, RowRec, DepRec, Writing, ReqRec, Positions

LEMMA Numbers == /\ None = 0 /\ None \in Rows /\ Trees \subseteq Rows /\ Rows \subseteq Nat
                 /\ None \notin Trees /\ NoModel \in Models
                 /\ \A t \in Rows : Whole(t) \in Models
                 /\ \A t, u \in Rows : [head |-> t, body |-> u] \in Models
                 /\ \A m \in Models : m.head \in Rows /\ m.body \in Rows
  BY ServingAssumption DEF None, Rows, Trees, NoModel, Models, Whole

\* The invariant holds of an empty store.
LEMMA InitInv == Init => IInv
  <1> SUFFICES ASSUME Init PROVE IInv
    OBVIOUS
  <1>1. Idle \in ReqRec /\ Idle.pc = "idle" /\ Idle.ver = 0 /\ Idle.guard = NoModel
        /\ Idle.got = NoModel /\ Idle.ran = FALSE
    BY Numbers DEF Idle, ReqRec, Positions, Kinds
  <1>2. TypeOK
    BY <1>1, Numbers, ServingAssumption, Typed DEF Init, RowRec, DepRec, Writing
  <1>3. RowsOrdered /\ WritersInOrder
    BY Numbers DEF Init, RowsOrdered, WritersInOrder
  <1>4. CacheHeld
    BY DEF Init, CacheHeld, Held
  <1>5. \A r \in Requests : CallHeld(r)
    BY <1>1, Numbers DEF Init, CallHeld, Held
  <1> QED BY <1>2, <1>3, <1>4, <1>5 DEF IInv

-----------------------------------------------------------------------------
(* The writers.                                                            *)

\* Rows that only grow keep what the calls and the cache hold.
LEMMA HeldKept ==
    ASSUME IInv, UNCHANGED <<cache, req>>, rows' \in RowRec,
           rows.model <= rows'.model, rows.version <= rows'.version
    PROVE  CacheHeld' /\ \A r \in Requests : CallHeld(r)'
  <1>1. /\ rows \in RowRec /\ cache \in [Trees -> Models] /\ req \in [Requests -> ReqRec]
        /\ CacheHeld /\ \A r \in Requests : CallHeld(r)
    BY Typed DEF IInv
  <1>2. /\ rows.model \in Nat /\ rows'.model \in Nat /\ rows.version \in Nat /\ rows'.version \in Nat
    BY <1>1, Numbers DEF RowRec
  <1>3. \A v, t \in Rows : Between(v, t) => Between(v, t)'
    BY <1>2, Numbers DEF Between
  <1>4. \A v \in Rows, m \in Models : Held(v, m) => Held(v, m)'
    BY <1>3, Numbers DEF Held
  <1>5. CacheHeld'
    BY <1>1, <1>4, Numbers DEF CacheHeld
  <1>6. ASSUME NEW r \in Requests PROVE CallHeld(r)'
    <2>1. req[r].ver \in Rows /\ req[r].head \in Rows /\ req[r].guard \in Models /\ req[r].got \in Models
      BY <1>1 DEF ReqRec
    <2>2. req[r].ver <= rows'.version
      <3>1. req[r].ver \in Nat /\ req[r].ver <= rows.version
        BY <1>1, <2>1, Numbers DEF CallHeld
      <3> QED BY <1>2, <3>1
    <2> QED BY <1>1, <1>3, <1>4, <2>1, <2>2 DEF CallHeld
  <1> QED BY <1>5, <1>6

LEMMA DeploySteps == ASSUME InOrder, IInv, NEW d \in Deployers, Deploy(d) PROVE IInv'
  <1>1. /\ TypeOK /\ rows \in RowRec /\ dep \in [Deployers -> DepRec] /\ dep[d] \in DepRec
        /\ deploys \in [started : 0 .. MaxDeploys, newest : Rows] /\ deploys.newest \in Nat
        /\ rows.model \in Nat /\ rows.examples \in Nat /\ rows.version \in Nat
    BY Typed, Numbers DEF IInv, RowRec
  <1>2. /\ RowsOrdered
        /\ dep[d].pc # "idle" => dep[d].tree = deploys.newest /\ dep[d].tree \in Trees
        /\ dep[d].pc \in {"write_examples", "write_memory", "write_model_version"} =>
              rows.model = deploys.newest
        /\ dep[d].pc \in {"write_memory", "write_model_version"} =>
              rows.examples = deploys.newest
    BY DEF IInv, WritersInOrder
  <1>3. \A e \in Deployers : e = d
    BY DEF InOrder
  <1>4. CASE ReadTree(d)
    <2>1. PICK t \in Trees :
            /\ t >= deploys.newest
            /\ dep' = [dep EXCEPT ![d] = [pc |-> "write_datasource", tree |-> t]]
            /\ deploys' = [started |-> deploys.started + 1,
                           newest |-> IF t > deploys.newest THEN t ELSE deploys.newest]
      BY <1>4 DEF ReadTree, InOrder
    <2>2. UNCHANGED <<inProcess, rows, cache, lock, req>> /\ deploys.started < MaxDeploys
      BY <1>4 DEF ReadTree
    <2>3. t \in Rows /\ t \in Nat /\ deploys'.newest = t
      BY <1>1, <2>1, Numbers
    <2>4. deploys' \in [started : 0 .. MaxDeploys, newest : Rows]
      BY <1>1, <2>1, <2>2, <2>3, ServingAssumption
    <2>5. dep' \in [Deployers -> DepRec] /\ dep'[d].pc = "write_datasource" /\ dep'[d].tree = t
      BY <1>1, <2>1, <2>3 DEF DepRec, Writing
    <2>6. TypeOK'
      BY <1>1, <2>2, <2>4, <2>5, Typed DEF TypeOK, DepRec, Writing
    <2>7. RowsOrdered'
      BY <1>1, <1>2, <2>1, <2>2, <2>3 DEF RowsOrdered
    <2>8. WritersInOrder'
      BY <1>3, <2>1, <2>3, <2>5 DEF WritersInOrder
    <2>9. CacheHeld' /\ \A r \in Requests : CallHeld(r)'
      BY <1>1, <2>2, HeldKept
    <2> QED BY <2>6, <2>7, <2>8, <2>9 DEF IInv
  <1>5. ASSUME NEW at \in Writing \ {"idle"}, NEW next \in Writing, NEW written \in RowRec,
               Commit(d, at, next, written),
               rows.model <= written.model, rows.version <= written.version,
               written.version <= written.examples, written.examples <= written.model,
               written.model <= deploys.newest,
               next \in {"write_examples", "write_memory", "write_model_version"} =>
                  written.model = deploys.newest,
               next \in {"write_memory", "write_model_version"} =>
                  written.examples = deploys.newest
        PROVE  IInv'
    <2>1. /\ UNCHANGED <<inProcess, deploys, cache, lock, req>> /\ rows' = written
          /\ dep[d].pc = at /\ dep' = [dep EXCEPT ![d].pc = next]
      BY <1>5 DEF Commit
    <2>2. dep' \in [Deployers -> DepRec] /\ dep'[d].pc = next /\ dep'[d].tree = dep[d].tree
      BY <1>1, <2>1 DEF DepRec
    <2>3. TypeOK'
      BY <1>1, <1>5, <2>1, <2>2 DEF TypeOK, RowRec, DepRec, Writing
    <2>4. RowsOrdered' /\ WritersInOrder'
      BY <1>2, <1>3, <1>5, <2>1, <2>2 DEF RowsOrdered, WritersInOrder
    <2>5. CacheHeld' /\ \A r \in Requests : CallHeld(r)'
      BY <1>5, <2>1, HeldKept
    <2> QED BY <2>3, <2>4, <2>5 DEF IInv
  <1>6. dep[d].tree \in Rows /\ dep[d].tree \in Nat
    BY <1>1, Numbers DEF DepRec
  <1>7. CASE WriteDatasource(d)
    <2> DEFINE written == [rows EXCEPT !.model = dep[d].tree]
    <2>1. /\ dep[d].pc = "write_datasource"
          /\ Commit(d, "write_datasource", "write_examples", written)
      BY <1>7 DEF WriteDatasource, Commit
    <2>2. /\ written \in RowRec /\ written.model = dep[d].tree
          /\ written.examples = rows.examples /\ written.version = rows.version
      BY <1>1, <1>6 DEF RowRec
    <2> HIDE DEF written
    <2> QED BY <1>1, <1>2, <1>5, <1>6, <2>1, <2>2 DEF RowsOrdered, Writing
  <1>8. CASE WriteExamples(d)
    <2> DEFINE written == [rows EXCEPT !.examples = dep[d].tree]
    <2>1. /\ dep[d].pc = "write_examples" /\ Commit(d, "write_examples", "write_memory", written)
      BY <1>8 DEF WriteExamples, Commit
    <2>2. /\ written \in RowRec /\ written.examples = dep[d].tree
          /\ written.model = rows.model /\ written.version = rows.version
      BY <1>1, <1>6 DEF RowRec
    <2> HIDE DEF written
    <2> QED BY <1>1, <1>2, <1>5, <1>6, <2>1, <2>2 DEF RowsOrdered, Writing
  <1>9. CASE WriteMemory(d)
    <2> DEFINE written == IF dep[d].tree \in WithDoc
                          THEN [rows EXCEPT !.memory = dep[d].tree] ELSE rows
    <2>1. /\ dep[d].pc = "write_memory" /\ Commit(d, "write_memory", "write_model_version", written)
      BY <1>9 DEF WriteMemory, Commit
    <2>2. /\ written \in RowRec /\ written.examples = rows.examples
          /\ written.model = rows.model /\ written.version = rows.version
      BY <1>1, <1>6 DEF RowRec
    <2> HIDE DEF written
    <2> QED BY <1>1, <1>2, <1>5, <1>6, <2>1, <2>2 DEF RowsOrdered, Writing
  <1>10. CASE WriteModelVersion(d)
    <2> DEFINE written == [rows EXCEPT !.version = dep[d].tree]
    <2>1. /\ dep[d].pc = "write_model_version"
          /\ Commit(d, "write_model_version", "idle", written)
      BY <1>10 DEF WriteModelVersion, Commit
    <2>2. /\ written \in RowRec /\ written.version = dep[d].tree
          /\ written.model = rows.model /\ written.examples = rows.examples
      BY <1>1, <1>6 DEF RowRec
    <2> HIDE DEF written
    <2> QED BY <1>1, <1>2, <1>5, <1>6, <2>1, <2>2 DEF RowsOrdered, Writing
  <1>11. CASE DeployDies(d)
    <2>1. Commit(d, dep[d].pc, "idle", rows) /\ dep[d].pc \in Writing \ {"idle"}
      BY <1>1, <1>11 DEF DeployDies, Commit, DepRec
    <2> QED BY <1>1, <1>2, <1>5, <2>1 DEF RowsOrdered, Writing
  <1> QED BY <1>4, <1>7, <1>8, <1>9, <1>10, <1>11 DEF Deploy

-----------------------------------------------------------------------------
(* The calls.                                                              *)

\* A step of one call keeps the invariant, so long as what it holds, and what it
\* leaves in the cache, lies where it should.
LEMMA CallMoves ==
    ASSUME IInv, NEW r \in Requests, UNCHANGED <<inProcess, rows, dep, deploys>>,
           NEW q \in ReqRec, req' = [req EXCEPT ![r] = q],
           cache' \in [Trees -> Models], lock' \in Requests \cup {NoOne},
           \A v \in Trees : Held(v, cache'[v]),
           q.ver <= rows.version, Held(q.ver, q.guard), Held(q.ver, q.got),
           q.pc \in {"guard_body", "load_body"} => Between(q.ver, q.head),
           q.pc \in {"engine", "execute"} \/ q.ran => q.guard.head >= q.ver /\ q.guard.body >= q.ver
    PROVE  IInv'
  <1>1. req \in [Requests -> ReqRec]
    BY Typed DEF IInv
  <1>2. req' \in [Requests -> ReqRec] /\ req'[r] = q /\ \A s \in Requests \ {r} : req'[s] = req[s]
    BY <1>1
  <1>3. TypeOK'
    BY <1>2 DEF IInv, TypeOK, ReqRec, Positions
  <1>4. RowsOrdered' /\ WritersInOrder'
    BY DEF IInv, RowsOrdered, WritersInOrder
  <1>5. CacheHeld'
    BY DEF CacheHeld, Held, Between
  <1>6. \A s \in Requests : CallHeld(s)'
    BY <1>2 DEF IInv, CallHeld, Held, Between
  <1> QED BY <1>3, <1>4, <1>5, <1>6 DEF IInv

\* What a call in flight and the rows it reads are known to be.
LEMMA Known ==
    ASSUME IInv, NEW r \in Requests
    PROVE  /\ req[r] \in ReqRec /\ req \in [Requests -> ReqRec] /\ rows \in RowRec
           /\ cache \in [Trees -> Models] /\ lock \in Requests \cup {NoOne}
           /\ \A v \in Trees : Held(v, cache[v])
           /\ CallHeld(r)
           /\ req[r].ver \in Rows /\ req[r].head \in Rows /\ req[r].ver \in Nat
           /\ rows.model \in Rows /\ rows.examples \in Rows /\ rows.version \in Rows
           /\ rows.model \in Nat /\ rows.examples \in Nat /\ rows.version \in Nat
           /\ rows.version <= rows.examples /\ rows.examples <= rows.model
  <1>1. /\ req \in [Requests -> ReqRec] /\ rows \in RowRec
        /\ cache \in [Trees -> Models] /\ lock \in Requests \cup {NoOne}
    BY Typed DEF IInv
  <1>2. req[r] \in ReqRec
    BY <1>1
  <1> QED BY <1>1, <1>2, Numbers DEF IInv, CacheHeld, RowsOrdered, ReqRec, RowRec

\* A call that only moves on keeps what it holds.
LEMMA Moves ==
    ASSUME IInv, NEW r \in Requests, NEW pc \in Positions,
           req' = [req EXCEPT ![r].pc = pc], UNCHANGED <<inProcess, rows, dep, deploys, cache>>,
           lock' \in Requests \cup {NoOne},
           pc \in {"guard_body", "load_body"} => FALSE,
           pc \in {"engine", "execute"} => req[r].pc \in {"engine", "execute"}
    PROVE  IInv'
  <1> DEFINE q == [req[r] EXCEPT !.pc = pc]
  <1>1. req[r] \in ReqRec
    BY Known
  <1>2. /\ q \in ReqRec /\ q.pc = pc /\ q.ver = req[r].ver /\ q.guard = req[r].guard
        /\ q.got = req[r].got /\ q.ran = req[r].ran
    BY <1>1 DEF ReqRec
  <1>3. req' = [req EXCEPT ![r] = q]
    OBVIOUS
  <1> HIDE DEF q
  <1> QED BY <1>2, <1>3, Known, CallMoves DEF CallHeld

LEMMA StartSteps ==
    ASSUME IInv, NEW r \in Requests, ReadVersion(r) \/ ReadVersionToExecute(r)
    PROVE  IInv'
  <1>1. Idle.guard = NoModel /\ Idle.got = NoModel /\ Idle.ran = FALSE /\ Idle \in ReqRec
    BY Numbers DEF Idle, ReqRec, Positions, Kinds
  <1>2. ASSUME NEW kind \in Kinds, NEW pc \in {"lookup", "select", "guard_head", "done"},
               req' = [req EXCEPT ![r] = [Idle EXCEPT !.kind = kind, !.pc = pc, !.ver = rows.version]],
               UNCHANGED <<inProcess, rows, dep, deploys, cache, lock>>
        PROVE  IInv'
    <2> DEFINE q == [Idle EXCEPT !.kind = kind, !.pc = pc, !.ver = rows.version]
    <2>1. /\ q \in ReqRec /\ q.pc = pc /\ q.ver = rows.version /\ q.guard = NoModel
          /\ q.got = NoModel /\ q.ran = FALSE
      BY <1>1, Known DEF ReqRec, Positions
    <2>2. req' = [req EXCEPT ![r] = q]
      BY <1>2
    <2> HIDE DEF q
    <2>3. rows.version <= rows.version
      BY Known
    <2> QED BY <1>2, <2>1, <2>2, <2>3, Known, CallMoves DEF Held
  <1>3. CASE ReadVersion(r)
    BY <1>2, <1>3 DEF ReadVersion, Kinds
  <1>4. CASE ReadVersionToExecute(r)
    <2>1. PICK pc \in {"guard_head", "done"} :
            req' = [req EXCEPT ![r] = [Idle EXCEPT !.kind = "execute", !.ver = rows.version, !.pc = pc]]
      BY <1>4 DEF ReadVersionToExecute
    <2>2. [Idle EXCEPT !.kind = "execute", !.ver = rows.version, !.pc = pc]
          = [Idle EXCEPT !.kind = "execute", !.pc = pc, !.ver = rows.version]
      BY <1>1 DEF ReqRec
    <2> QED BY <1>2, <1>4, <2>1, <2>2 DEF ReadVersionToExecute, Kinds
  <1> QED BY <1>3, <1>4

\* What a load or a vetting reads in two parts lies between the version of the
\* call and the model row of now.
LEMMA Read ==
    ASSUME IInv, NEW r \in Requests, req[r].pc \in {"guard_body", "load_body"}
    PROVE  LET m == [head |-> req[r].head, body |-> rows.model]
           IN  /\ m \in Models /\ Held(req[r].ver, m)
               /\ m.head >= req[r].ver /\ m.body >= req[r].ver
  <1>1. /\ Between(req[r].ver, req[r].head) /\ req[r].ver <= rows.version
        /\ rows.version <= rows.model
    BY Known DEF CallHeld
  <1>2. /\ req[r].ver \in Nat /\ rows.version \in Nat /\ rows.model \in Nat
        /\ req[r].head \in Rows /\ rows.model \in Rows
    BY Known
  <1>3. req[r].ver <= rows.model
    BY <1>1, <1>2
  <1>4. req[r].head \in Nat
    BY <1>2, Numbers
  <1> QED BY <1>1, <1>2, <1>3, <1>4, Numbers DEF Held, Between

LEMMA VetSteps ==
    ASSUME IInv, NEW r \in Requests,
           GuardHead(r) \/ GuardBody(r) \/ EngineMatches(r) \/ Execute(r)
    PROVE  IInv'
  <1>1. req[r] \in ReqRec
    BY Known
  <1>2. CASE GuardHead(r)
    <2>1. PICK pc \in {"describe", "guard_body"} :
            req' = [req EXCEPT ![r].head = rows.model, ![r].pc = pc]
      BY <1>2 DEF GuardHead
    <2>2. UNCHANGED <<inProcess, rows, dep, deploys, cache, lock>>
      BY <1>2 DEF GuardHead
    <2> DEFINE q == [req[r] EXCEPT !.head = rows.model, !.pc = pc]
    <2>3. rows.model \in Rows
      BY Known
    <2>4. /\ q \in ReqRec /\ q.pc = pc /\ q.ver = req[r].ver /\ q.guard = req[r].guard
          /\ q.got = req[r].got /\ q.ran = req[r].ran /\ q.head = rows.model
      BY <1>1, <2>3 DEF ReqRec, Positions
    <2>5. req' = [req EXCEPT ![r] = q]
      BY <2>1
    <2> HIDE DEF q
    <2>6. Between(req[r].ver, rows.model)
      <3>1. req[r].ver <= rows.version /\ rows.version <= rows.model
        BY Known DEF CallHeld
      <3>2. req[r].ver \in Nat /\ rows.version \in Nat /\ rows.model \in Nat
        BY Known
      <3> QED BY <3>1, <3>2 DEF Between
    <2> QED BY <2>2, <2>4, <2>5, <2>6, Known, CallMoves DEF CallHeld
  <1>3. CASE GuardBody(r)
    <2> DEFINE m == [head |-> req[r].head, body |-> rows.model]
    <2>1. PICK next \in {"engine", "describe"} : req' = [req EXCEPT ![r].guard = m, ![r].pc = next]
      BY <1>3 DEF GuardBody
    <2>2. UNCHANGED <<inProcess, rows, dep, deploys, cache, lock>> /\ req[r].pc = "guard_body"
      BY <1>3 DEF GuardBody
    <2>3. /\ m \in Models /\ Held(req[r].ver, m)
          /\ m.head >= req[r].ver /\ m.body >= req[r].ver
      BY <2>2, Read
    <2> HIDE DEF m
    <2> DEFINE q == [req[r] EXCEPT !.guard = m, !.pc = next]
    <2>4. /\ q \in ReqRec /\ q.pc = next /\ q.ver = req[r].ver /\ q.guard = m
          /\ q.got = req[r].got
      BY <1>1, <2>3 DEF ReqRec, Positions
    <2>5. req' = [req EXCEPT ![r] = q]
      BY <2>1
    <2> HIDE DEF q
    <2> QED BY <2>2, <2>3, <2>4, <2>5, Known, CallMoves DEF CallHeld
  <1>4. CASE EngineMatches(r)
    <2>1. \E pc \in {"execute", "describe"} : req' = [req EXCEPT ![r].pc = pc]
      BY <1>4 DEF EngineMatches, Step
    <2>2. UNCHANGED <<inProcess, rows, dep, deploys, cache, lock>> /\ req[r].pc = "engine"
      BY <1>4 DEF EngineMatches, Step
    <2> QED BY <2>1, <2>2, Known, Moves DEF Positions
  <1>5. CASE Execute(r)
    <2>1. /\ req' = [req EXCEPT ![r].pc = "describe", ![r].ran = TRUE] /\ req[r].pc = "execute"
          /\ UNCHANGED <<inProcess, rows, dep, deploys, cache, lock>>
      BY <1>5 DEF Execute
    <2> DEFINE q == [req[r] EXCEPT !.pc = "describe", !.ran = TRUE]
    <2>2. /\ q \in ReqRec /\ q.pc = "describe" /\ q.ver = req[r].ver /\ q.guard = req[r].guard
          /\ q.got = req[r].got
      BY <1>1 DEF ReqRec, Positions
    <2>3. req' = [req EXCEPT ![r] = q]
      BY <2>1
    <2> HIDE DEF q
    <2> QED BY <2>1, <2>2, <2>3, Known, CallMoves DEF CallHeld
  <1> QED BY <1>2, <1>3, <1>4, <1>5

\* A call that ends with an answer held between the version and the model row.
LEMMA Answers ==
    ASSUME IInv, NEW r \in Requests, NEW m \in Models, Held(req[r].ver, m),
           req' = [req EXCEPT ![r].pc = "done", ![r].got = m],
           UNCHANGED <<inProcess, rows, dep, deploys>>,
           cache' \in [Trees -> Models], lock' \in Requests \cup {NoOne},
           \A v \in Trees : Held(v, cache'[v])
    PROVE  IInv'
  <1> DEFINE q == [req[r] EXCEPT !.pc = "done", !.got = m]
  <1>1. req[r] \in ReqRec
    BY Known
  <1>2. /\ q \in ReqRec /\ q.pc = "done" /\ q.ver = req[r].ver /\ q.guard = req[r].guard
        /\ q.got = m /\ q.ran = req[r].ran
    BY <1>1 DEF ReqRec, Positions
  <1>3. req' = [req EXCEPT ![r] = q]
    OBVIOUS
  <1> HIDE DEF q
  <1> QED BY <1>2, <1>3, Known, CallMoves DEF CallHeld

LEMMA AnswerSteps ==
    ASSUME IInv, NEW r \in Requests, SelectExamples(r) \/ Describe(r) \/ Hit(r)
    PROVE  IInv'
  <1>1. CASE SelectExamples(r)
    <2>1. /\ req' = [req EXCEPT ![r].pc = "done", ![r].got = Whole(rows.examples)]
          /\ UNCHANGED <<inProcess, rows, dep, deploys, cache, lock>>
      BY <1>1 DEF SelectExamples
    <2>2. Whole(rows.examples) \in Models
      BY Known, Numbers
    <2>3. Held(req[r].ver, Whole(rows.examples))
      <3>1. /\ req[r].ver <= rows.version /\ rows.version <= rows.examples
            /\ rows.examples <= rows.model
        BY Known DEF CallHeld
      <3>2. req[r].ver \in Nat /\ rows.version \in Nat /\ rows.examples \in Nat
        BY Known
      <3> QED BY <3>1, <3>2 DEF Held, Between, Whole
    <2> QED BY <2>1, <2>2, <2>3, Known, Answers
  <1>2. CASE Describe(r) /\ inProcess
    <2>1. /\ req' = [req EXCEPT ![r].pc = "done", ![r].got = req[r].guard]
          /\ UNCHANGED <<inProcess, rows, dep, deploys, cache, lock>>
      BY <1>2 DEF Describe
    <2>2. req[r].guard \in Models /\ Held(req[r].ver, req[r].guard)
      BY Known DEF CallHeld, ReqRec
    <2> QED BY <2>1, <2>2, Known, Answers
  <1>3. CASE Describe(r) /\ ~inProcess
    <2>1. /\ req' = [req EXCEPT ![r].pc = "lookup"]
          /\ UNCHANGED <<inProcess, rows, dep, deploys, cache, lock>>
      BY <1>3 DEF Describe, Step
    <2> QED BY <2>1, Known, Moves DEF Positions
  <1>4. CASE Hit(r)
    <2>1. /\ req' = [req EXCEPT ![r].pc = "done", ![r].got = cache[req[r].ver]]
          /\ UNCHANGED <<inProcess, rows, dep, deploys, cache, lock>> /\ req[r].ver # None
      BY <1>4 DEF Hit
    <2>2. req[r].ver \in Trees
      BY <2>1, Known, ServingAssumption DEF Rows, Trees, None
    <2>3. cache[req[r].ver] \in Models /\ Held(req[r].ver, cache[req[r].ver])
      BY <2>2, Known
    <2> QED BY <2>1, <2>3, Known, Answers
  <1> QED BY <1>1, <1>2, <1>3, <1>4

LEMMA LoadSteps ==
    ASSUME IInv, NEW r \in Requests,
           LookUpUnversioned(r) \/ Miss(r) \/ LoadHead(r) \/ LoadBody(r)
    PROVE  IInv'
  <1>1. Unlocked(r) \in Requests \cup {NoOne}
    BY Known DEF Unlocked
  <1>2. CASE LookUpUnversioned(r) \/ Miss(r)
    BY <1>2, Known, Moves DEF LookUpUnversioned, Miss, Step, Positions
  <1>3. CASE LoadHead(r) /\ rows.model = None
    BY <1>1, <1>3, Known, Moves DEF LoadHead, Positions
  <1>4. CASE LoadHead(r) /\ rows.model # None
    <2>1. /\ req' = [req EXCEPT ![r].head = rows.model, ![r].pc = "load_body"]
          /\ UNCHANGED <<inProcess, rows, dep, deploys, cache, lock>> /\ req[r].pc = "load_head"
      BY <1>4 DEF LoadHead
    <2> DEFINE q == [req[r] EXCEPT !.head = rows.model, !.pc = "load_body"]
    <2>2. rows.model \in Rows /\ req[r] \in ReqRec
      BY Known
    <2>3. /\ q \in ReqRec /\ q.pc = "load_body" /\ q.ver = req[r].ver /\ q.guard = req[r].guard
          /\ q.got = req[r].got /\ q.ran = req[r].ran /\ q.head = rows.model
      BY <2>2 DEF ReqRec, Positions
    <2>4. req' = [req EXCEPT ![r] = q]
      BY <2>1
    <2> HIDE DEF q
    <2>5. Between(req[r].ver, rows.model)
      <3>1. req[r].ver <= rows.version /\ rows.version <= rows.model
        BY Known DEF CallHeld
      <3>2. req[r].ver \in Nat /\ rows.version \in Nat /\ rows.model \in Nat
        BY Known
      <3> QED BY <3>1, <3>2 DEF Between
    <2> QED BY <2>1, <2>3, <2>4, <2>5, Known, CallMoves DEF CallHeld
  <1>5. CASE LoadBody(r)
    <2> DEFINE m == [head |-> req[r].head, body |-> rows.model]
    <2>1. /\ req[r].pc = "load_body" /\ req' = [req EXCEPT ![r].pc = "done", ![r].got = m]
          /\ cache' = (IF req[r].ver = None THEN cache ELSE Remembered(req[r].ver, m))
          /\ lock' = Unlocked(r) /\ UNCHANGED <<inProcess, rows, dep, deploys>>
      BY <1>5 DEF LoadBody
    <2>2. m \in Models /\ Held(req[r].ver, m)
      BY <2>1, Read
    <2> HIDE DEF m
    <2>3. cache' \in [Trees -> Models] /\ \A v \in Trees : Held(v, cache'[v])
      BY <2>1, <2>2, Known, Numbers DEF Remembered, Held
    <2> QED BY <1>1, <2>1, <2>2, <2>3, Answers
  <1> QED BY <1>2, <1>3, <1>4, <1>5

LEMMA InvStep == ASSUME InOrder PROVE IInv /\ [Next]_vars => IInv'
  <1> SUFFICES ASSUME IInv, [Next]_vars PROVE IInv'
    OBVIOUS
  <1>1. CASE UNCHANGED vars
    BY <1>1 DEF vars, IInv, TypeOK, RowsOrdered, WritersInOrder, CacheHeld, CallHeld, Held, Between
  <1>2. ASSUME NEW d \in Deployers, Deploy(d) PROVE IInv'
    BY <1>2, DeploySteps
  <1>3. ASSUME NEW r \in Requests, Call(r) PROVE IInv'
    BY <1>3, StartSteps, VetSteps, AnswerSteps, LoadSteps DEF Call
  <1> QED BY <1>1, <1>2, <1>3 DEF Next

-----------------------------------------------------------------------------
\* Every variable keeps its type.
THEOREM TypeCorrect == ASSUME InOrder PROVE Spec => []TypeOK
  <1>1. IInv => TypeOK
    BY DEF IInv
  <1> QED BY <1>1, InitInv, InvStep, PTL DEF Spec

\* Nobody is told of a newer model than the one that was used, in a reply or of a
\* vetted statement (get_cached_org, _resolve_guard_model).
THEOREM LabelsAreNotNewer == ASSUME InOrder PROVE Spec => []NewAsLabelled
  <1>1. ASSUME IInv PROVE NewAsLabelled
    <2>1. ASSUME NEW r \in Requests, Replied(r)
          PROVE  req[r].got.head >= req[r].ver /\ req[r].got.body >= req[r].ver
      BY <1>1, <2>1, Known DEF CallHeld, Held, Between, Replied
    <2>2. ASSUME NEW r \in Requests, req[r].ran
          PROVE  req[r].guard.head >= req[r].ver /\ req[r].guard.body >= req[r].ver
      BY <1>1, <2>2 DEF IInv, CallHeld
    <2> QED BY <2>1, <2>2 DEF NewAsLabelled
  <1> QED BY <1>1, InitInv, InvStep, PTL DEF Spec

\* Between a version and a model row that agree there is one model only.
LEMMA EndsMeet ==
    ASSUME NEW v \in Nat, NEW m \in Models, v = rows.model, Held(v, m)
    PROVE  m \in {NoModel, Whole(v)}
  <1>1. m.head \in Nat /\ m.body \in Nat /\ m = [head |-> m.head, body |-> m.body]
    BY Numbers DEF Models
  <1> QED BY <1>1 DEF Held, Between, Whole

\* A reply labelled with the live version is the live content (#364).
THEOREM StaleTextTells == ASSUME InOrder PROVE Spec => []StaleTextIsDetectable
  <1>1. ASSUME IInv PROVE StaleTextIsDetectable
    <2> SUFFICES ASSUME NEW r \in Requests, Settled, Replied(r), req[r].ver = rows.version
                 PROVE  req[r].got = Whole(rows.version)
      BY DEF StaleTextIsDetectable
    <2>1. req[r].got \in Models /\ Held(rows.version, req[r].got) /\ rows.version \in Nat
      BY <1>1, Known DEF CallHeld, ReqRec
    <2> QED BY <2>1, EndsMeet DEF Settled, Replied
  <1> QED BY <1>1, InitInv, InvStep, PTL DEF Spec

\* Once a deploy is complete, what the cache holds under the live version is the
\* live model (get_cached_org).
THEOREM CacheIsLive == ASSUME InOrder PROVE Spec => []SettledCacheIsLive
  <1>1. ASSUME IInv PROVE SettledCacheIsLive
    <2> SUFFICES ASSUME Settled PROVE cache[rows.version] \in {NoModel, Whole(rows.version)}
      BY DEF SettledCacheIsLive
    <2>1. /\ rows.version \in Rows /\ rows.version \in Nat
          /\ cache \in [Trees -> Models] /\ CacheHeld
      BY <1>1, Typed, Numbers DEF IInv, RowRec
    <2>2. rows.version \in Trees
      BY <2>1, ServingAssumption DEF Settled, Rows, Trees, None
    <2>3. cache[rows.version] \in Models /\ Held(rows.version, cache[rows.version])
      BY <2>1, <2>2 DEF CacheHeld
    <2> QED BY <2>1, <2>3, EndsMeet DEF Settled
  <1> QED BY <1>1, InitInv, InvStep, PTL DEF Spec

-----------------------------------------------------------------------------
\* What a load serves (ServedModel): each of its steps as what it leaves of a
\* document, then the reference, then the rules, for a document of any size.

\* Induction on the natural numbers, of a set.
LEMMA SetInduction ==
    ASSUME NEW A, A \subseteq Nat, 0 \in A, \A n \in A : n + 1 \in A
    PROVE  A = Nat
  <1> SUFFICES ASSUME NEW a \in Nat \ A PROVE FALSE
    OBVIOUS
  <1> DEFINE T == Nat \ A
  <1>1. IsWellFoundedOn(OpToRel(<, Nat), Nat)
    BY NatLessThanWellFounded
  <1>2. PICK x \in T : \A y \in T : ~(<<y, x>> \in OpToRel(<, Nat))
    BY <1>1, WFMin
  <1>3. x \in Nat /\ x # 0
    BY <1>2
  <1>4. x - 1 \in Nat /\ <<x - 1, x>> \in OpToRel(<, Nat)
    BY <1>3 DEF OpToRel
  <1>5. x - 1 \in A
    BY <1>2, <1>4
  <1>6. (x - 1) + 1 \in A
    BY <1>5
  <1>7. (x - 1) + 1 = x
    BY <1>3
  <1> QED BY <1>2, <1>6, <1>7


Iterates(base, step, N, f) == f = [n \in 0..N |-> IF n = 0 THEN base ELSE step[f[n - 1]]]

\* A set taken through a step again and again: the function that says where it
\* is after each number of times exists.
LEMMA IterExists ==
    ASSUME NEW V, NEW base \in V, NEW step \in [V -> V], NEW N \in Nat
    PROVE  \E f \in [0..N -> V] : Iterates(base, step, N, f)
  <1> DEFINE Is(k, f) == f \in [0..k -> V] /\ Iterates(base, step, k, f)
             A == {k \in Nat : \E f : Is(k, f)}
  <1>1. 0 \in A
    <2>1. Is(0, [n \in 0..0 |-> base])
      BY DEF Iterates
    <2> QED BY <2>1
  <1>2. ASSUME NEW k \in A PROVE k + 1 \in A
    <2>1. PICK f : Is(k, f)
      OBVIOUS
    <2> DEFINE g == [n \in 0..(k + 1) |-> IF n = k + 1 THEN step[f[k]] ELSE f[n]]
    <2>2. g \in [0..(k + 1) -> V]
      BY <2>1
    <2>3. ASSUME NEW n \in 0..(k + 1) PROVE g[n] = IF n = 0 THEN base ELSE step[g[n - 1]]
      BY <2>1 DEF Iterates
    <2>4. g = [n \in 0..(k + 1) |-> IF n = 0 THEN base ELSE step[g[n - 1]]]
      BY <2>3
    <2>5. Is(k + 1, g)
      BY <2>2, <2>4 DEF Iterates
    <2> HIDE DEF g, Is
    <2>6. k + 1 \in Nat
      OBVIOUS
    <2> QED BY <2>5, <2>6
  <1>3. A = Nat
    <2>1. A \subseteq Nat
      OBVIOUS
    <2> HIDE DEF A
    <2> QED BY <1>1, <1>2, <2>1, SetInduction
  <1> QED BY <1>3

\* The metrics that have their bases, in a set of them.
Closed(known, s) == \A x \in s : x.bases \cap known \subseteq Names(s)

IsLargest(all, metrics, left) ==
    /\ left \subseteq metrics /\ Closed(Names(all), left)
    /\ \A s \in SUBSET metrics : Closed(Names(all), s) => s \subseteq left

\* What is left once the removed bases have taken what is built on them is the
\* largest set of metrics that have their bases.
LEMMA LeftIsLargest ==
    ASSUME NEW all, NEW metrics \in SUBSET all, IsFiniteSet(metrics)
    PROVE  IsLargest(all, metrics, WithoutRemovedBases(metrics, Names(all) \ Names(metrics)))
  <1> DEFINE N == Cardinality(metrics)
             removed == Names(all) \ Names(metrics)
             V == SUBSET metrics
             step == [s \in V |-> s \ DroppedWith(s, removed \cup (Names(metrics) \ Names(s)))]
             Is(f) == f = [n \in 0..N |-> IF n = 0 THEN metrics
                              ELSE f[n - 1] \ DroppedWith(f[n - 1], removed \cup (Names(metrics) \ Names(f[n - 1])))]
  <1>1. N \in Nat /\ N = Cardinality(metrics)
    BY FS_CardinalityType
  <1>2. \E f : Is(f)
    <2>1. step \in [V -> V] /\ metrics \in V
      OBVIOUS
    <2> HIDE DEF step, V, N
    <2>a. PICK f \in [0..N -> V] : Iterates(metrics, step, N, f)
      BY <1>1, <2>1, IterExists
    <2>2. f \in [0..N -> V] /\ f = [n \in 0..N |-> IF n = 0 THEN metrics ELSE step[f[n - 1]]]
      BY <2>a DEF Iterates
    <2>3. \A n \in 0..N : f[n] = IF n = 0 THEN metrics
                              ELSE f[n - 1] \ DroppedWith(f[n - 1], removed \cup (Names(metrics) \ Names(f[n - 1])))
      <3> SUFFICES ASSUME NEW n \in 0..N, n # 0
                   PROVE  f[n] = f[n - 1] \ DroppedWith(f[n - 1], removed \cup (Names(metrics) \ Names(f[n - 1])))
        BY <2>2
      <3>1. n - 1 \in 0..N
        BY <1>1
      <3>2. f[n - 1] \in V /\ f[n] = step[f[n - 1]]
        BY <2>2, <3>1
      <3> QED BY <3>2 DEF step
    <2>4. Is(f)
      <3>1. DOMAIN f = 0..N /\ f = [n \in DOMAIN f |-> f[n]]
        BY <2>2
      <3> HIDE DEF removed
      <3> QED BY <2>3, <3>1
    <2> QED BY <2>4
  <1> DEFINE left == CHOOSE f : Is(f)
  <1>3. Is(left)
    BY <1>2
  <1>4. WithoutRemovedBases(metrics, removed) = left[N]
    BY DEF WithoutRemovedBases
  <1> HIDE DEF left, N
  <1> DEFINE Stable(s) == DroppedWith(s, Names(all) \ Names(s)) = {}
  <1>5. \A s \in V : removed \cup (Names(metrics) \ Names(s)) = Names(all) \ Names(s)
    BY DEF Names
  <1>6. left[0] = metrics
    BY <1>1, <1>3
  <1>7. \A n \in 1..N : left[n] = left[n - 1] \ DroppedWith(left[n - 1], removed \cup (Names(metrics) \ Names(left[n - 1])))
    <2> SUFFICES ASSUME NEW n \in 1..N
                 PROVE  left[n] = left[n - 1] \ DroppedWith(left[n - 1], removed \cup (Names(metrics) \ Names(left[n - 1])))
      OBVIOUS
    <2>1. n \in 0..N /\ n # 0
      BY <1>1
    <2> HIDE DEF removed
    <2> QED BY <1>3, <2>1
  <1> HIDE DEF Is
  <1> DEFINE A == {n \in Nat : n <= N => /\ left[n] \in V
                                         /\ Stable(left[n]) \/ Cardinality(left[n]) + n <= N
                                         /\ \A s \in V : Closed(Names(all), s) => s \subseteq left[n]}
  <1>8. 0 \in A
    <2>1. Cardinality(left[0]) + 0 <= N
      BY <1>1, <1>6
    <2> HIDE DEF Stable
    <2> QED BY <1>6, <2>1
  <1>9. ASSUME NEW n \in A PROVE n + 1 \in A
    <2> SUFFICES ASSUME n + 1 <= N
                 PROVE  /\ left[n + 1] \in V
                        /\ Stable(left[n + 1]) \/ Cardinality(left[n + 1]) + (n + 1) <= N
                        /\ \A s \in V : Closed(Names(all), s) => s \subseteq left[n + 1]
      OBVIOUS
    <2> DEFINE s == left[n]
               out == DroppedWith(s, Names(all) \ Names(s))
    <2> HIDE DEF Stable
    <2>1. /\ n \in Nat /\ s \in V
          /\ Stable(s) \/ Cardinality(s) + n <= N
          /\ \A u \in V : Closed(Names(all), u) => u \subseteq s
      BY <1>1
    <2>2. left[n + 1] = s \ out
      <3>1. n + 1 \in 1..N /\ (n + 1) - 1 = n
        BY <1>1, <2>1
      <3> QED BY <1>5, <1>7, <2>1, <3>1
    <2>3. out \subseteq s
      BY DEF DroppedWith
    <2>4. CASE out = {}
      <3>1. left[n + 1] = s /\ Stable(s)
        BY <2>2, <2>4 DEF Stable
      <3> QED BY <2>1, <3>1
    <2>5. CASE out # {}
      <3>1. IsFiniteSet(s) /\ IsFiniteSet(s \ out)
        BY <2>1, FS_Subset
      <3>2. Cardinality(s \ out) < Cardinality(s)
        <4> HIDE DEF out, s
        <4>1. s \ out \in SUBSET s /\ s \ out # s
          BY <2>3, <2>5
        <4>2. Cardinality(s \ out) <= Cardinality(s) /\ (Cardinality(s) = Cardinality(s \ out) => s = s \ out)
          BY <3>1, <4>1, FS_Subset
        <4>3. Cardinality(s) \in Nat /\ Cardinality(s \ out) \in Nat
          BY <3>1, FS_CardinalityType
        <4> QED BY <4>1, <4>2, <4>3
      <3>3. Cardinality(s) \in Nat /\ Cardinality(s \ out) \in Nat
        BY <3>1, FS_CardinalityType
      <3>4. ~Stable(s)
        BY <2>5 DEF Stable
      <3>5. Cardinality(s \ out) + (n + 1) <= N
        <4> HIDE DEF out, s
        <4> QED BY <1>1, <2>1, <3>2, <3>3, <3>4
      <3>6. ASSUME NEW u \in V, Closed(Names(all), u) PROVE u \subseteq s \ out
        <4>1. u \subseteq s
          BY <2>1, <3>6
        <4>2. Names(u) \subseteq Names(s)
          BY <4>1 DEF Names
        <4> QED BY <3>6, <4>1, <4>2 DEF Closed, DroppedWith
      <3> QED BY <2>1, <2>2, <3>5, <3>6
    <2> QED BY <2>4, <2>5
  <1>10. A = Nat
    <2>1. A \subseteq Nat
      OBVIOUS
    <2> HIDE DEF A
    <2> QED BY <1>8, <1>9, <2>1, SetInduction
  <1>11. /\ left[N] \in V
         /\ Stable(left[N]) \/ Cardinality(left[N]) + N <= N
         /\ \A s \in V : Closed(Names(all), s) => s \subseteq left[N]
    <2>1. N <= N
      BY <1>1
    <2>2. N \in A
      <3> HIDE DEF A
      <3> QED BY <1>1, <1>10
    <2> HIDE DEF Stable
    <2> QED BY <2>1, <2>2
  <1>12. Closed(Names(all), left[N])
    <2>1. CASE Stable(left[N])
      BY <2>1 DEF Closed, DroppedWith
    <2>2. CASE Cardinality(left[N]) + N <= N
      <3>1. IsFiniteSet(left[N])
        BY <1>11, FS_Subset
      <3>2. Cardinality(left[N]) = 0
        BY <1>1, <2>2, <3>1, FS_CardinalityType
      <3>3. left[N] = {}
        BY <3>1, <3>2, FS_EmptySet
      <3> QED BY <3>3 DEF Closed
    <2> QED BY <1>11, <2>1, <2>2
  <1> QED BY <1>4, <1>11, <1>12 DEF IsLargest

\* A model: what the steps of a load change of a document, and keep.
Loaded(disk, m) ==
    /\ m = [order |-> disk.order, copies |-> m.copies, columns |-> m.columns, groups |-> m.groups,
            grain |-> m.grain, keys |-> m.keys, filters |-> m.filters, refs |-> m.refs, joins |-> m.joins,
            entities |-> m.entities, metrics |-> m.metrics, ambiguities |-> m.ambiguities]
    /\ m.copies \subseteq disk.copies
    /\ \A c \in m.copies : m.columns[c] \subseteq disk.columns[c]

\* The joins an area loads: those not rejected, with both ends among its own.
AreaJoins(disk, gone, copies) ==
    {j \in disk.joins : /\ JoinItem(j) \notin gone
                        /\ j.area # Cross => {<<j.area, j.from>>, <<j.area, j.to>>} \subseteq copies}

\* What the loading of the areas comes to.
AreasAre(disk, gone, m) ==
    /\ Loaded(disk, m)
    /\ \A c \in m.copies : /\ m.groups[c] = Pruned(disk.groups[c], m.columns[c])
                           /\ m.filters[c] = disk.filters[c] /\ m.grain[c] = disk.grain[c]
    /\ m.refs = {Narrowed(r, m.copies, m.groups) : r \in disk.refs}
    /\ m.joins = AreaJoins(disk, gone, m.copies)
    /\ m.entities = {e \in disk.entities : EntityItem(e) \notin gone}
    /\ m.metrics = {x \in disk.metrics : MetricItem(x) \notin gone}

LEMMA AreasLoaded ==
    ASSUME NEW Areas, NEW Tables, NEW Columns, NEW Groups, NEW Ids, NEW copies,
           NEW disk \in DocumentsOn(Areas, Tables, Columns, Groups, Ids, copies), NEW gone
    PROVE  AreasAre(disk, gone, LoadAreas(disk, gone))
  <1> DEFINE m == LoadAreas(disk, gone)
             left == {c \in disk.copies : TableItem(c) \notin gone}
             columns == [c \in left |-> {k \in disk.columns[c] : ColumnItem(c, k) \notin gone}]
             groups == [c \in left |-> Pruned(disk.groups[c], columns[c])]
  <1>1. disk = [order |-> disk.order, copies |-> disk.copies, columns |-> disk.columns, groups |-> disk.groups,
                grain |-> disk.grain, keys |-> disk.keys, filters |-> disk.filters, refs |-> disk.refs,
                joins |-> disk.joins, entities |-> disk.entities, metrics |-> disk.metrics,
                ambiguities |-> disk.ambiguities]
    BY DEF DocumentsOn
  <1> DEFINE grain == Restrict(disk.grain, left)
             keys == [c \in left |-> {k \in disk.keys[c] : k \subseteq columns[c]}]
             filters == Restrict(disk.filters, left)
             refs == {Narrowed(r, left, groups) : r \in disk.refs}
             joins == AreaJoins(disk, gone, left)
             entities == {e \in disk.entities : EntityItem(e) \notin gone}
             metrics == {x \in disk.metrics : MetricItem(x) \notin gone}
  <1>a. m = [disk EXCEPT !.copies = left, !.columns = columns, !.groups = groups, !.grain = grain, !.keys = keys,
                         !.filters = filters, !.refs = refs, !.joins = joins, !.entities = entities,
                         !.metrics = metrics]
    BY DEF LoadAreas, AreaJoins
  <1>b. PICK o, cs, ks, gs, gr, ke, fs, rs, js, es, xs, as :
            disk = [order |-> o, copies |-> cs, columns |-> ks, groups |-> gs, grain |-> gr, keys |-> ke,
                 filters |-> fs, refs |-> rs, joins |-> js, entities |-> es, metrics |-> xs, ambiguities |-> as]
    BY <1>1
  <1>c. disk.order = o /\ disk.ambiguities = as
    BY <1>b
  <1> HIDE DEF m, left, columns, groups, grain, keys, filters, refs, joins, entities, metrics
  <1>d. m = [order |-> o, copies |-> left, columns |-> columns, groups |-> groups, grain |-> grain, keys |-> keys,
             filters |-> filters, refs |-> refs, joins |-> joins, entities |-> entities, metrics |-> metrics,
             ambiguities |-> as]
    BY <1>a, <1>b
  <1> USE DEF left, columns, groups, grain, keys, filters, refs, joins, entities, metrics
  <1>2. m = [order |-> disk.order, copies |-> left, columns |-> columns, groups |-> groups,
             grain |-> Restrict(disk.grain, left),
             keys |-> [c \in left |-> {k \in disk.keys[c] : k \subseteq columns[c]}],
             filters |-> Restrict(disk.filters, left),
             refs |-> {Narrowed(r, left, groups) : r \in disk.refs},
             joins |-> AreaJoins(disk, gone, left),
             entities |-> {e \in disk.entities : EntityItem(e) \notin gone},
             metrics |-> {x \in disk.metrics : MetricItem(x) \notin gone},
             ambiguities |-> disk.ambiguities]
    BY <1>c, <1>d
  <1>3. /\ m.copies = left /\ m.columns = columns /\ m.groups = groups /\ m.order = disk.order
        /\ m.grain = Restrict(disk.grain, left) /\ m.filters = Restrict(disk.filters, left)
        /\ m.keys = [c \in left |-> {k \in disk.keys[c] : k \subseteq columns[c]}]
        /\ m.refs = {Narrowed(r, left, groups) : r \in disk.refs}
        /\ m.joins = AreaJoins(disk, gone, left)
        /\ m.entities = {e \in disk.entities : EntityItem(e) \notin gone}
        /\ m.metrics = {x \in disk.metrics : MetricItem(x) \notin gone}
    BY <1>2
  <1>4. m = [order |-> m.order, copies |-> m.copies, columns |-> m.columns, groups |-> m.groups,
            grain |-> m.grain, keys |-> m.keys, filters |-> m.filters, refs |-> m.refs, joins |-> m.joins,
            entities |-> m.entities, metrics |-> m.metrics, ambiguities |-> m.ambiguities]
    BY <1>2
  <1> HIDE DEF m
  <1>5. Loaded(disk, m)
    <2>1. \A c \in left : columns[c] \subseteq disk.columns[c]
      OBVIOUS
    <2> QED BY <1>3, <1>4, <2>1 DEF Loaded
  <1>6. \A c \in left : /\ groups[c] = Pruned(disk.groups[c], columns[c])
                        /\ m.filters[c] = disk.filters[c] /\ m.grain[c] = disk.grain[c]
    BY <1>3 DEF Restrict
  <1>8. /\ m.refs = {Narrowed(r, m.copies, m.groups) : r \in disk.refs}
        /\ m.joins = AreaJoins(disk, gone, m.copies)
        /\ m.entities = {e \in disk.entities : EntityItem(e) \notin gone}
        /\ m.metrics = {x \in disk.metrics : MetricItem(x) \notin gone}
    <2> HIDE DEF left, groups
    <2> QED BY <1>3
  <1> HIDE DEF left, columns, groups
  <1>9. \A c \in m.copies : /\ m.groups[c] = Pruned(disk.groups[c], m.columns[c])
                            /\ m.filters[c] = disk.filters[c] /\ m.grain[c] = disk.grain[c]
    BY <1>3, <1>6
  <1> HIDE DEF grain, keys, filters, refs, joins, entities, metrics
  <1>10. AreasAre(disk, gone, m)
    BY <1>5, <1>8, <1>9 DEF AreasAre
  <1> QED BY <1>10 DEF m

\* Nothing is hidden in a document in which no table and no listed column is.
LEMMA NothingHidden ==
    ASSUME NEW disk, NEW m, m.copies \subseteq disk.copies, ~AnyHidden(disk, m)
    PROVE  \A t, k : ~TableHidden(disk, m, t) /\ ~ColumnHidden(disk, m, t, k) /\ ~EndHidden(disk, m, t, k)
  <1>1. ASSUME NEW t, TableHidden(disk, m, t) PROVE FALSE
    <2>1. PICK c \in disk.copies : c[2] = t
      BY <1>1 DEF TableHidden, Of
    <2> QED BY <1>1, <2>1 DEF AnyHidden
  <1>2. ASSUME NEW t, NEW k, ColumnHidden(disk, m, t, k) PROVE FALSE
    <2>1. PICK c \in disk.copies : c[2] = t /\ k \in disk.columns[c]
      BY <1>2 DEF ColumnHidden, Of
    <2> QED BY <1>2, <2>1 DEF AnyHidden
  <1> QED BY <1>1, <1>2 DEF EndHidden

\* What dropping the uses of what is hidden comes to, when nothing is too.
UsesAre(disk, m, u) ==
    /\ Loaded(disk, u)
    /\ u.copies = m.copies /\ u.columns = m.columns /\ u.groups = m.groups
    /\ \A c \in m.copies : /\ u.grain[c] = {k \in m.grain[c] : ~ColumnHidden(disk, m, c[2], k)}
                           /\ u.filters[c] = {f \in m.filters[c] : \A k \in f : ~ColumnHidden(disk, m, c[2], k)}
    /\ u.refs = {r \in m.refs : ~TableHidden(disk, m, r.table)}
    /\ u.joins = {j \in m.joins : JoinOk(disk, m, j)}
    /\ u.entities = EntitiesServed(disk, m, m.entities)
    /\ u.metrics = {x \in m.metrics : MetricOk(disk, m, x)}

EntityRecords(entities) == \A e \in entities : e = [id |-> e.id, area |-> e.area, maps |-> e.maps]

LEMMA UsesDropped ==
    ASSUME NEW disk, NEW gone, NEW m, AreasAre(disk, gone, m), EntityRecords(m.entities)
    PROVE  UsesAre(disk, m, DropUses(disk, m))
  <1> DEFINE u == DropUses(disk, m)
  <1>0. Loaded(disk, m) /\ m.copies \subseteq disk.copies
    BY DEF AreasAre, Loaded
  <1>1. CASE ~AnyHidden(disk, m)
    <2>1. u = m
      BY <1>1 DEF DropUses
    <2>2. \A t, k : ~TableHidden(disk, m, t) /\ ~ColumnHidden(disk, m, t, k) /\ ~EndHidden(disk, m, t, k)
      BY <1>0, <1>1, NothingHidden
    <2>3. m.joins = {j \in m.joins : JoinOk(disk, m, j)} /\ m.metrics = {x \in m.metrics : MetricOk(disk, m, x)}
      BY <2>2 DEF JoinOk, MetricOk
    <2>4. EntitiesServed(disk, m, m.entities) = m.entities
      <3> DEFINE mapped(e) == {p \in e.maps : ~EndHidden(disk, m, p[1], p[2])}
      <3>1. \A e : mapped(e) = e.maps
        BY <2>2
      <3>2. {f \in m.entities : f.maps = {} \/ mapped(f) # {}} = m.entities
        BY <3>1
      <3>3. \A e \in m.entities : [e EXCEPT !.maps = mapped(e)] = e
        BY <3>1 DEF EntityRecords
      <3>4. EntitiesServed(disk, m, m.entities)
              = {[e EXCEPT !.maps = mapped(e)] : e \in {f \in m.entities : f.maps = {} \/ mapped(f) # {}}}
        BY DEF EntitiesServed
      <3> HIDE DEF mapped
      <3> QED BY <3>2, <3>3, <3>4
    <2>5. \A c \in m.copies : /\ m.grain[c] = {k \in m.grain[c] : ~ColumnHidden(disk, m, c[2], k)}
                              /\ m.filters[c] = {f \in m.filters[c] : \A k \in f : ~ColumnHidden(disk, m, c[2], k)}
      BY <2>2
    <2>6. m.refs = {r \in m.refs : ~TableHidden(disk, m, r.table)}
      BY <2>2
    <2>7. UsesAre(disk, m, m)
      BY <1>0, <2>3, <2>4, <2>5, <2>6 DEF UsesAre
    <2> QED BY <2>1, <2>7
  <1>2. CASE AnyHidden(disk, m)
    <2> DEFINE without(c, ks) == {k \in ks : ~ColumnHidden(disk, m, c[2], k)}
               grain == [c \in m.copies |-> without(c, m.grain[c])]
               keys == [c \in m.copies |-> {k \in m.keys[c] : without(c, k) = k}]
               filters == [c \in m.copies |-> {f \in m.filters[c] : without(c, f) = f}]
               refs == {r \in m.refs : ~TableHidden(disk, m, r.table)}
               joins == {j \in m.joins : JoinOk(disk, m, j)}
               entities == EntitiesServed(disk, m, m.entities)
               metrics == {x \in m.metrics : MetricOk(disk, m, x)}
    <2>1. u = [m EXCEPT !.grain = grain, !.keys = keys, !.filters = filters, !.refs = refs, !.joins = joins,
                        !.entities = entities, !.metrics = metrics]
      BY <1>2 DEF DropUses
    <2> HIDE DEF grain, keys, filters, refs, joins, entities, metrics
    <2> HIDE DEF u
    <2>2. PICK o, cs, ks, gs, gr, ke, fs, rs, js, es, xs, as :
            m = [order |-> o, copies |-> cs, columns |-> ks, groups |-> gs, grain |-> gr, keys |-> ke,
                 filters |-> fs, refs |-> rs, joins |-> js, entities |-> es, metrics |-> xs, ambiguities |-> as]
      BY <1>0 DEF Loaded
    <2>a. m.order = disk.order
      BY <1>0 DEF Loaded
    <2>b. m.order = o /\ m.copies = cs /\ m.columns = ks /\ m.groups = gs
      BY <2>2
    <2>c. u = [order |-> o, copies |-> cs, columns |-> ks, groups |-> gs,
            grain |-> grain, keys |-> keys, filters |-> filters, refs |-> refs, joins |-> joins,
            entities |-> entities, metrics |-> metrics, ambiguities |-> as]
      BY <2>1, <2>2
    <2>3. u = [order |-> disk.order, copies |-> m.copies, columns |-> m.columns, groups |-> m.groups,
            grain |-> grain, keys |-> keys, filters |-> filters, refs |-> refs, joins |-> joins,
            entities |-> entities, metrics |-> metrics, ambiguities |-> as]
      BY <2>a, <2>b, <2>c
    <2>4. /\ u.copies = m.copies /\ u.columns = m.columns /\ u.groups = m.groups /\ u.grain = grain
          /\ u.filters = filters /\ u.refs = refs /\ u.joins = joins /\ u.entities = entities /\ u.metrics = metrics
          /\ u = [order |-> disk.order, copies |-> u.copies, columns |-> u.columns, groups |-> u.groups,
                  grain |-> u.grain, keys |-> u.keys, filters |-> u.filters, refs |-> u.refs, joins |-> u.joins,
                  entities |-> u.entities, metrics |-> u.metrics, ambiguities |-> u.ambiguities]
      BY <2>3
    <2>5. Loaded(disk, u)
      BY <1>0, <2>4 DEF Loaded
    <2>6. \A c \in m.copies : /\ grain[c] = {k \in m.grain[c] : ~ColumnHidden(disk, m, c[2], k)}
                              /\ filters[c] = {f \in m.filters[c] : \A k \in f : ~ColumnHidden(disk, m, c[2], k)}
      <3> SUFFICES ASSUME NEW c \in m.copies
                   PROVE  /\ grain[c] = {k \in m.grain[c] : ~ColumnHidden(disk, m, c[2], k)}
                          /\ filters[c] = {f \in m.filters[c] : \A k \in f : ~ColumnHidden(disk, m, c[2], k)}
        OBVIOUS
      <3>1. grain[c] = {k \in m.grain[c] : ~ColumnHidden(disk, m, c[2], k)}
        BY DEF grain
      <3>2. filters[c] = {f \in m.filters[c] : without(c, f) = f}
        BY DEF filters
      <3>3. \A f : without(c, f) = f <=> \A k \in f : ~ColumnHidden(disk, m, c[2], k)
        OBVIOUS
      <3> HIDE DEF without
      <3> QED BY <3>1, <3>2, <3>3
    <2>7. /\ u.refs = {r \in m.refs : ~TableHidden(disk, m, r.table)}
          /\ u.joins = {j \in m.joins : JoinOk(disk, m, j)}
          /\ u.entities = EntitiesServed(disk, m, m.entities)
          /\ u.metrics = {x \in m.metrics : MetricOk(disk, m, x)}
      BY <2>4 DEF refs, joins, entities, metrics
    <2>8. \A c \in m.copies : /\ u.grain[c] = {k \in m.grain[c] : ~ColumnHidden(disk, m, c[2], k)}
                              /\ u.filters[c] = {f \in m.filters[c] : \A k \in f : ~ColumnHidden(disk, m, c[2], k)}
      BY <2>4, <2>6
    <2>9. u.copies = m.copies /\ u.columns = m.columns /\ u.groups = m.groups
      BY <2>4
    <2>10. UsesAre(disk, m, u)
      BY <2>5, <2>7, <2>8, <2>9 DEF UsesAre
    <2> QED BY <2>10 DEF u
  <1> QED BY <1>1, <1>2

\* The code hides what the reference calls unserved.
LEMMA HiddenIsUnserved ==
    ASSUME NEW disk, NEW m, m.copies \subseteq disk.copies,
           \A c \in m.copies : m.columns[c] \subseteq disk.columns[c],
           NEW t, NEW k, EvenColumn(disk, t, k)
    PROVE  EndHidden(disk, m, t, k) <=> Unserved(disk, m, t, k)
  <1>1. ASSUME EndHidden(disk, m, t, k) PROVE Unserved(disk, m, t, k)
    <2>1. CASE TableHidden(disk, m, t)
      BY <2>1 DEF TableHidden, Unserved
    <2>2. CASE ColumnHidden(disk, m, t, k)
      <3>1. PICK c \in Of(m.copies, t) : k \in disk.columns[c]
        BY <2>2 DEF ColumnHidden
      <3>2. c \in Of(disk.copies, t) /\ k \notin Serves(m, t)
        BY <2>2, <3>1 DEF ColumnHidden, Of
      <3>3. k \in Serves(disk, t)
        BY <3>1, <3>2 DEF Serves
      <3> QED BY <3>2, <3>3 DEF Unserved
    <2> QED BY <1>1, <2>1, <2>2 DEF EndHidden
  <1>2. ASSUME Unserved(disk, m, t, k), ~TableHidden(disk, m, t) PROVE ColumnHidden(disk, m, t, k)
    <2>1. k \in Serves(disk, t) /\ k \notin Serves(m, t)
      BY <1>2 DEF Unserved, TableHidden
    <2>2. PICK c \in Of(disk.copies, t) : k \in disk.columns[c]
      BY <2>1 DEF Serves
    <2>3. PICK d \in Of(m.copies, t) : TRUE
      BY <1>2, <2>2 DEF TableHidden
    <2>4. d \in Of(disk.copies, t)
      BY <2>3 DEF Of
    <2>5. k \in disk.columns[d]
      BY <2>2, <2>4 DEF EvenColumn
    <2>6. k \notin m.columns[d]
      BY <2>1, <2>3 DEF Serves
    <2> QED BY <2>1, <2>3, <2>5, <2>6 DEF ColumnHidden
  <1> QED BY <1>1, <1>2 DEF EndHidden

\* A metric the code keeps has its tables and columns.
LEMMA MetricOkIs ==
    ASSUME NEW disk, NEW m, m.copies \subseteq disk.copies,
           \A c \in m.copies : m.columns[c] \subseteq disk.columns[c],
           NEW x, \A t \in x.tables : \A k \in x.reads : EvenColumn(disk, t, k)
    PROVE  MetricOk(disk, m, x) <=>
              /\ \A t \in x.tables : Of(disk.copies, t) # {} => Of(m.copies, t) # {}
              /\ \A k \in x.reads : (\E t \in x.tables : k \in Serves(disk, t)) => \E t \in x.tables : k \in Serves(m, t)
  <1> DEFINE tables == \A t \in x.tables : Of(disk.copies, t) # {} => Of(m.copies, t) # {}
  <1>1. (\A t \in x.tables : ~TableHidden(disk, m, t)) <=> tables
    BY DEF TableHidden
  <1>2. ASSUME tables, NEW t \in x.tables, NEW k \in x.reads, k \notin Serves(m, t)
        PROVE  ColumnHidden(disk, m, t, k) <=> k \in Serves(disk, t)
    <2>1. EndHidden(disk, m, t, k) <=> Unserved(disk, m, t, k)
      BY HiddenIsUnserved
    <2>2. ~TableHidden(disk, m, t)
      BY <1>1, <1>2
    <2> QED BY <1>2, <2>1, <2>2 DEF EndHidden, Unserved, TableHidden
  <1>3. ASSUME NEW t, NEW k, ColumnHidden(disk, m, t, k) PROVE k \notin Serves(m, t)
    BY <1>3 DEF ColumnHidden
  <1>4. ASSUME tables, NEW k \in x.reads
        PROVE  ((\E t \in x.tables : ColumnHidden(disk, m, t, k)) => \E t \in x.tables : k \in Serves(m, t))
               <=> ((\E t \in x.tables : k \in Serves(disk, t)) => \E t \in x.tables : k \in Serves(m, t))
    <2>1. CASE \E t \in x.tables : k \in Serves(m, t)
      BY <2>1
    <2>2. CASE ~\E t \in x.tables : k \in Serves(m, t)
      <3>1. \A t \in x.tables : ColumnHidden(disk, m, t, k) <=> k \in Serves(disk, t)
        BY <1>2, <1>4, <2>2
      <3> QED BY <2>2, <3>1
    <2> QED BY <2>1, <2>2
  <1> HIDE DEF tables
  <1>5. MetricOk(disk, m, x) <=>
          /\ tables
          /\ \A k \in x.reads : (\E t \in x.tables : k \in Serves(disk, t)) => \E t \in x.tables : k \in Serves(m, t)
    BY <1>1, <1>4 DEF MetricOk
  <1> QED BY <1>5 DEF tables

\* What a load serves, of a document.
ServedIs(disk, gone, m, metrics) ==
    /\ Loaded(disk, m)
    /\ \A c \in m.copies : m.groups[c] = Pruned(disk.groups[c], m.columns[c])
    /\ \A c \in m.copies : /\ m.grain[c] = {k \in disk.grain[c] : ~ColumnHidden(disk, m, c[2], k)}
                           /\ m.filters[c] = {f \in disk.filters[c] : \A k \in f : ~ColumnHidden(disk, m, c[2], k)}
    /\ m.refs = {r \in {Narrowed(s, m.copies, m.groups) : s \in disk.refs} : ~TableHidden(disk, m, r.table)}
    /\ m.joins = {j \in disk.joins :
                    /\ JoinItem(j) \notin gone
                    /\ j.area # Cross => {<<j.area, j.from>>, <<j.area, j.to>>} \subseteq m.copies
                    /\ JoinOk(disk, m, j)}
    /\ m.entities = EntitiesServed(disk, m, {e \in disk.entities : EntityItem(e) \notin gone})
    /\ metrics = {x \in disk.metrics : MetricItem(x) \notin gone /\ MetricOk(disk, m, x)}
    /\ m.metrics = WithoutRemovedBases(metrics, Names(disk.metrics) \ Names(metrics))
    /\ m.ambiguities = AmbiguitiesServed(disk, m, Names(disk.metrics) \ Names(m.metrics))

\* What is hidden depends on the copies and their columns alone.
LEMMA AlikeHide ==
    ASSUME NEW disk, NEW m, NEW u, u.copies = m.copies, u.columns = m.columns, u.groups = m.groups
    PROVE  /\ \A t : TableHidden(disk, u, t) <=> TableHidden(disk, m, t)
           /\ \A t, k : ColumnHidden(disk, u, t, k) <=> ColumnHidden(disk, m, t, k)
           /\ \A t, k : EndHidden(disk, u, t, k) <=> EndHidden(disk, m, t, k)
           /\ \A t, g : GroupRemoved(disk, u, t, g) <=> GroupRemoved(disk, m, t, g)
           /\ \A t : Serves(u, t) = Serves(m, t)
           /\ \A j : JoinOk(disk, u, j) <=> JoinOk(disk, m, j)
           /\ \A x : MetricOk(disk, u, x) <=> MetricOk(disk, m, x)
           /\ \A e : EntitiesServed(disk, u, e) = EntitiesServed(disk, m, e)
           /\ \A n : AmbiguitiesServed(disk, u, n) = AmbiguitiesServed(disk, m, n)
  <1>1. \A t : Serves(u, t) = Serves(m, t)
    BY DEF Serves
  <1>2. \A t : TableHidden(disk, u, t) <=> TableHidden(disk, m, t)
    BY DEF TableHidden
  <1>3. \A t, k : ColumnHidden(disk, u, t, k) <=> ColumnHidden(disk, m, t, k)
    BY <1>1 DEF ColumnHidden
  <1>4. \A t, k : EndHidden(disk, u, t, k) <=> EndHidden(disk, m, t, k)
    BY <1>2, <1>3 DEF EndHidden
  <1>5. \A t, g : GroupRemoved(disk, u, t, g) <=> GroupRemoved(disk, m, t, g)
    BY DEF GroupRemoved
  <1>6. \A j : JoinOk(disk, u, j) <=> JoinOk(disk, m, j)
    BY <1>4 DEF JoinOk
  <1>7. \A x : MetricOk(disk, u, x) <=> MetricOk(disk, m, x)
    BY <1>1, <1>2, <1>3 DEF MetricOk
  <1>8. ASSUME NEW e PROVE EntitiesServed(disk, u, e) = EntitiesServed(disk, m, e)
    <2> DEFINE M(v, f) == {p \in f.maps : ~EndHidden(disk, v, p[1], p[2])}
               K(v, f) == [f EXCEPT !.maps = M(v, f)]
               S(v) == {K(v, g) : g \in {f \in e : f.maps = {} \/ M(v, f) # {}}}
    <2>1. \A f : M(u, f) = M(m, f)
      BY <1>4
    <2>2. EntitiesServed(disk, u, e) = S(u) /\ EntitiesServed(disk, m, e) = S(m)
      BY DEF EntitiesServed
    <2> HIDE DEF M
    <2>3. \A f : K(u, f) = K(m, f)
      BY <2>1
    <2> HIDE DEF K
    <2>4. S(u) = S(m)
      BY <2>1, <2>3
    <2> QED BY <2>2, <2>4
  <1>9. ASSUME NEW n PROVE AmbiguitiesServed(disk, u, n) = AmbiguitiesServed(disk, m, n)
    <2> DEFINE T(v, a) == {t \in a.tables : ~TableHidden(disk, v, t)}
               C(v, a) == {p \in a.columns : ~EndHidden(disk, v, p[1], p[2])}
               G(v, a) == {p \in a.groups : ~TableHidden(disk, v, p[1]) /\ ~GroupRemoved(disk, v, p[1], p[2])}
               K(v, a) == [a EXCEPT !.tables = T(v, a), !.columns = C(v, a), !.groups = G(v, a), !.metrics = a.metrics \ n]
               S(v) == {a \in disk.ambiguities : ~Anchored(a)}
                         \cup {K(v, a) : a \in {b \in disk.ambiguities : Anchored(b) /\ Anchored(K(v, b))}}
    <2>1. \A a : T(u, a) = T(m, a)
      BY <1>2
    <2>2. \A a : C(u, a) = C(m, a)
      BY <1>4
    <2>3. \A a : G(u, a) = G(m, a)
      BY <1>2, <1>5
    <2>4. AmbiguitiesServed(disk, u, n) = S(u) /\ AmbiguitiesServed(disk, m, n) = S(m)
      BY DEF AmbiguitiesServed
    <2> HIDE DEF T, C, G
    <2>5. \A a : K(u, a) = K(m, a)
      BY <2>1, <2>2, <2>3
    <2> HIDE DEF K
    <2>6. S(u) = S(m)
      BY <2>5
    <2> QED BY <2>4, <2>6
  <1> QED BY <1>1, <1>2, <1>3, <1>4, <1>5, <1>6, <1>7, <1>8, <1>9

LEMMA LoadIs ==
    ASSUME NEW Areas, NEW Tables, NEW Columns, NEW Groups, NEW Ids, NEW copies,
           NEW disk \in DocumentsOn(Areas, Tables, Columns, Groups, Ids, copies), NEW gone
    PROVE  \E metrics : ServedIs(disk, gone, Served(disk, gone), metrics)
  <1> DEFINE m == LoadAreas(disk, gone)
             u == DropUses(disk, m)
             metrics == WithoutRemovedBases(u.metrics, Names(disk.metrics) \ Names(u.metrics))
             ambiguities == AmbiguitiesServed(disk, m, Names(disk.metrics) \ Names(metrics))
             v == Served(disk, gone)
  <1>1. AreasAre(disk, gone, m)
    BY AreasLoaded
  <1>2. EntityRecords(m.entities)
    <2>1. m.entities \subseteq disk.entities
      BY <1>1 DEF AreasAre
    <2>2. disk.entities \in SUBSET [id : Ids, area : Areas \cup {Cross}, maps : SUBSET (Tables \X Columns)]
      BY DEF DocumentsOn
    <2> HIDE DEF m
    <2>3. \A e \in disk.entities : e = [id |-> e.id, area |-> e.area, maps |-> e.maps]
      BY <2>2
    <2> QED BY <2>1, <2>3 DEF EntityRecords
  <1>3. UsesAre(disk, m, u)
    <2> HIDE DEF m
    <2> QED BY <1>1, <1>2, UsesDropped
  <1>4. v = [u EXCEPT !.metrics = metrics, !.ambiguities = ambiguities]
    BY DEF Served
  <1> HIDE DEF v, metrics, ambiguities, u, m
  <1>5. PICK o, cs, ks, gs, gr, ke, fs, rs, js, es, xs, as :
            u = [order |-> o, copies |-> cs, columns |-> ks, groups |-> gs, grain |-> gr, keys |-> ke,
                 filters |-> fs, refs |-> rs, joins |-> js, entities |-> es, metrics |-> xs, ambiguities |-> as]
    BY <1>3 DEF UsesAre, Loaded
  <1>6. v = [order |-> o, copies |-> cs, columns |-> ks, groups |-> gs, grain |-> gr, keys |-> ke,
             filters |-> fs, refs |-> rs, joins |-> js, entities |-> es, metrics |-> metrics, ambiguities |-> ambiguities]
    BY <1>4, <1>5
  <1>7. /\ v.order = u.order /\ v.copies = u.copies /\ v.columns = u.columns /\ v.groups = u.groups
        /\ v.grain = u.grain /\ v.filters = u.filters /\ v.refs = u.refs /\ v.joins = u.joins
        /\ v.entities = u.entities /\ v.metrics = metrics /\ v.ambiguities = ambiguities
    BY <1>5, <1>6
  <1>8. v.copies = m.copies /\ v.columns = m.columns /\ v.groups = m.groups
    BY <1>3, <1>7 DEF UsesAre
  <1>9. /\ \A t : TableHidden(disk, v, t) <=> TableHidden(disk, m, t)
        /\ \A t, k : ColumnHidden(disk, v, t, k) <=> ColumnHidden(disk, m, t, k)
        /\ \A j : JoinOk(disk, v, j) <=> JoinOk(disk, m, j)
        /\ \A x : MetricOk(disk, v, x) <=> MetricOk(disk, m, x)
        /\ \A e : EntitiesServed(disk, v, e) = EntitiesServed(disk, m, e)
        /\ \A n : AmbiguitiesServed(disk, v, n) = AmbiguitiesServed(disk, m, n)
    BY <1>8, AlikeHide
  <1>10. /\ v.order = disk.order /\ v.copies \subseteq disk.copies
         /\ \A c \in v.copies : v.columns[c] \subseteq disk.columns[c]
         /\ \A c \in v.copies : v.groups[c] = Pruned(disk.groups[c], v.columns[c])
    <2>1. u.order = disk.order
      BY <1>3 DEF UsesAre, Loaded
    <2>2. /\ m.copies \subseteq disk.copies
          /\ \A c \in m.copies : m.columns[c] \subseteq disk.columns[c]
          /\ \A c \in m.copies : m.groups[c] = Pruned(disk.groups[c], m.columns[c])
      BY <1>1 DEF AreasAre, Loaded
    <2> QED BY <1>7, <1>8, <2>1, <2>2
  <1>11. \A c \in v.copies :
            /\ v.grain[c] = {k \in disk.grain[c] : ~ColumnHidden(disk, v, c[2], k)}
            /\ v.filters[c] = {f \in disk.filters[c] : \A k \in f : ~ColumnHidden(disk, v, c[2], k)}
    <2> SUFFICES ASSUME NEW c \in v.copies
                 PROVE  /\ v.grain[c] = {k \in disk.grain[c] : ~ColumnHidden(disk, v, c[2], k)}
                        /\ v.filters[c] = {f \in disk.filters[c] : \A k \in f : ~ColumnHidden(disk, v, c[2], k)}
      OBVIOUS
    <2>1. m.filters[c] = disk.filters[c] /\ m.grain[c] = disk.grain[c]
      BY <1>1, <1>8 DEF AreasAre
    <2>2. /\ u.grain[c] = {k \in m.grain[c] : ~ColumnHidden(disk, m, c[2], k)}
          /\ u.filters[c] = {f \in m.filters[c] : \A k \in f : ~ColumnHidden(disk, m, c[2], k)}
      BY <1>3, <1>8 DEF UsesAre
    <2> QED BY <1>7, <1>9, <2>1, <2>2
  <1>12. /\ m.refs = {Narrowed(r, m.copies, m.groups) : r \in disk.refs}
         /\ u.refs = {r \in m.refs : ~TableHidden(disk, m, r.table)}
    BY <1>1, <1>3 DEF AreasAre, UsesAre
  <1>13. v.refs = {r \in {Narrowed(s, v.copies, v.groups) : s \in disk.refs} : ~TableHidden(disk, v, r.table)}
    BY <1>7, <1>8, <1>9, <1>12
  <1>14. /\ m.joins = {j \in disk.joins :
                /\ JoinItem(j) \notin gone
                /\ j.area # Cross => {<<j.area, j.from>>, <<j.area, j.to>>} \subseteq m.copies}
         /\ u.joins = {j \in m.joins : JoinOk(disk, m, j)}
    BY <1>1, <1>3 DEF AreasAre, UsesAre, AreaJoins
  <1>15. v.joins = {j \in disk.joins :
                    /\ JoinItem(j) \notin gone
                    /\ j.area # Cross => {<<j.area, j.from>>, <<j.area, j.to>>} \subseteq v.copies
                    /\ JoinOk(disk, v, j)}
    BY <1>7, <1>8, <1>9, <1>14
  <1>16. v.entities = EntitiesServed(disk, v, {e \in disk.entities : EntityItem(e) \notin gone})
    <2>1. /\ m.entities = {e \in disk.entities : EntityItem(e) \notin gone}
          /\ u.entities = EntitiesServed(disk, m, m.entities)
      BY <1>1, <1>3 DEF AreasAre, UsesAre
    <2> QED BY <1>7, <1>9, <2>1
  <1>17. u.metrics = {x \in disk.metrics : MetricItem(x) \notin gone /\ MetricOk(disk, v, x)}
    <2>1. /\ m.metrics = {x \in disk.metrics : MetricItem(x) \notin gone}
          /\ u.metrics = {x \in m.metrics : MetricOk(disk, m, x)}
      BY <1>1, <1>3 DEF AreasAre, UsesAre
    <2> QED BY <1>9, <2>1
  <1>18. v.metrics = WithoutRemovedBases(u.metrics, Names(disk.metrics) \ Names(u.metrics))
    BY <1>7 DEF metrics
  <1>19. v.ambiguities = AmbiguitiesServed(disk, v, Names(disk.metrics) \ Names(v.metrics))
    BY <1>7, <1>9 DEF ambiguities
  <1>a. Loaded(disk, v)
    <2>1. v = [order |-> v.order, copies |-> v.copies, columns |-> v.columns, groups |-> v.groups,
               grain |-> v.grain, keys |-> v.keys, filters |-> v.filters, refs |-> v.refs, joins |-> v.joins,
               entities |-> v.entities, metrics |-> v.metrics, ambiguities |-> v.ambiguities]
      BY <1>6
    <2> QED BY <1>10, <2>1 DEF Loaded
  <1>20. ServedIs(disk, gone, v, u.metrics)
    BY <1>a, <1>10, <1>11, <1>13, <1>15, <1>16, <1>17, <1>18, <1>19 DEF ServedIs
  <1> QED BY <1>20 DEF v

\* The metrics served are the largest set that stand.
LEMMA MetricsServed ==
    ASSUME NEW disk, IsFiniteSet(disk.metrics), NEW gone, NEW m, NEW metrics,
           ServedIs(disk, gone, m, metrics), EvenlyListed(disk)
    PROVE  /\ m.metrics = UNION {s \in SUBSET {x \in disk.metrics : MetricItem(x) \notin gone} :
                                    \A x \in s : MetricStands(disk, m, x, Names(s))}
           /\ m.metrics \subseteq disk.metrics
           /\ Closed(Names(disk.metrics), m.metrics)
  <1> DEFINE unrejected == {x \in disk.metrics : MetricItem(x) \notin gone}
             has(x) == /\ \A t \in x.tables : Of(disk.copies, t) # {} => Of(m.copies, t) # {}
                       /\ \A k \in x.reads : (\E t \in x.tables : k \in Serves(disk, t))
                                                => \E t \in x.tables : k \in Serves(m, t)
  <1>1. /\ m.copies \subseteq disk.copies
        /\ \A c \in m.copies : m.columns[c] \subseteq disk.columns[c]
        /\ metrics = {x \in disk.metrics : MetricItem(x) \notin gone /\ MetricOk(disk, m, x)}
        /\ m.metrics = WithoutRemovedBases(metrics, Names(disk.metrics) \ Names(metrics))
    BY DEF ServedIs, Loaded
  <1>2. metrics = {x \in unrejected : has(x)}
    <2>1. ASSUME NEW x \in disk.metrics PROVE MetricOk(disk, m, x) <=> has(x)
      <3>1. \A t \in x.tables : \A k \in x.reads : EvenColumn(disk, t, k)
        BY DEF EvenlyListed
      <3> QED BY <1>1, <3>1, MetricOkIs
    <2> HIDE DEF has
    <2> QED BY <1>1, <2>1
  <1>3. IsFiniteSet(metrics) /\ metrics \in SUBSET disk.metrics
    <2>1. metrics \in SUBSET disk.metrics
      BY <1>1
    <2> QED BY <2>1, FS_Subset
  <1>4. /\ m.metrics \subseteq metrics /\ Closed(Names(disk.metrics), m.metrics)
        /\ \A s \in SUBSET metrics : Closed(Names(disk.metrics), s) => s \subseteq m.metrics
    <2>1. IsLargest(disk.metrics, metrics, WithoutRemovedBases(metrics, Names(disk.metrics) \ Names(metrics)))
      <3> HIDE DEF unrejected, has
      <3> QED BY <1>3, LeftIsLargest
    <2> QED BY <1>1, <2>1 DEF IsLargest
  <1>5. \A s : (\A x \in s : MetricStands(disk, m, x, Names(s)))
                 <=> (\A x \in s : has(x)) /\ Closed(Names(disk.metrics), s)
    BY DEF MetricStands, Closed
  <1> HIDE DEF has
  <1>6. m.metrics \in SUBSET unrejected /\ \A x \in m.metrics : MetricStands(disk, m, x, Names(m.metrics))
    BY <1>2, <1>4, <1>5
  <1>7. ASSUME NEW s \in SUBSET unrejected, \A x \in s : MetricStands(disk, m, x, Names(s))
        PROVE  s \subseteq m.metrics
    <2>1. s \in SUBSET metrics /\ Closed(Names(disk.metrics), s)
      BY <1>2, <1>5, <1>7
    <2> QED BY <1>4, <2>1
  <1> QED BY <1>1, <1>4, <1>3, <1>6, <1>7

\* The entities served, and those they are served of.
EntitiesMatch(disk, m, entities, served) ==
    /\ \A e \in served :
          \E f \in entities : /\ e.id = f.id /\ e.area = f.area
                              /\ e.maps = {p \in f.maps : ~EndHidden(disk, m, p[1], p[2])}
                              /\ f.maps = {} \/ e.maps # {}
    /\ \A f \in entities : f.maps = {} \/ (\E p \in f.maps : ~EndHidden(disk, m, p[1], p[2]))
          => \E e \in served : e.id = f.id

LEMMA EntitiesAre ==
    ASSUME NEW disk, NEW m, NEW entities, EntityRecords(entities)
    PROVE  EntitiesMatch(disk, m, entities, EntitiesServed(disk, m, entities))
  <1> DEFINE M(f) == {p \in f.maps : ~EndHidden(disk, m, p[1], p[2])}
             K(f) == [f EXCEPT !.maps = M(f)]
  <1>1. EntitiesServed(disk, m, entities) = {K(g) : g \in {f \in entities : f.maps = {} \/ M(f) # {}}}
    BY DEF EntitiesServed
  <1>2. ASSUME NEW f \in entities PROVE K(f).id = f.id /\ K(f).area = f.area /\ K(f).maps = M(f)
    <2> HIDE DEF M
    <2>1. PICK i, a, p : f = [id |-> i, area |-> a, maps |-> p]
      BY DEF EntityRecords
    <2> QED BY <2>1
  <1>3. \A f : M(f) # {} <=> \E p \in f.maps : ~EndHidden(disk, m, p[1], p[2])
    OBVIOUS
  <1> HIDE DEF K
  <1>4. ASSUME NEW e \in EntitiesServed(disk, m, entities)
        PROVE  \E f \in entities : e.id = f.id /\ e.area = f.area /\ e.maps = M(f) /\ (f.maps = {} \/ e.maps # {})
    <2> HIDE DEF M
    <2>1. PICK f \in entities : e = K(f) /\ (f.maps = {} \/ M(f) # {})
      BY <1>1, <1>4
    <2> QED BY <1>2, <2>1
  <1>5. ASSUME NEW f \in entities, f.maps = {} \/ M(f) # {}
        PROVE  \E e \in EntitiesServed(disk, m, entities) : e.id = f.id
    <2> HIDE DEF M
    <2>1. K(f) \in EntitiesServed(disk, m, entities)
      BY <1>1, <1>5
    <2> QED BY <1>2, <2>1
  <1> QED BY <1>3, <1>4, <1>5 DEF EntitiesMatch

LEMMA WhatStandsIsServed ==
    ASSUME NEW Areas, NEW Tables, NEW Columns, NEW Groups, NEW Ids, NEW copies,
           NEW disk \in DocumentsOn(Areas, Tables, Columns, Groups, Ids, copies),
           IsFiniteSet(disk.metrics), EvenlyListed(disk), NEW gone
    PROVE  ServesWhatStands(disk, gone)
  <1> DEFINE m == Served(disk, gone)
             left == {e \in disk.entities : EntityItem(e) \notin gone}
  <1>1. PICK metrics : ServedIs(disk, gone, m, metrics)
    BY LoadIs
  <1> HIDE DEF m
  <1>2. /\ m.copies \subseteq disk.copies
        /\ \A c \in m.copies : m.columns[c] \subseteq disk.columns[c]
        /\ \A c \in m.copies : m.grain[c] = {k \in disk.grain[c] : ~ColumnHidden(disk, m, c[2], k)}
        /\ m.joins = {j \in disk.joins :
                    /\ JoinItem(j) \notin gone
                    /\ j.area # Cross => {<<j.area, j.from>>, <<j.area, j.to>>} \subseteq m.copies
                    /\ JoinOk(disk, m, j)}
        /\ m.entities = EntitiesServed(disk, m, left)
    BY <1>1 DEF ServedIs, Loaded
  <1>3. m.metrics = UNION {s \in SUBSET {x \in disk.metrics : MetricItem(x) \notin gone} :
                                    \A x \in s : MetricStands(disk, m, x, Names(s))}
    BY <1>1, MetricsServed
  <1>4. \A t, k : EvenColumn(disk, t, k) => (EndHidden(disk, m, t, k) <=> Unserved(disk, m, t, k))
    BY <1>2, HiddenIsUnserved
  <1>5. m.joins = {j \in disk.joins :
                /\ JoinItem(j) \notin gone
                /\ j.area # Cross => {<<j.area, j.from>>, <<j.area, j.to>>} \subseteq m.copies
                /\ \A p \in j.pairs : ~Unserved(disk, m, j.from, p[1]) /\ ~Unserved(disk, m, j.to, p[2])}
    <2>1. \A j \in disk.joins : JoinOk(disk, m, j)
            <=> \A p \in j.pairs : ~Unserved(disk, m, j.from, p[1]) /\ ~Unserved(disk, m, j.to, p[2])
      BY <1>4 DEF JoinOk, EvenlyListed
    <2> QED BY <1>2, <2>1
  <1>6. EntityRecords(left) /\ left \subseteq disk.entities
    <2>1. disk.entities \in SUBSET [id : Ids, area : Areas \cup {Cross}, maps : SUBSET (Tables \X Columns)]
      BY DEF DocumentsOn
    <2>2. \A e \in disk.entities : e = [id |-> e.id, area |-> e.area, maps |-> e.maps]
      BY <2>1
    <2> QED BY <2>2 DEF EntityRecords
  <1>7. \A f \in left : \A p \in f.maps : EndHidden(disk, m, p[1], p[2]) <=> Unserved(disk, m, p[1], p[2])
    BY <1>4, <1>6 DEF EvenlyListed
  <1> HIDE DEF left
  <1>8. /\ \A e \in m.entities :
                \E f \in left : /\ e.id = f.id /\ e.area = f.area
                                /\ e.maps = {p \in f.maps : ~EndHidden(disk, m, p[1], p[2])}
                                /\ f.maps = {} \/ e.maps # {}
        /\ \A f \in left : f.maps = {} \/ (\E p \in f.maps : ~EndHidden(disk, m, p[1], p[2]))
                => \E e \in m.entities : e.id = f.id
    <2>1. EntitiesMatch(disk, m, left, m.entities)
      BY <1>2, <1>6, EntitiesAre
    <2> QED BY <2>1 DEF EntitiesMatch
  <1>9. \A e \in m.entities : \A p \in e.maps : ~Unserved(disk, m, p[1], p[2])
    BY <1>7, <1>8
  <1>10. {e.id : e \in m.entities}
           = {e.id : e \in {f \in left : f.maps = {} \/ \E p \in f.maps : ~Unserved(disk, m, p[1], p[2])}}
    <2> DEFINE stand == {f \in left : f.maps = {} \/ \E p \in f.maps : ~Unserved(disk, m, p[1], p[2])}
    <2>1. ASSUME NEW e \in m.entities PROVE \E f \in stand : f.id = e.id
      <3>1. PICK f \in left : /\ e.id = f.id
                              /\ e.maps = {p \in f.maps : ~EndHidden(disk, m, p[1], p[2])}
                              /\ f.maps = {} \/ e.maps # {}
        BY <1>8
      <3>2. f \in stand
        BY <1>7, <3>1
      <3> QED BY <3>1, <3>2
    <2>2. ASSUME NEW f \in stand PROVE \E e \in m.entities : e.id = f.id
      BY <1>7, <1>8
    <2> HIDE DEF stand
    <2>3. {e.id : e \in m.entities} = {e.id : e \in stand}
      BY <2>1, <2>2
    <2> QED BY <2>3 DEF stand
  <1>11. {e.id : e \in m.entities} = {e.id : e \in {f \in disk.entities :
                EntityItem(f) \notin gone /\ (f.maps = {} \/ \E p \in f.maps : ~Unserved(disk, m, p[1], p[2]))}}
    <2>1. {f \in left : f.maps = {} \/ \E p \in f.maps : ~Unserved(disk, m, p[1], p[2])}
            = {f \in disk.entities :
                EntityItem(f) \notin gone /\ (f.maps = {} \/ \E p \in f.maps : ~Unserved(disk, m, p[1], p[2]))}
      BY DEF left
    <2> QED BY <1>10, <2>1
  <1>12. \A c \in m.copies : \A k \in m.grain[c] : ~Unserved(disk, m, c[2], k)
    <2> SUFFICES ASSUME NEW c \in m.copies, NEW k \in m.grain[c] PROVE ~Unserved(disk, m, c[2], k)
      OBVIOUS
    <2>1. c \in disk.copies /\ k \in disk.grain[c] /\ ~ColumnHidden(disk, m, c[2], k)
      BY <1>2
    <2>2. ~TableHidden(disk, m, c[2])
      BY DEF TableHidden, Of
    <2>3. EvenColumn(disk, c[2], k)
      BY <2>1 DEF EvenlyListed
    <2> QED BY <1>4, <2>1, <2>2, <2>3 DEF EndHidden
  <1> QED BY <1>3, <1>5, <1>9, <1>11, <1>12 DEF ServesWhatStands, m

\* What a metric reaches, by number of steps, in a model.
BasesOf(m, names) == UNION {y.bases : y \in {z \in m.metrics : z.name \in names}}
Reaches(m, x, reach) ==
    /\ reach[0] = x.bases
    /\ \A i \in 1..Cardinality(m.metrics) : reach[i] = reach[i - 1] \cup BasesOf(m, reach[i - 1])
Expanded(m, x, all) == all \subseteq Names(m.metrics) /\ x.name \notin all

LEMMA ReachIs ==
    ASSUME NEW m, IsFiniteSet(m.metrics), NEW x
    PROVE  \E reach : /\ Reaches(m, x, reach)
                      /\ Expands(m, x) = Expanded(m, x, reach[Cardinality(m.metrics)])
  <1> DEFINE N == Cardinality(m.metrics)
             V == SUBSET (x.bases \cup UNION {y.bases : y \in m.metrics})
             step == [s \in V |-> s \cup BasesOf(m, s)]
             Is(f) == f = [n \in 0..N |-> IF n = 0 THEN x.bases
                              ELSE f[n - 1] \cup UNION {y.bases : y \in {z \in m.metrics : z.name \in f[n - 1]}}]
  <1>1. N \in Nat /\ N = Cardinality(m.metrics)
    BY FS_CardinalityType
  <1>2. step \in [V -> V] /\ x.bases \in V
    BY DEF BasesOf
  <1>3. \E f : Is(f)
    <2> HIDE DEF N, V, step
    <2>1. PICK f \in [0..N -> V] : Iterates(x.bases, step, N, f)
      BY <1>1, <1>2, IterExists
    <2>2. f \in [0..N -> V] /\ f = [n \in 0..N |-> IF n = 0 THEN x.bases ELSE step[f[n - 1]]]
      BY <2>1 DEF Iterates
    <2>3. \A n \in 0..N : f[n] = IF n = 0 THEN x.bases
                              ELSE f[n - 1] \cup UNION {y.bases : y \in {z \in m.metrics : z.name \in f[n - 1]}}
      <3> SUFFICES ASSUME NEW n \in 0..N, n # 0
                   PROVE  f[n] = f[n - 1] \cup UNION {y.bases : y \in {z \in m.metrics : z.name \in f[n - 1]}}
        BY <2>2
      <3>1. n - 1 \in 0..N
        BY <1>1
      <3>2. f[n - 1] \in V /\ f[n] = step[f[n - 1]]
        BY <2>2, <3>1
      <3>3. step[f[n - 1]] = f[n - 1] \cup BasesOf(m, f[n - 1])
        BY <3>2 DEF step
      <3> QED BY <3>2, <3>3 DEF BasesOf
    <2>4. DOMAIN f = 0..N /\ f = [n \in DOMAIN f |-> f[n]]
      BY <2>2
    <2>5. Is(f)
      BY <2>3, <2>4
    <2> QED BY <2>5
  <1> DEFINE reach == CHOOSE f : Is(f)
  <1>4. Is(reach)
    BY <1>3
  <1>5. Expands(m, x) = Expanded(m, x, reach[N])
    BY DEF Expands, Expanded
  <1> HIDE DEF reach, N
  <1>6. reach[0] = x.bases
    BY <1>1, <1>4
  <1>7. ASSUME NEW i \in 1..N PROVE reach[i] = reach[i - 1] \cup BasesOf(m, reach[i - 1])
    <2>1. i \in 0..N /\ i # 0
      BY <1>1
    <2> QED BY <1>4, <2>1 DEF BasesOf
  <1>8. Reaches(m, x, reach)
    BY <1>1, <1>6, <1>7 DEF Reaches
  <1> QED BY <1>1, <1>5, <1>8

\* Metrics that have their bases expand where those they were taken from did.
LEMMA ClosedExpands ==
    ASSUME NEW disk, IsFiniteSet(disk.metrics), NEW m, m.metrics \subseteq disk.metrics,
           Closed(Names(disk.metrics), m.metrics), NEW x \in m.metrics, Expands(disk, x)
    PROVE  Expands(m, x)
  <1> DEFINE N == Cardinality(disk.metrics)
             M == Cardinality(m.metrics)
  <1>1. IsFiniteSet(m.metrics) /\ N \in Nat /\ M \in Nat /\ M <= N
    BY FS_Subset, FS_CardinalityType
  <1>2. PICK d : Reaches(disk, x, d) /\ Expands(disk, x) = Expanded(disk, x, d[N])
    BY ReachIs
  <1>3. PICK r : Reaches(m, x, r) /\ Expands(m, x) = Expanded(m, x, r[M])
    BY <1>1, ReachIs
  <1> HIDE DEF N, M
  <1>4. /\ d[0] = x.bases /\ \A i \in 1..N : d[i] = d[i - 1] \cup BasesOf(disk, d[i - 1])
        /\ r[0] = x.bases /\ \A i \in 1..M : r[i] = r[i - 1] \cup BasesOf(m, r[i - 1])
    BY <1>2, <1>3 DEF Reaches, N, M
  <1>5. d[N] \subseteq Names(disk.metrics) /\ x.name \notin d[N]
    BY <1>2 DEF Expanded
  <1> DEFINE A == {i \in Nat : i <= N => d[N - i] \subseteq d[N]}
             B == {i \in Nat : i <= M => r[i] \subseteq d[i] /\ r[i] \subseteq Names(m.metrics)}
  <1>6. A = Nat
    <2>1. 0 \in A
      BY <1>1
    <2>2. ASSUME NEW i \in A PROVE i + 1 \in A
      <3> SUFFICES ASSUME i + 1 <= N PROVE d[N - (i + 1)] \subseteq d[N]
        OBVIOUS
      <3>1. i <= N /\ N - i \in 1..N /\ (N - i) - 1 = N - (i + 1)
        BY <1>1
      <3>2. d[N - i] \subseteq d[N]
        BY <3>1
      <3>3. d[N - (i + 1)] \subseteq d[N - i]
        BY <1>4, <3>1
      <3> QED BY <3>2, <3>3
    <2>3. A \subseteq Nat
      OBVIOUS
    <2> HIDE DEF A
    <2> QED BY <2>1, <2>2, <2>3, SetInduction
  <1>7. \A i \in 0..N : d[i] \subseteq d[N]
    <2> SUFFICES ASSUME NEW i \in 0..N PROVE d[i] \subseteq d[N]
      OBVIOUS
    <2>1. N - i \in A /\ N - i <= N /\ N - (N - i) = i
      <3> HIDE DEF A
      <3> QED BY <1>1, <1>6
    <2> QED BY <2>1
  <1>8. \A y \in m.metrics, i \in 0..N : y.bases \subseteq d[i] => y.bases \subseteq Names(m.metrics)
    BY <1>5, <1>7 DEF Closed
  <1>9. B = Nat
    <2>1. 0 \in B
      <3>1. r[0] = d[0] /\ x.bases = d[0] /\ 0 \in 0..N
        BY <1>1, <1>4
      <3>2. r[0] \subseteq Names(m.metrics)
        BY <1>8, <3>1
      <3> QED BY <3>1, <3>2
    <2>2. ASSUME NEW i \in B PROVE i + 1 \in B
      <3> SUFFICES ASSUME i + 1 <= M PROVE r[i + 1] \subseteq d[i + 1] /\ r[i + 1] \subseteq Names(m.metrics)
        OBVIOUS
      <3>1. i \in Nat /\ i <= M /\ i + 1 \in 1..M /\ i + 1 \in 1..N /\ (i + 1) - 1 = i /\ i + 1 \in 0..N
        BY <1>1
      <3>2. r[i] \subseteq d[i] /\ r[i] \subseteq Names(m.metrics)
        BY <3>1
      <3>3. r[i + 1] = r[i] \cup BasesOf(m, r[i]) /\ d[i + 1] = d[i] \cup BasesOf(disk, d[i])
        BY <1>4, <3>1
      <3>4. ASSUME NEW y \in m.metrics, y.name \in r[i]
            PROVE  y.bases \subseteq d[i + 1] /\ y.bases \subseteq Names(m.metrics)
        <4>1. y.bases \subseteq BasesOf(disk, d[i])
          BY <3>2, <3>4 DEF BasesOf
        <4>2. y.bases \subseteq d[i + 1]
          BY <3>3, <4>1
        <4> QED BY <1>8, <3>1, <4>2
      <3>5. BasesOf(m, r[i]) \subseteq d[i + 1] /\ BasesOf(m, r[i]) \subseteq Names(m.metrics)
        BY <3>4 DEF BasesOf
      <3> QED BY <3>2, <3>3, <3>5
    <2>3. B \subseteq Nat
      OBVIOUS
    <2> HIDE DEF B
    <2> QED BY <2>1, <2>2, <2>3, SetInduction
  <1>10. r[M] \subseteq d[M] /\ r[M] \subseteq Names(m.metrics)
    <2>1. M \in B /\ M <= M
      <3> HIDE DEF B
      <3> QED BY <1>1, <1>9
    <2> QED BY <2>1
  <1>11. M \in 0..N
    BY <1>1
  <1>12. Expanded(m, x, r[M])
    BY <1>5, <1>7, <1>10, <1>11 DEF Expanded
  <1> QED BY <1>3, <1>12

Twice(disk) == {c[2] : c \in {d \in disk.copies : Cardinality(Of(disk.copies, d[2])) > 1}}

\* A table that no two areas define has one copy.
LEMMA OneCopy ==
    ASSUME NEW disk, IsFiniteSet(disk.copies), NEW c \in disk.copies, NEW d \in disk.copies,
           c[2] = d[2], c[2] \notin Twice(disk)
    PROVE  c = d
  <1> SUFFICES ASSUME c # d PROVE FALSE
    OBVIOUS
  <1> DEFINE same == Of(disk.copies, c[2])
  <1>1. c \in same /\ d \in same /\ same \subseteq disk.copies
    BY DEF Of
  <1> HIDE DEF same
  <1>2. IsFiniteSet(same) /\ {c, d} \subseteq same
    BY <1>1, FS_Subset
  <1>3. Cardinality({c, d}) = 2
    <2>1. IsFiniteSet({c}) /\ Cardinality({c}) = 1
      BY FS_Singleton
    <2>2. Cardinality({c} \cup {d}) = Cardinality({c}) + 1
      BY <2>1, FS_AddElement
    <2>3. {c, d} = {c} \cup {d}
      OBVIOUS
    <2> QED BY <2>1, <2>2, <2>3
  <1>4. Cardinality({c, d}) <= Cardinality(same)
    BY <1>2, FS_Subset
  <1>5. Cardinality(same) \in Nat
    BY <1>2, FS_CardinalityType
  <1>6. Cardinality(Of(disk.copies, c[2])) > 1
    BY <1>3, <1>4, <1>5 DEF same
  <1> QED BY <1>6 DEF Twice

\* Of a table with one copy, what is not hidden is served.
LEMMA ShownIsServed ==
    ASSUME NEW disk, NEW m, m.copies \subseteq disk.copies,
           NEW c \in m.copies, \A d \in m.copies : d[2] = c[2] => d = c,
           NEW k \in disk.columns[c], ~ColumnHidden(disk, m, c[2], k)
    PROVE  k \in m.columns[c]
  <1> SUFFICES ASSUME k \notin m.columns[c] PROVE FALSE
    OBVIOUS
  <1>1. c \in Of(m.copies, c[2])
    BY DEF Of
  <1>2. k \in Serves(m, c[2])
    BY <1>1 DEF ColumnHidden
  <1>3. PICK d \in Of(m.copies, c[2]) : k \in m.columns[d]
    BY <1>2 DEF Serves
  <1>4. d = c
    BY <1>3 DEF Of
  <1> QED BY <1>3, <1>4

\* The rules that read each copy by itself.
LEMMA CopiesStayValid ==
    ASSUME NEW disk, IsFiniteSet(disk.copies), NEW gone, NEW m, NEW metrics, ServedIs(disk, gone, m, metrics),
           EntityRecords(disk.entities), Twice(disk) = {}, ValidCopies(disk)
    PROVE  ValidCopies(m)
  <1>1. /\ m.copies \subseteq disk.copies
        /\ \A c \in m.copies : m.columns[c] \subseteq disk.columns[c]
        /\ \A c \in m.copies : m.groups[c] = Pruned(disk.groups[c], m.columns[c])
        /\ \A c \in m.copies : m.filters[c] = {f \in disk.filters[c] : \A k \in f : ~ColumnHidden(disk, m, c[2], k)}
        /\ m.entities = EntitiesServed(disk, m, {e \in disk.entities : EntityItem(e) \notin gone})
    BY DEF ServedIs, Loaded
  <1>2. \A c, d \in disk.copies : c[2] = d[2] => c = d
    BY OneCopy
  <1>3. ASSUME NEW c \in m.copies, NEW k \in disk.columns[c], ~ColumnHidden(disk, m, c[2], k)
        PROVE  k \in m.columns[c]
    <2>1. \A d \in m.copies : d[2] = c[2] => d = c
      BY <1>1, <1>2
    <2> QED BY <1>1, <1>3, <2>1, ShownIsServed
  <1>4. GroupsMissingColumn(m) = {}
    <2>1. ASSUME NEW c \in m.copies, NEW g \in DOMAIN m.groups[c] PROVE m.groups[c][g] \subseteq m.columns[c]
      <3>1. m.groups[c] = Pruned(disk.groups[c], m.columns[c])
        BY <1>1
      <3>2. m.groups[c][g] = disk.groups[c][g] \cap m.columns[c]
        BY <2>1, <3>1 DEF Pruned
      <3> QED BY <3>2
    <2> QED BY <2>1 DEF GroupsMissingColumn
  <1>5. FiltersUnknownColumn(m) = {}
    <2>1. ASSUME NEW c \in m.copies, NEW f \in m.filters[c], NEW k \in f PROVE k \in m.columns[c]
      <3>1. f \in disk.filters[c] /\ ~ColumnHidden(disk, m, c[2], k)
        BY <1>1
      <3>2. UNION disk.filters[c] \subseteq disk.columns[c]
        BY <1>1 DEF ValidCopies, FiltersUnknownColumn
      <3> QED BY <1>3, <3>1, <3>2
    <2> QED BY <2>1 DEF FiltersUnknownColumn
  <1>6. MappingsUnknownColumn(m) = {}
    <2> DEFINE left == {e \in disk.entities : EntityItem(e) \notin gone}
    <2>1. EntitiesMatch(disk, m, left, m.entities)
      <3>1. EntityRecords(left)
        BY DEF EntityRecords
      <3> HIDE DEF left
      <3>2. EntitiesMatch(disk, m, left, EntitiesServed(disk, m, left))
        BY <3>1, EntitiesAre
      <3> QED BY <1>1, <3>2 DEF left
    <2>2. ASSUME NEW e \in m.entities, NEW p \in e.maps, <<e.area, p[1]>> \in m.copies
          PROVE  p[2] \in m.columns[<<e.area, p[1]>>]
      <3>1. PICK f \in left : e.area = f.area /\ e.maps = {q \in f.maps : ~EndHidden(disk, m, q[1], q[2])}
        <4> HIDE DEF left
        <4> QED BY <2>1 DEF EntitiesMatch
      <3>2. p \in f.maps /\ ~EndHidden(disk, m, p[1], p[2])
        BY <2>2, <3>1
      <3> DEFINE c == <<e.area, p[1]>>
      <3>3. c \in disk.copies /\ c[2] = p[1] /\ c = <<f.area, p[1]>>
        BY <1>1, <2>2, <3>1
      <3>4. p[2] \in disk.columns[c]
        <4>1. MappingsUnknownColumn(disk) = {} /\ f \in disk.entities
          BY DEF ValidCopies
        <4> HIDE DEF c
        <4> QED BY <3>2, <3>3, <4>1 DEF MappingsUnknownColumn
      <3>5. ~ColumnHidden(disk, m, c[2], p[2])
        BY <3>2, <3>3 DEF EndHidden
      <3> HIDE DEF c
      <3>6. c \in m.copies
        BY <2>2 DEF c
      <3>7. p[2] \in m.columns[c]
        BY <1>3, <3>4, <3>5, <3>6
      <3> QED BY <3>7 DEF c
    <2> QED BY <2>2 DEF MappingsUnknownColumn
  <1> QED BY <1>4, <1>5, <1>6 DEF ValidCopies

\* The views of tables an area defines for itself, and no other does.
Own(disk, m) == {r \in m.refs : <<r.area, r.table>> \in m.copies /\ r.table \notin Twice(disk)}

RefRecords(refs) == \A r \in refs : r = [area |-> r.area, table |-> r.table, shows |-> r.shows]

\* A view kept shows groups that are there.
LEMMA ViewsStayValid ==
    ASSUME NEW disk, IsFiniteSet(disk.copies), NEW gone, NEW m, NEW metrics, ServedIs(disk, gone, m, metrics),
           RefRecords(disk.refs), \A c \in disk.copies : disk.order[c[1]] \in Int,
           NEW n, n.refs = Own(disk, m), n.copies = m.copies, n.groups = m.groups, n.order = m.order
    PROVE  OrphanTableRefs(n) = {} /\ UnknownColumnGroups(n) = {}
  <1>1. /\ m.copies \subseteq disk.copies /\ m.order = disk.order
        /\ m.refs = {r \in {Narrowed(s, m.copies, m.groups) : s \in disk.refs} : ~TableHidden(disk, m, r.table)}
    <2>1. Loaded(disk, m) /\ m.order = disk.order
      BY DEF ServedIs, Loaded
    <2> QED BY <2>1 DEF ServedIs, Loaded
  <1>2. ASSUME NEW r \in n.refs
        PROVE  /\ Of(n.copies, r.table) = {<<r.area, r.table>>}
               /\ r.shows \subseteq DOMAIN n.groups[<<r.area, r.table>>]
    <2> DEFINE own == <<r.area, r.table>>
    <2>1. own \in m.copies /\ r.table \notin Twice(disk) /\ r \in m.refs /\ own[2] = r.table
      BY <1>2 DEF Own
    <2>2. ASSUME NEW c \in Of(n.copies, r.table) PROVE c = own
      <3>1. c \in disk.copies /\ own \in disk.copies /\ c[2] = own[2] /\ c[2] \notin Twice(disk)
        BY <1>1, <2>1 DEF Of
      <3> HIDE DEF own
      <3> QED BY <3>1, OneCopy
    <2>3. own \in Of(n.copies, r.table)
      BY <2>1 DEF Of
    <2>4. PICK s \in disk.refs : r = Narrowed(s, m.copies, m.groups)
      BY <1>1, <2>1
    <2>5. r.shows \subseteq DOMAIN m.groups[own]
      <3> DEFINE its == <<s.area, s.table>>
                 kept == s.shows \cap DOMAIN m.groups[its]
                 shows == IF kept = DOMAIN m.groups[its] THEN {} ELSE kept
      <3>1. CASE s.shows = {} \/ its \notin m.copies
        <4>1. r = s
          BY <2>4, <3>1 DEF Narrowed
        <4> QED BY <2>1, <3>1, <4>1
      <3>2. CASE ~(s.shows = {} \/ its \notin m.copies)
        <4>1. r = [s EXCEPT !.shows = shows]
          BY <2>4, <3>2 DEF Narrowed
        <4> HIDE DEF shows
        <4>2. PICK a, t, g : s = [area |-> a, table |-> t, shows |-> g]
          BY DEF RefRecords
        <4>3. r.shows = shows /\ r.area = s.area /\ r.table = s.table
          BY <4>1, <4>2
        <4> QED BY <4>3 DEF shows
      <3> QED BY <3>1, <3>2
    <2> QED BY <2>2, <2>3, <2>5
  <1>3. OrphanTableRefs(n) = {}
    BY <1>2 DEF OrphanTableRefs
  <1>4. ASSUME NEW r \in n.refs PROVE r.shows \subseteq DOMAIN n.groups[OrgTable(n, r.table)]
    <2> DEFINE own == <<r.area, r.table>>
    <2>1. own \in disk.copies /\ Of(n.copies, r.table) = {own} /\ r.shows \subseteq DOMAIN n.groups[own]
      <3>1. own \in m.copies
        BY <1>4 DEF Own
      <3> QED BY <1>1, <1>2, <3>1
    <2> HIDE DEF own
    <2>2. n.order[own[1]] <= n.order[own[1]]
      BY <1>1, <2>1
    <2>3. OrgTable(n, r.table) = own
      BY <2>1, <2>2 DEF OrgTable
    <2> QED BY <2>1, <2>3
  <1> QED BY <1>3, <1>4 DEF UnknownColumnGroups

AmbiguityRecords(as) ==
    \A a \in as : a = [id |-> a.id, tables |-> a.tables, columns |-> a.columns, groups |-> a.groups,
                       metrics |-> a.metrics]

\* What an ambiguity served is anchored to: what one on disk was, and is served.
AnchorsAre(disk, m, removed, a) ==
    \/ a.tables = {} /\ a.columns = {} /\ a.groups = {} /\ a.metrics = {}
    \/ \E b \in disk.ambiguities :
          /\ a.tables = {t \in b.tables : ~TableHidden(disk, m, t)}
          /\ a.columns = {p \in b.columns : ~EndHidden(disk, m, p[1], p[2])}
          /\ a.groups = {p \in b.groups : ~TableHidden(disk, m, p[1]) /\ ~GroupRemoved(disk, m, p[1], p[2])}
          /\ a.metrics = b.metrics \ removed

LEMMA AmbiguitiesAre ==
    ASSUME NEW disk, NEW m, NEW removed, AmbiguityRecords(disk.ambiguities),
           NEW a \in AmbiguitiesServed(disk, m, removed)
    PROVE  AnchorsAre(disk, m, removed, a)
  <1> DEFINE T(b) == {t \in b.tables : ~TableHidden(disk, m, t)}
             C(b) == {p \in b.columns : ~EndHidden(disk, m, p[1], p[2])}
             G(b) == {p \in b.groups : ~TableHidden(disk, m, p[1]) /\ ~GroupRemoved(disk, m, p[1], p[2])}
             X(b) == b.metrics \ removed
             K(b) == [b EXCEPT !.tables = T(b), !.columns = C(b), !.groups = G(b), !.metrics = X(b)]
  <1>1. AmbiguitiesServed(disk, m, removed)
          = {b \in disk.ambiguities : ~Anchored(b)}
            \cup {K(b) : b \in {d \in disk.ambiguities : Anchored(d) /\ Anchored(K(d))}}
    BY DEF AmbiguitiesServed
  <1>2. ASSUME NEW b \in disk.ambiguities
        PROVE  K(b).tables = T(b) /\ K(b).columns = C(b) /\ K(b).groups = G(b) /\ K(b).metrics = X(b)
    <2> HIDE DEF T, C, G, X
    <2>1. PICK i, t, c, g, x : b = [id |-> i, tables |-> t, columns |-> c, groups |-> g, metrics |-> x]
      BY DEF AmbiguityRecords
    <2> QED BY <2>1
  <1> HIDE DEF K
  <1>3. CASE a \in disk.ambiguities /\ ~Anchored(a)
    BY <1>3 DEF Anchored, AnchorsAre
  <1>4. CASE \E b \in disk.ambiguities : a = K(b)
    BY <1>2, <1>4 DEF AnchorsAre
  <1> QED BY <1>1, <1>3, <1>4

\* An ambiguity is anchored to what is served.
LEMMA AnchorsStayValid ==
    ASSUME NEW disk, NEW gone, NEW m, NEW metrics, ServedIs(disk, gone, m, metrics), EvenlyListed(disk),
           AmbiguityRecords(disk.ambiguities), AmbiguityUnknownAnchors(disk) = {},
           NEW n, n.copies = m.copies, n.columns = m.columns, n.groups = m.groups, n.metrics = m.metrics,
           n.ambiguities = m.ambiguities
    PROVE  AmbiguityUnknownAnchors(n) = {}
  <1> DEFINE removed == Names(disk.metrics) \ Names(m.metrics)
  <1>1. /\ m.copies \subseteq disk.copies
        /\ \A c \in m.copies : m.columns[c] \subseteq disk.columns[c]
        /\ m.ambiguities = AmbiguitiesServed(disk, m, removed)
    BY DEF ServedIs, Loaded
  <1>2. \A t : Serves(n, t) = Serves(m, t)
    BY DEF Serves
  <1>3. ASSUME NEW a \in n.ambiguities
        PROVE  /\ \A t \in a.tables : Of(n.copies, t) # {}
               /\ \A p \in a.columns : p[2] \in Serves(n, p[1])
               /\ \A p \in a.groups : \E c \in Of(n.copies, p[1]) : p[2] \in DOMAIN n.groups[c]
               /\ a.metrics \subseteq Names(n.metrics)
    <2>1. AnchorsAre(disk, m, removed, a)
      <3> HIDE DEF removed
      <3> QED BY <1>1, <1>3, AmbiguitiesAre
    <2>2. CASE a.tables = {} /\ a.columns = {} /\ a.groups = {} /\ a.metrics = {}
      BY <2>2
    <2>3. CASE \E b \in disk.ambiguities :
                 /\ a.tables = {t \in b.tables : ~TableHidden(disk, m, t)}
                 /\ a.columns = {p \in b.columns : ~EndHidden(disk, m, p[1], p[2])}
                 /\ a.groups = {p \in b.groups : ~TableHidden(disk, m, p[1]) /\ ~GroupRemoved(disk, m, p[1], p[2])}
                 /\ a.metrics = b.metrics \ removed
      <3>1. PICK b \in disk.ambiguities :
                 /\ a.tables = {t \in b.tables : ~TableHidden(disk, m, t)}
                 /\ a.columns = {p \in b.columns : ~EndHidden(disk, m, p[1], p[2])}
                 /\ a.groups = {p \in b.groups : ~TableHidden(disk, m, p[1]) /\ ~GroupRemoved(disk, m, p[1], p[2])}
                 /\ a.metrics = b.metrics \ removed
        BY <2>3
      <3>2. /\ \A t \in b.tables : Of(disk.copies, t) # {}
            /\ \A p \in b.columns : p[2] \in Serves(disk, p[1])
            /\ \A p \in b.groups : \E c \in Of(disk.copies, p[1]) : p[2] \in DOMAIN disk.groups[c]
            /\ b.metrics \subseteq Names(disk.metrics)
        BY DEF AmbiguityUnknownAnchors
      <3>3. \A t \in a.tables : Of(n.copies, t) # {}
        BY <3>1, <3>2 DEF TableHidden
      <3>4. ASSUME NEW p \in a.columns PROVE p[2] \in Serves(n, p[1])
        <4>1. p \in b.columns /\ ~EndHidden(disk, m, p[1], p[2])
          BY <3>1
        <4>2. EvenColumn(disk, p[1], p[2])
          BY <4>1 DEF EvenlyListed
        <4>3. ~Unserved(disk, m, p[1], p[2])
          BY <1>1, <4>1, <4>2, HiddenIsUnserved
        <4> QED BY <1>2, <3>2, <4>1, <4>3 DEF Unserved
      <3>5. ASSUME NEW p \in a.groups PROVE \E c \in Of(n.copies, p[1]) : p[2] \in DOMAIN n.groups[c]
        <4>1. p \in b.groups /\ ~TableHidden(disk, m, p[1]) /\ ~GroupRemoved(disk, m, p[1], p[2])
          BY <3>1
        <4>2. PICK c \in Of(disk.copies, p[1]) : p[2] \in DOMAIN disk.groups[c]
          BY <3>2, <4>1
        <4>3. PICK d \in Of(m.copies, p[1]) : TRUE
          BY <4>1, <4>2 DEF TableHidden
        <4>4. d \in Of(disk.copies, p[1])
          BY <1>1, <4>3 DEF Of
        <4>5. p[2] \in DOMAIN disk.groups[d]
          BY <4>1, <4>2, <4>4 DEF EvenlyListed, EvenGroup
        <4> QED BY <4>1, <4>3, <4>5 DEF GroupRemoved
      <3>6. a.metrics \subseteq Names(n.metrics)
        BY <3>1, <3>2
      <3> QED BY <3>3, <3>4, <3>5, <3>6
    <2> QED BY <2>1, <2>2, <2>3 DEF AnchorsAre
  <1>4. ASSUME NEW a \in n.ambiguities, NEW p \in a.groups PROVE ~\A c \in Of(n.copies, p[1]) : p[2] \notin DOMAIN n.groups[c]
    BY <1>3, <1>4
  <1> QED BY <1>3, <1>4 DEF AmbiguityUnknownAnchors

LEMMA RulesStayValid ==
    ASSUME NEW Areas, NEW Tables, NEW Columns, NEW Groups, NEW Ids, NEW copies \in SUBSET (Areas \X Tables),
           IsFiniteSet(copies),
           NEW disk \in DocumentsOn(Areas, Tables, Columns, Groups, Ids, copies),
           IsFiniteSet(disk.metrics), EvenlyListed(disk), NEW gone
    PROVE  ServedStaysValid(disk, gone)
  <1> DEFINE m == Served(disk, gone)
             n == [m EXCEPT !.refs = Own(disk, m)]
  <1>1. PICK metrics : ServedIs(disk, gone, m, metrics)
    BY LoadIs
  <1>2. /\ IsFiniteSet(disk.copies) /\ \A c \in disk.copies : disk.order[c[1]] \in Int
        /\ EntityRecords(disk.entities) /\ RefRecords(disk.refs) /\ AmbiguityRecords(disk.ambiguities)
    <2>1. disk.copies = copies /\ disk.order \in [Areas -> Int]
      BY DEF DocumentsOn
    <2>2. \A c \in copies : c[1] \in Areas
      OBVIOUS
    <2>3. disk.entities \in SUBSET [id : Ids, area : Areas \cup {Cross}, maps : SUBSET (Tables \X Columns)]
      BY DEF DocumentsOn
    <2>4. disk.refs \in SUBSET [area : Areas, table : Tables, shows : SUBSET Groups]
      BY DEF DocumentsOn
    <2>5. disk.ambiguities \in SUBSET [id : Ids, tables : SUBSET Tables, columns : SUBSET (Tables \X Columns),
                           groups : SUBSET (Tables \X Groups), metrics : SUBSET Ids]
      BY DEF DocumentsOn
    <2>6. EntityRecords(disk.entities)
      BY <2>3 DEF EntityRecords
    <2>7. RefRecords(disk.refs)
      BY <2>4 DEF RefRecords
    <2>8. AmbiguityRecords(disk.ambiguities)
      BY <2>5 DEF AmbiguityRecords
    <2> QED BY <2>1, <2>2, <2>6, <2>7, <2>8
  <1> HIDE DEF m
  <1>3. /\ n.order = m.order /\ n.copies = m.copies /\ n.columns = m.columns /\ n.groups = m.groups
        /\ n.metrics = m.metrics /\ n.ambiguities = m.ambiguities /\ n.refs = Own(disk, m)
    <2>1. PICK o, cs, ks, gs, gr, ke, fs, rs, js, es, xs, as :
            m = [order |-> o, copies |-> cs, columns |-> ks, groups |-> gs, grain |-> gr, keys |-> ke,
                 filters |-> fs, refs |-> rs, joins |-> js, entities |-> es, metrics |-> xs, ambiguities |-> as]
      BY <1>1 DEF ServedIs, Loaded
    <2> QED BY <2>1
  <1> HIDE DEF n
  <1>4. ASSUME Valid(disk) PROVE ValidAcross(n)
    <2>1. OrphanTableRefs(n) = {} /\ UnknownColumnGroups(n) = {}
      BY <1>1, <1>2, <1>3, ViewsStayValid
    <2>2. AmbiguityUnknownAnchors(n) = {}
      <3>1. AmbiguityUnknownAnchors(disk) = {}
        BY <1>4 DEF Valid, ValidAcross
      <3> QED BY <1>1, <1>2, <1>3, <3>1, AnchorsStayValid
    <2>3. DerivedUnexpandable(n) = {}
      <3>1. m.metrics \subseteq disk.metrics /\ Closed(Names(disk.metrics), m.metrics)
        BY <1>1, MetricsServed
      <3>2. \A x \in disk.metrics : Expands(disk, x)
        BY <1>4 DEF Valid, ValidAcross, DerivedUnexpandable
      <3>3. \A x \in n.metrics : Expands(n, x)
        BY <1>3, <3>1, <3>2, ClosedExpands
      <3> QED BY <3>3 DEF DerivedUnexpandable
    <2> QED BY <2>1, <2>2, <2>3 DEF ValidAcross
  <1>5. ASSUME Valid(disk), Twice(disk) = {} PROVE ValidCopies(m)
    BY <1>1, <1>2, <1>5, CopiesStayValid DEF Valid
  <1>6. ServedStaysValid(disk, gone) <=> (Valid(disk) => ValidAcross(n) /\ (Twice(disk) = {} => ValidCopies(m)))
    BY DEF ServedStaysValid, n, m, Own, Twice
  <1> QED BY <1>4, <1>5, <1>6

\* What a load serves, whatever is rejected or missing.
THEOREM LoadsServeWhatStands == ServedSpec => []LoadServesWhatStands
  <1>1. ServedInit => onDisk \in Documents
    BY DEF ServedInit
  <1>2. onDisk \in Documents /\ [LoseItem]_<<onDisk, lostItems>> => (onDisk \in Documents)'
    BY DEF LoseItem
  <1>3. ASSUME onDisk \in Documents PROVE LoadServesWhatStands
    <2> DEFINE Areas == DOMAIN onDisk.order
               v == Vocabulary
    <2>1. /\ onDisk.copies \in SUBSET (Areas \X v.tables)
          /\ IsFiniteSet(onDisk.copies) /\ IsFiniteSet(onDisk.metrics) /\ EvenlyListed(onDisk)
          /\ onDisk \in DocumentsOn(Areas, v.tables, v.columns, v.groups, v.ids, onDisk.copies)
      BY <1>3, DocumentsAssumption
    <2> HIDE DEF Areas, v
    <2>2. ServesWhatStands(onDisk, lostItems)
      BY <2>1, WhatStandsIsServed
    <2>3. ServedStaysValid(onDisk, lostItems)
      BY <2>1, RulesStayValid
    <2> QED BY <2>2, <2>3 DEF LoadServesWhatStands
  <1> QED BY <1>1, <1>2, <1>3, PTL DEF ServedSpec

(***************************************************************************)
(* What a schema reply says.  The joins: an entry written short leaves     *)
(* from the only table of the reply so called, so its slot reads back as   *)
(* its two ends, and an entry turned round as the edges it tells turned    *)
(* round.  The rest: each of the filters a table, a column, a metric or an *)
(* ambiguity goes through lets pass what the scope names.                  *)
(***************************************************************************)

\* Looking a name up gives tables so called, and every table it may mean.
LEMMA FoundAreCalled ==
    ASSUME NEW m, NEW q, NEW area, NEW t \in FindTables(m, q, area)
    PROVE  t \in m.tables /\ t.name = q.name /\ area \in {Unnamed, t.area}
  BY DEF FindTables

LEMMA NameFindsItsTable ==
    ASSUME NEW m, AsLoaded(m), NEW t \in m.tables, NEW q, q.name = t.name,
           q.schema \in {Unnamed, t.schema} \/ t.schema = Unnamed
    PROVE  t \in FindTables(m, q, Unnamed)
  <1> DEFINE called == {u \in m.tables : u.name = q.name /\ Unnamed \in {Unnamed, u.area}}
             exact == {u \in called : u.schema = q.schema}
             unique == Cardinality(called) = 1 /\ \A u \in called : u.schema = Unnamed
  <1>1. FindTables(m, q, Unnamed) = IF q.schema = Unnamed \/ (exact = {} /\ unique) THEN called ELSE exact
    BY DEF FindTables
  <1>2. t \in called
    OBVIOUS
  <1>3. CASE q.schema = Unnamed
    BY <1>1, <1>2, <1>3
  <1>4. CASE q.schema # Unnamed /\ q.schema = t.schema
    <2>1. t \in exact
      BY <1>2, <1>4
    <2> QED BY <1>1, <1>4, <2>1
  <1>5. CASE q.schema # Unnamed /\ t.schema = Unnamed
    <2>0. \A u \in m.tables : (Id(t) = Id(u) => t = u) /\ (t.schema = Unnamed => u.schema = Unnamed)
      BY DEF AsLoaded
    <2>1. ASSUME NEW u \in called PROVE u.schema = Unnamed /\ u = t
      <3>1. u \in m.tables /\ u.name = t.name
        OBVIOUS
      <3>2. u.schema = Unnamed
        BY <1>5, <2>0, <3>1
      <3>3. Id(t) = Id(u)
        BY <1>5, <3>1, <3>2 DEF Id
      <3> QED BY <2>0, <3>1, <3>2, <3>3
    <2>2. called = {t}
      BY <1>2, <2>1
    <2>3. Cardinality(called) = 1
      BY <2>2, FS_Singleton
    <2>4. exact = {}
      BY <1>5, <2>1
    <2> QED BY <1>1, <1>2, <2>1, <2>3, <2>4
  <1> QED BY <1>3, <1>4, <1>5

\* The name a reply gives a table finds it, and it alone is called that.
LEMMA DisplayNameIs ==
    ASSUME NEW m, AsLoaded(m), NEW t \in m.tables
    PROVE  /\ DisplayName(m, t).name = t.name
           /\ DisplayName(m, t).schema \in {Unnamed, t.schema}
           /\ t \in FindTables(m, DisplayName(m, t), Unnamed)
           /\ \A u \in m.tables : DisplayName(m, u) = DisplayName(m, t) => u = t
  <1>1. \A u \in m.tables : DisplayName(m, u) = IF \E v \in m.tables : v.name = u.name /\ v.schema # u.schema
                                                 THEN [schema |-> u.schema, name |-> u.name]
                                                 ELSE [schema |-> Unnamed, name |-> u.name]
    BY DEF DisplayName, Id
  <1>2. DisplayName(m, t).name = t.name /\ DisplayName(m, t).schema \in {Unnamed, t.schema}
    BY <1>1
  <1>3. t \in FindTables(m, DisplayName(m, t), Unnamed)
    BY <1>2, NameFindsItsTable
  <1>4. ASSUME NEW u \in m.tables, DisplayName(m, u) = DisplayName(m, t) PROVE u = t
    <2>1. u.name = t.name
      BY <1>1, <1>4
    <2>2. Id(u) = Id(t) => u = t
      BY DEF AsLoaded
    <2>3. CASE u.schema = t.schema
      BY <2>1, <2>2, <2>3 DEF Id
    <2>4. CASE u.schema # t.schema
      BY <1>1, <1>4, <2>1, <2>4
    <2> QED BY <2>3, <2>4
  <1> QED BY <1>2, <1>3, <1>4

\* What the names of a call come to: tables, and names of none.
Found(m, asked) == UNION {FindTables(m, q, Unnamed) : q \in ToSet(asked)}
Missed(m, asked) == {q \in ToSet(asked) : FindTables(m, q, Unnamed) = {}}
ShownAs(m, asked) ==
    [n \in {DisplayName(m, t) : t \in Found(m, asked)} \cup Missed(m, asked) |->
        IF n \in Missed(m, asked) THEN Unnamed
        ELSE (CHOOSE t \in Found(m, asked) : DisplayName(m, t) = n).schema]
Returned(m, asked) ==
    {Id(t) : t \in Found(m, asked)} \cup {[schema |-> q.schema, name |-> q.name] : q \in Missed(m, asked)}

LEMMA FoundIs ==
    ASSUME NEW m, NEW asked
    PROVE  /\ \A t \in Found(m, asked) :
                 t \in m.tables /\ \E q \in ToSet(asked) : t \in FindTables(m, q, Unnamed) /\ q.name = t.name
           /\ \A q \in ToSet(asked) : \/ q \in Missed(m, asked)
                                      \/ FindTables(m, q, Unnamed) # {} /\ FindTables(m, q, Unnamed) \subseteq Found(m, asked)
  BY FoundAreCalled DEF Found, Missed

\* A table no missed name could mean.
LEMMA MissedMeansNone ==
    ASSUME NEW m, AsLoaded(m), NEW asked, NEW q \in Missed(m, asked), NEW t \in m.tables, q.name = t.name
    PROVE  t.schema # Unnamed /\ q.schema \notin {Unnamed, t.schema}
  BY NameFindsItsTable DEF Missed

\* The names a reply gives its tables, with the schemas it gives them.
LEMMA ShownIs ==
    ASSUME NEW m, AsLoaded(m), NEW asked
    PROVE  LET shown == ShownAs(m, asked)
           IN  /\ DOMAIN shown = {DisplayName(m, t) : t \in Found(m, asked)} \cup Missed(m, asked)
               /\ \A q \in Missed(m, asked) : shown[q] = Unnamed
               /\ \A t \in Found(m, asked) : shown[DisplayName(m, t)] = t.schema
  <1> DEFINE shown == ShownAs(m, asked)
  <1>1. DOMAIN shown = {DisplayName(m, t) : t \in Found(m, asked)} \cup Missed(m, asked)
    BY DEF ShownAs
  <1>2. \A q \in Missed(m, asked) : shown[q] = Unnamed
    BY DEF ShownAs
  <1>3. ASSUME NEW t \in Found(m, asked) PROVE shown[DisplayName(m, t)] = t.schema
    <2>1. t \in m.tables /\ Found(m, asked) \subseteq m.tables
      BY FoundIs
    <2>2. DisplayName(m, t) \notin Missed(m, asked)
      BY <2>1, DisplayNameIs DEF Missed
    <2>3. (CHOOSE u \in Found(m, asked) : DisplayName(m, u) = DisplayName(m, t)) = t
      BY <2>1, DisplayNameIs
    <2> QED BY <2>2, <2>3 DEF ShownAs
  <1> QED BY <1>1, <1>2, <1>3

LEMMA ReturnedIs ==
    ASSUME NEW m, AsLoaded(m), NEW asked
    PROVE  LET shown == ShownAs(m, asked)
           IN  {[schema |-> IF n.schema = Unnamed THEN shown[n] ELSE n.schema, name |-> n.name] : n \in DOMAIN shown}
                 = Returned(m, asked)
  <1> DEFINE shown == ShownAs(m, asked)
             to(n) == [schema |-> IF n.schema = Unnamed THEN shown[n] ELSE n.schema, name |-> n.name]
  <1>1. \A q \in Missed(m, asked) : q \in DOMAIN shown /\ to(q) = [schema |-> q.schema, name |-> q.name]
    <2>1. \A q \in Missed(m, asked) : q \in DOMAIN shown /\ shown[q] = Unnamed
      BY ShownIs
    <2> HIDE DEF shown
    <2> QED BY <2>1
  <1>2. ASSUME NEW t \in Found(m, asked) PROVE DisplayName(m, t) \in DOMAIN shown /\ to(DisplayName(m, t)) = Id(t)
    <2>1. t \in m.tables
      BY FoundIs
    <2>2. DisplayName(m, t).name = t.name /\ DisplayName(m, t).schema \in {Unnamed, t.schema}
      BY <2>1, DisplayNameIs
    <2>3. shown[DisplayName(m, t)] = t.schema /\ DisplayName(m, t) \in DOMAIN shown
      BY ShownIs
    <2> HIDE DEF shown
    <2> QED BY <2>2, <2>3 DEF Id
  <1>3. DOMAIN shown = {DisplayName(m, t) : t \in Found(m, asked)} \cup Missed(m, asked)
    BY ShownIs
  <1> HIDE DEF to, shown
  <1>4. {to(n) : n \in DOMAIN shown} = Returned(m, asked)
    BY <1>1, <1>2, <1>3 DEF Returned
  <1> QED BY <1>4 DEF to, shown

\* The names of what is returned are the names asked for.
LEMMA NamesReturned ==
    ASSUME NEW m, NEW asked
    PROVE  NamesOf(Returned(m, asked)) = NamesOf(ToSet(asked))
  <1>1. ASSUME NEW i \in Returned(m, asked) PROVE i.name \in NamesOf(ToSet(asked))
    <2>1. CASE \E t \in Found(m, asked) : i = Id(t)
      BY <2>1, FoundIs DEF NamesOf, Id
    <2>2. CASE \E q \in Missed(m, asked) : i = [schema |-> q.schema, name |-> q.name]
      BY <2>2 DEF Missed, NamesOf
    <2> QED BY <2>1, <2>2 DEF Returned
  <1>2. ASSUME NEW q \in ToSet(asked) PROVE q.name \in NamesOf(Returned(m, asked))
    <2>1. CASE q \in Missed(m, asked)
      <3>1. [schema |-> q.schema, name |-> q.name] \in Returned(m, asked)
        BY <2>1 DEF Returned
      <3> QED BY <3>1 DEF NamesOf
    <2>2. CASE q \notin Missed(m, asked)
      <3>1. PICK t : t \in FindTables(m, q, Unnamed) /\ t \in Found(m, asked)
        BY <2>2, FoundIs
      <3>2. t.name = q.name
        BY <3>1, FoundAreCalled
      <3>3. Id(t) \in Returned(m, asked) /\ Id(t).name = q.name
        BY <3>1, <3>2 DEF Returned, Id
      <3> QED BY <3>3 DEF NamesOf
    <2> QED BY <2>1, <2>2
  <1> QED BY <1>1, <1>2 DEF NamesOf

LEMMA FiniteImage ==
    ASSUME NEW f, IsFiniteSet(DOMAIN f)
    PROVE  IsFiniteSet({f[x] : x \in DOMAIN f})
  <1> DEFINE T == {f[x] : x \in DOMAIN f}
             g == [x \in DOMAIN f |-> f[x]]
  <1>1. g \in Surjection(DOMAIN f, T)
    BY DEF Surjection
  <1> HIDE DEF g
  <1> QED BY <1>1, FS_Surjection

\* A table whose name is returned, where nothing else so called is: what the
\* compact form of a join asks of the table at hand.
LEMMA OnlyTableSoCalled ==
    ASSUME NEW m, AsLoaded(m), NEW asked, IsFiniteSet(ToSet(asked)), NEW t \in m.tables,
           t.name \in NamesOf(Returned(m, asked)), t.schema = Unnamed \/ Id(t) \in Returned(m, asked),
           ~(Cardinality({i \in Returned(m, asked) : i.name = t.name}) > 1)
    PROVE  /\ t \in Found(m, asked)
           /\ \A u \in Found(m, asked) : u.name = t.name => u = t
           /\ \A q \in Missed(m, asked) : q.name # t.name
  <1> DEFINE R == Returned(m, asked)
             same == {i \in R : i.name = t.name}
             bare(q) == [schema |-> q.schema, name |-> q.name]
  <1>1. \A u \in m.tables : (Id(t) = Id(u) => t = u) /\ (t.schema = Unnamed => u.schema = Unnamed)
    BY DEF AsLoaded
  <1>2. \A u \in Found(m, asked) : u \in m.tables /\ Id(u) \in R /\ Id(u).name = u.name
    BY FoundIs DEF Returned, Id
  <1>3. \A q \in Missed(m, asked) : bare(q) \in R /\ q \in ToSet(asked)
    BY DEF Returned, Missed
  <1>4. IsFiniteSet(same)
    <2> DEFINE f == [u \in m.tables |-> Id(u)]
               g == [q \in ToSet(asked) |-> bare(q)]
               X == {f[u] : u \in DOMAIN f}
               Y == {g[q] : q \in DOMAIN g}
    <2>1. IsFiniteSet(m.tables)
      BY DEF AsLoaded
    <2>2. DOMAIN f = m.tables /\ DOMAIN g = ToSet(asked)
      OBVIOUS
    <2>3. same \subseteq X \cup Y
      BY FoundIs DEF Returned, Missed
    <2> HIDE DEF f, g
    <2>4. IsFiniteSet(X) /\ IsFiniteSet(Y)
      BY <2>1, <2>2, FiniteImage
    <2>5. IsFiniteSet(X \cup Y)
      BY <2>4, FS_Union
    <2> QED BY <2>3, <2>5, FS_Subset
  <1>5. \A i, j \in same : i = j
    <2>1. Cardinality(same) \in Nat
      BY <1>4, FS_CardinalityType
    <2>2. Cardinality(same) = 0 \/ Cardinality(same) = 1
      BY <2>1
    <2>3. same = {} \/ \E i : same = {i}
      BY <1>4, <2>2, FS_EmptySet, FS_Singleton
    <2> QED BY <2>3
  <1>6. CASE t.schema = Unnamed
    <2>1. \A q \in Missed(m, asked) : q.name # t.name
      BY <1>6, MissedMeansNone
    <2>2. \A u \in Found(m, asked) : u.name = t.name => u = t
      BY <1>1, <1>2, <1>6 DEF Id
    <2>3. PICK i \in R : i.name = t.name
      BY DEF NamesOf
    <2>4. i \notin {bare(q) : q \in Missed(m, asked)}
      BY <2>1, <2>3
    <2>5. PICK u \in Found(m, asked) : i = Id(u)
      BY <2>4 DEF Returned
    <2> QED BY <1>2, <2>1, <2>2, <2>3, <2>5
  <1>7. CASE t.schema # Unnamed
    <2>1. Id(t) \in R /\ Id(t) \in same
      BY <1>7 DEF Id
    <2>2. \A q \in Missed(m, asked) : bare(q) # Id(t)
      BY MissedMeansNone DEF Id
    <2>3. PICK u \in Found(m, asked) : Id(t) = Id(u)
      BY <2>1, <2>2 DEF Returned
    <2>4. t \in Found(m, asked)
      BY <1>1, <1>2, <2>3
    <2>5. ASSUME NEW v \in Found(m, asked), v.name = t.name PROVE v = t
      BY <1>1, <1>2, <1>5, <2>1, <2>5
    <2>6. ASSUME NEW q \in Missed(m, asked), q.name = t.name PROVE FALSE
      <3>1. bare(q) \in same
        BY <1>3, <2>6
      <3> QED BY <1>5, <2>1, <2>2, <3>1
    <2> QED BY <2>4, <2>5, <2>6
  <1> QED BY <1>6, <1>7

\* The edges sent are edges of the model with an end that was asked for, and
\* every edge of a table found is sent.
LEMMA SentIs ==
    ASSUME NEW m, AsLoaded(m), NEW asked
    PROVE  /\ \A s \in EdgesSent(m, asked) :
                 s.edge \in m.edges /\ {s.edge.from.name, s.edge.to.name} \cap NamesOf(ToSet(asked)) # {}
           /\ \A e \in m.edges : {e.from, e.to} \cap {Id(t) : t \in Found(m, asked)} # {}
                 => \E s \in EdgesSent(m, asked) : s.edge = e
  <1> DEFINE readers(k, e) == {a \in Owners(m, asked[k]) : e \in RelationshipsAmong(m, asked, a)}
             sent == {e \in m.edges : \E k \in DOMAIN asked : readers(k, e) # {}}
             group(e) == readers(Min({k \in DOMAIN asked : readers(k, e) # {}}), e)
             first(e) == IF Unnamed \in group(e) THEN Unnamed
                         ELSE m.areas[Min({i \in DOMAIN m.areas : m.areas[i] \in group(e)})]
             full(e) == BothEndsRequested(m, asked, first(e), e)
  <1>0. EdgesSent(m, asked) = {[edge |-> e, full |-> full(e)] : e \in sent}
    BY DEF EdgesSent
  <1> HIDE DEF full, sent
  <1>1. \A s \in EdgesSent(m, asked) : s.edge \in sent
    BY <1>0
  <1>2. ASSUME NEW e \in sent PROVE \E s \in EdgesSent(m, asked) : s.edge = e
    <2>1. [edge |-> e, full |-> full(e)] \in EdgesSent(m, asked)
      BY <1>0
    <2> QED BY <2>1
  <1> USE DEF sent
  <1>3. ASSUME NEW e \in sent PROVE {e.from.name, e.to.name} \cap NamesOf(ToSet(asked)) # {}
    BY <1>3 DEF RelationshipsAmong, NamesOf, InGroup
  <1>4. ASSUME NEW e \in m.edges, NEW t \in Found(m, asked), Id(t) \in {e.from, e.to} PROVE e \in sent
    <2>1. PICK q \in ToSet(asked) : t \in FindTables(m, q, Unnamed) /\ q.name = t.name
      BY FoundIs
    <2>2. PICK k \in DOMAIN asked : asked[k] = q
      BY DEF ToSet
    <2>3. t.area \in Owners(m, q) /\ t \in m.tables
      BY <2>1, FoundAreCalled DEF Owners
    <2>4. e.area \in {Unnamed, t.area}
      <3>1. PICK u \in m.tables, v \in m.tables :
                /\ e.from = Id(u) /\ e.to = Id(v) /\ (e.area # Unnamed => u.area = e.area /\ v.area = e.area)
        BY DEF AsLoaded
      <3>2. t = u \/ t = v
        BY <1>4, <2>3, <3>1 DEF AsLoaded
      <3> QED BY <3>1, <3>2
    <2>5. q \in InGroup(m, asked, t.area)
      BY <2>3 DEF InGroup
    <2>6. t.name \in NamesOf(InGroup(m, asked, t.area)) /\ t.name \in {e.from.name, e.to.name}
      BY <1>4, <2>1, <2>5 DEF NamesOf, Id
    <2>7. e \in RelationshipsAmong(m, asked, t.area)
      BY <2>4, <2>6 DEF RelationshipsAmong
    <2> QED BY <2>2, <2>3, <2>7
  <1> QED BY <1>1, <1>2, <1>3, <1>4

\* An entry that tells an edge, with its key.
Tells(r, e) ==
    /\ r.from = e.from /\ r.to = e.to /\ r.card = e.card /\ r.join = e.join
    /\ r.cond = e.cond /\ r.split = e.split /\ e.key \in r.keys
IsEntry(r) == r = [from |-> r.from, to |-> r.to, card |-> r.card, join |-> r.join,
                   cond |-> r.cond, split |-> r.split, keys |-> r.keys, full |-> r.full]

\* Merging tells every edge, and each key of an entry is of an edge it tells.
LEMMA MergedTells ==
    ASSUME NEW sent
    PROVE  /\ \A r \in MergeLeanPairs(sent) :
                 IsEntry(r) /\ r.keys # {} /\ \A k \in r.keys : \E s \in sent : Tells(r, s.edge) /\ s.edge.key = k
           /\ \A s \in sent : \E r \in MergeLeanPairs(sent) : Tells(r, s.edge)
  <1> DEFINE alike(s) == {u \in sent : Entry(u.edge, {}, u.full) = Entry(s.edge, {}, s.full)}
             whole(s) == s.full \/ s.edge.cond \/ s.edge.split
             keys(s) == IF whole(s) THEN {s.edge.key} ELSE {u.edge.key : u \in alike(s)}
  <1>1. MergeLeanPairs(sent) = {Entry(s.edge, keys(s), s.full) : s \in sent}
    BY DEF MergeLeanPairs
  <1>2. \A s \in sent : s.edge.key \in keys(s)
    OBVIOUS
  <1>3. ASSUME NEW s \in sent, NEW k \in keys(s)
        PROVE  \E u \in sent : Tells(Entry(s.edge, keys(s), s.full), u.edge) /\ u.edge.key = k
    <2>1. CASE k = s.edge.key
      BY <2>1, <1>2 DEF Tells, Entry
    <2>2. CASE k # s.edge.key
      <3>1. PICK u \in alike(s) : u.edge.key = k
        BY <2>2
      <3>2. Entry(u.edge, {}, u.full) = Entry(s.edge, {}, s.full)
        BY <3>1
      <3>3. /\ u.edge.from = s.edge.from /\ u.edge.to = s.edge.to /\ u.edge.card = s.edge.card
            /\ u.edge.join = s.edge.join /\ u.edge.cond = s.edge.cond /\ u.edge.split = s.edge.split
        BY <3>2 DEF Entry
      <3> HIDE DEF keys
      <3>4. Tells(Entry(s.edge, keys(s), s.full), u.edge)
        BY <3>1, <3>3 DEF Tells, Entry
      <3> QED BY <3>1, <3>4
    <2> QED BY <2>1, <2>2
  <1> HIDE DEF keys
  <1>4. ASSUME NEW r \in MergeLeanPairs(sent)
        PROVE  IsEntry(r) /\ r.keys # {} /\ \A k \in r.keys : \E s \in sent : Tells(r, s.edge) /\ s.edge.key = k
    <2>1. PICK s \in sent : r = Entry(s.edge, keys(s), s.full)
      BY <1>1
    <2>2. r.keys = keys(s) /\ IsEntry(r)
      BY <2>1 DEF Entry, IsEntry
    <2> QED BY <1>2, <1>3, <2>1, <2>2
  <1>5. ASSUME NEW s \in sent PROVE \E r \in MergeLeanPairs(sent) : Tells(r, s.edge)
    <2>1. Tells(Entry(s.edge, keys(s), s.full), s.edge)
      BY <1>2 DEF Tells, Entry
    <2> QED BY <1>1, <2>1
  <1> QED BY <1>4, <1>5

\* The join an edge declares, and the one an entry is read as.
JoinOfEdge(e) == JoinOf(e.from, e.to, e.key, e.card, e.join, e.cond, e.split)
AsRead(o, k) == JoinOf(o.from, o.to, k, o.card, o.join, o.cond, FALSE)

LEMMA TurnedIs ==
    ASSUME NEW from, NEW to, NEW key, NEW card, NEW join, NEW cond \in BOOLEAN, NEW split
    PROVE  Turned(JoinOf(from, to, key, card, join, cond, split))
             = JoinOf(to, from, IF cond THEN key ELSE Reversed(key), Flip(card), FlipJoin(join), cond, split)
  <1> DEFINE j == JoinOf(from, to, key, card, join, cond, split)
             back == IF cond THEN key ELSE Reversed(key)
  <1>1. PICK c, l, k : c = Flip(card) /\ l = FlipJoin(join) /\ k = back
    OBVIOUS
  <1>2. /\ j = [from |-> from, to |-> to, key |-> key, card |-> card, join |-> join, cond |-> cond, split |-> split]
        /\ j.from = from /\ j.to = to /\ j.key = key /\ j.card = card /\ j.join = join /\ j.cond = cond
    BY DEF JoinOf
  <1> HIDE DEF j
  <1>3. Turned(j) = [j EXCEPT !.from = to, !.to = from, !.card = c, !.join = l, !.key = k]
    <2>1. Flip(j.card) = c /\ FlipJoin(j.join) = l /\ (IF j.cond THEN j.key ELSE Reversed(j.key)) = k
      BY <1>1, <1>2
    <2>2. Turned(j) = [j EXCEPT !.from = j.to, !.to = j.from, !.card = Flip(j.card), !.join = FlipJoin(j.join),
                                !.key = IF j.cond THEN j.key ELSE Reversed(j.key)]
      <3> HIDE DEF back
      <3>1. DOMAIN j = {"from", "to", "key", "card", "join", "cond", "split"}
        BY <1>2
      <3> QED BY <1>2, <3>1 DEF Turned
    <2> QED BY <1>2, <2>1, <2>2
  <1>4. [j EXCEPT !.from = to, !.to = from, !.card = c, !.join = l, !.key = k]
          = [from |-> to, to |-> from, key |-> k, card |-> c, join |-> l, cond |-> cond, split |-> split]
    <2> DEFINE J == [j EXCEPT !.from = to, !.to = from, !.card = c, !.join = l, !.key = k]
    <2>1. DOMAIN j = {"from", "to", "key", "card", "join", "cond", "split"} /\ j.split = split
      BY <1>2
    <2>2. J = [x \in DOMAIN j |-> J[x]]
      OBVIOUS
    <2>3. /\ J.from = to /\ J.to = from /\ J.key = k /\ J.card = c /\ J.join = l /\ J.cond = cond /\ J.split = split
          /\ DOMAIN J = DOMAIN j
      BY <1>2, <2>1
    <2> HIDE DEF J
    <2>4. J = [from |-> to, to |-> from, key |-> k, card |-> c, join |-> l, cond |-> cond, split |-> split]
      BY <2>1, <2>2, <2>3
    <2> QED BY <2>4 DEF J
  <1> QED BY <1>1, <1>3, <1>4 DEF JoinOf, j

LEMMA FlipTwice ==
    ASSUME NEW x
    PROVE  Flip(Flip(x)) = x /\ FlipJoin(FlipJoin(x)) = x
  BY DEF Flip, FlipJoin

LEMMA TurnedTwice ==
    ASSUME NEW e, e.key = <<e.key[1], e.key[2]>>, e.cond \in BOOLEAN
    PROVE  Turned(Turned(JoinOfEdge(e))) = JoinOfEdge(e)
  <1> DEFINE back == IF e.cond THEN e.key ELSE Reversed(e.key)
  <1>1. Turned(JoinOfEdge(e)) = JoinOf(e.to, e.from, back, Flip(e.card), FlipJoin(e.join), e.cond, e.split)
    BY TurnedIs DEF JoinOfEdge
  <1>2. Turned(JoinOf(e.to, e.from, back, Flip(e.card), FlipJoin(e.join), e.cond, e.split))
          = JoinOf(e.from, e.to, IF e.cond THEN back ELSE Reversed(back), Flip(Flip(e.card)),
                   FlipJoin(FlipJoin(e.join)), e.cond, e.split)
    <2> HIDE DEF back
    <2> QED BY TurnedIs
  <1>3. (IF e.cond THEN back ELSE Reversed(back)) = e.key
    BY DEF Reversed
  <1> HIDE DEF back
  <1> QED BY <1>1, <1>2, <1>3, FlipTwice DEF JoinOfEdge

\* An entry read from its near end.
NearKey(r, forward, k) == IF forward \/ r.cond THEN k ELSE Reversed(k)
LEMMA NearIs ==
    ASSUME NEW r, IsEntry(r), NEW forward \in BOOLEAN, r.cond \in BOOLEAN
    PROVE  LET o == FromNear(r, forward)
           IN  /\ o.from = IF forward THEN r.from ELSE r.to
               /\ o.to = IF forward THEN r.to ELSE r.from
               /\ o.card = IF forward THEN r.card ELSE Flip(r.card)
               /\ o.join = IF forward THEN r.join ELSE FlipJoin(r.join)
               /\ o.cond = r.cond
               /\ o.keys = {NearKey(r, forward, k) : k \in r.keys}
  <1>1. PICK from, to, card, join, cond, split, keys, full :
            r = [from |-> from, to |-> to, card |-> card, join |-> join,
                 cond |-> cond, split |-> split, keys |-> keys, full |-> full]
    BY DEF IsEntry
  <1>2. CASE forward
    BY <1>2 DEF FromNear, NearKey
  <1>3. CASE ~forward
    <2>1. FromNear(r, forward) = [from |-> to, to |-> from, card |-> Flip(card), join |-> FlipJoin(join),
                                  cond |-> cond, split |-> split,
                                  keys |-> IF cond THEN keys ELSE {Reversed(k) : k \in keys}, full |-> full]
      BY <1>1, <1>3 DEF FromNear
    <2>2. {NearKey(r, forward, k) : k \in r.keys} = IF cond THEN keys ELSE {Reversed(k) : k \in keys}
      BY <1>1, <1>3 DEF NearKey
    <2> QED BY <1>1, <1>3, <2>1, <2>2
  <1> QED BY <1>2, <1>3

\* Read from its near end, an entry is read as the edges it tells, or as these turned.
LEMMA NearReads ==
    ASSUME NEW r, IsEntry(r), NEW forward \in BOOLEAN, r.cond \in BOOLEAN, r.split = FALSE,
           NEW e, Tells(r, e), e.cond \in BOOLEAN
    PROVE  AsRead(FromNear(r, forward), NearKey(r, forward, e.key))
             = IF forward THEN JoinOfEdge(e) ELSE Turned(JoinOfEdge(e))
  <1> DEFINE o == FromNear(r, forward)
  <1>1. /\ o.from = IF forward THEN r.from ELSE r.to
        /\ o.to = IF forward THEN r.to ELSE r.from
        /\ o.card = IF forward THEN r.card ELSE Flip(r.card)
        /\ o.join = IF forward THEN r.join ELSE FlipJoin(r.join)
        /\ o.cond = r.cond
    BY NearIs
  <1> HIDE DEF o
  <1>2. AsRead(o, NearKey(r, forward, e.key)) = IF forward THEN JoinOfEdge(e) ELSE Turned(JoinOfEdge(e))
    <2>1. CASE forward
      BY <1>1, <2>1 DEF AsRead, NearKey, JoinOfEdge, Tells
    <2>2. CASE ~forward
      <3>1. Turned(JoinOfEdge(e)) = JoinOf(e.to, e.from, IF e.cond THEN e.key ELSE Reversed(e.key),
                                           Flip(e.card), FlipJoin(e.join), e.cond, e.split)
        BY TurnedIs DEF JoinOfEdge
      <3> QED BY <1>1, <2>2, <3>1 DEF AsRead, NearKey, Tells
    <2> QED BY <2>1, <2>2
  <1> QED BY <1>2 DEF o

\* The compact form: where an entry is written, and how it is read.
SchemaShown(shown, name) ==
    LET bare == [schema |-> Unnamed, name |-> name]
    IN  IF bare \in DOMAIN shown THEN shown[bare] ELSE Unnamed
SlotOf(shown, r) ==
    [table |-> r.to.name, from |-> r.from.name, card |-> r.card, join |-> r.join, cond |-> r.cond,
     schema |-> IF r.to.schema = SchemaShown(shown, r.from.name) THEN Unnamed ELSE r.to.schema]
Near(returned, r) == FromNear(r, r.from.name \in NamesOf(returned))
Others(entries, returned) == {Near(returned, r) : r \in {x \in entries : ~StaysWhole(x, returned)}}
KeysAt(others, shown, slot) == UNION {o.keys : o \in {p \in others : SlotOf(shown, p) = slot}}

LEMMA CompactIs ==
    ASSUME NEW m, AsLoaded(m), NEW asked, NEW entries
    PROVE  LET shown == ShownAs(m, asked)
               returned == Returned(m, asked)
               others == Others(entries, returned)
               joins == CompactOtherJoins(entries, shown)
           IN  /\ joins.kept = {r \in entries : StaysWhole(r, returned)}
               /\ joins.compact = {[slot |-> SlotOf(shown, o), keys |-> KeysAt(others, shown, SlotOf(shown, o))] : o \in others}
  <1> DEFINE shown == ShownAs(m, asked)
             ret == {[schema |-> IF n.schema = Unnamed THEN shown[n] ELSE n.schema, name |-> n.name] : n \in DOMAIN shown}
             kept == {r \in entries : StaysWhole(r, ret)}
             near(r) == FromNear(r, r.from.name \in NamesOf(ret))
             slot(r) == SlotOf(shown, r)
             others == {near(r) : r \in entries \ kept}
             joins == CompactOtherJoins(entries, shown)
             compact == {[slot |-> slot(r), keys |-> UNION {o.keys : o \in {p \in others : slot(p) = slot(r)}}] : r \in others}
  <1>1. ret = Returned(m, asked)
    BY ReturnedIs
  <1> HIDE DEF shown
  <1>2. joins = [kept |-> kept, compact |-> compact]
    BY DEF CompactOtherJoins, SlotOf, SchemaShown
  <1>3. joins.kept = kept /\ joins.compact = compact
    BY <1>2
  <1> HIDE DEF joins, slot
  <1>4. others = Others(entries, ret)
    <2> HIDE DEF ret
    <2> QED BY DEF Others, Near
  <1> HIDE DEF ret
  <1>5. kept = {r \in entries : StaysWhole(r, Returned(m, asked))} /\ others = Others(entries, Returned(m, asked))
    BY <1>1, <1>4
  <1> HIDE DEF others, kept
  <1>6. compact = {[slot |-> SlotOf(shown, o), keys |-> KeysAt(others, shown, SlotOf(shown, o))] : o \in others}
    BY DEF KeysAt, slot
  <1> HIDE DEF compact
  <1> QED BY <1>3, <1>5, <1>6 DEF joins, shown

LEMMA SchemaShownIs ==
    ASSUME NEW m, AsLoaded(m), NEW asked, NEW t \in Found(m, asked),
           \A u \in Found(m, asked) : u.name = t.name => u = t,
           \A q \in Missed(m, asked) : q.name # t.name
    PROVE  \/ SchemaShown(ShownAs(m, asked), t.name) = t.schema
           \/ SchemaShown(ShownAs(m, asked), t.name) = Unnamed /\ t.schema # Unnamed
  <1> DEFINE shown == ShownAs(m, asked)
             bare == [schema |-> Unnamed, name |-> t.name]
  <1>1. /\ DOMAIN shown = {DisplayName(m, u) : u \in Found(m, asked)} \cup Missed(m, asked)
        /\ \A u \in Found(m, asked) : shown[DisplayName(m, u)] = u.schema
    BY ShownIs
  <1>2. \A u \in Found(m, asked) : u \in m.tables
    BY FoundIs
  <1> HIDE DEF shown
  <1>3. CASE bare \in DOMAIN shown
    <2>1. bare.name = t.name
      OBVIOUS
    <2>2. PICK u \in Found(m, asked) : bare = DisplayName(m, u)
      BY <1>1, <1>3, <2>1
    <2>3. u.name = t.name
      BY <1>2, <2>1, <2>2, DisplayNameIs
    <2>4. shown[bare] = t.schema
      BY <1>1, <2>2, <2>3
    <2> QED BY <1>3, <2>4 DEF SchemaShown, shown
  <1>4. CASE bare \notin DOMAIN shown
    <2>1. DisplayName(m, t) # bare
      BY <1>1, <1>4
    <2>2. t.schema # Unnamed
      BY <2>1 DEF DisplayName, Id
    <2> QED BY <1>4, <2>2 DEF SchemaShown, shown
  <1> QED BY <1>3, <1>4

\* A slot is read as the two ends of the entry written in it.
ReadsAs(found, slot, o) ==
    /\ \E near \in found : near.name = slot.from
    /\ \A near \in found : near.name = slot.from =>
          /\ Id(near) = o.from
          /\ [schema |-> IF slot.schema = Unnamed THEN near.schema ELSE slot.schema, name |-> slot.table] = o.to

LEMMA SlotReadsBack ==
    ASSUME NEW m, AsLoaded(m), NEW asked, IsFiniteSet(ToSet(asked)), NEW e \in m.edges,
           {e.from.name, e.to.name} \cap NamesOf(ToSet(asked)) # {},
           NEW r, IsEntry(r), Tells(r, e), ~StaysWhole(r, Returned(m, asked))
    PROVE  LET o == Near(Returned(m, asked), r)
           IN  ReadsAs(Found(m, asked), SlotOf(ShownAs(m, asked), o), o)
  <1> DEFINE R == Returned(m, asked)
             named == NamesOf(R)
             o == Near(R, r)
             shown == ShownAs(m, asked)
             slot == SlotOf(shown, o)
  <1>1. /\ \A t, u \in m.tables : (Id(t) = Id(u) => t = u) /\ (t.schema = Unnamed => u.schema = Unnamed)
        /\ \E t, u \in m.tables : e.from = Id(t) /\ e.to = Id(u)
        /\ e.cond \in BOOLEAN
    BY DEF AsLoaded
  <1>2. /\ o.from = IF r.from.name \in named THEN e.from ELSE e.to
        /\ o.to = IF r.from.name \in named THEN e.to ELSE e.from
    <2>1. r.cond \in BOOLEAN /\ r.from = e.from /\ r.to = e.to
      BY <1>1 DEF Tells
    <2>2. CASE r.from.name \in named
      <3>1. o = FromNear(r, TRUE)
        BY <2>2 DEF Near, FromNear
      <3>2. FromNear(r, TRUE).from = r.from /\ FromNear(r, TRUE).to = r.to
        BY <2>1, NearIs
      <3> HIDE DEF o, named
      <3> QED BY <2>1, <2>2, <3>1, <3>2
    <2>3. CASE r.from.name \notin named
      <3>1. o = FromNear(r, FALSE)
        BY <2>3 DEF Near, FromNear
      <3>2. FromNear(r, FALSE).from = r.to /\ FromNear(r, FALSE).to = r.from
        BY <2>1, NearIs
      <3> HIDE DEF o, named
      <3> QED BY <2>1, <2>3, <3>1, <3>2
    <2> QED BY <2>2, <2>3
  <1>3. {e.from.name, e.to.name} \cap named # {} /\ r.from = e.from
    BY NamesReturned DEF Tells
  <1>4. PICK near \in m.tables, far \in m.tables : o.from = Id(near) /\ o.to = Id(far)
    BY <1>1, <1>2
  <1>5. /\ near.name \in named /\ (near.schema = Unnamed \/ Id(near) \in R)
        /\ ~(Cardinality({i \in R : i.name = near.name}) > 1)
    <2>1. o.from.name \in named
      BY <1>2, <1>3
    <2>2. o.from = IF r.from.name \in named THEN r.from ELSE r.to
      BY <1>2 DEF Tells
    <2>3. ~(o.from.schema # Unnamed /\ o.from \notin R) /\ ~(Cardinality({i \in R : i.name = o.from.name}) > 1)
      BY <2>2 DEF StaysWhole
    <2>4. o.from.name = near.name /\ o.from.schema = near.schema
      BY <1>4 DEF Id
    <2> QED BY <1>4, <2>1, <2>3, <2>4
  <1>6. /\ near \in Found(m, asked)
        /\ \A u \in Found(m, asked) : u.name = near.name => u = near
        /\ \A q \in Missed(m, asked) : q.name # near.name
    BY <1>5, OnlyTableSoCalled
  <1>7. \/ SchemaShown(shown, near.name) = near.schema
        \/ SchemaShown(shown, near.name) = Unnamed /\ near.schema # Unnamed
    BY <1>6, SchemaShownIs
  <1>8. near.schema = Unnamed <=> far.schema = Unnamed
    BY <1>1
  <1> HIDE DEF o, shown, R
  <1>9. /\ slot.from = near.name /\ slot.table = far.name
        /\ slot.schema = IF far.schema = SchemaShown(shown, near.name) THEN Unnamed ELSE far.schema
    BY <1>4 DEF SlotOf, Id
  <1>10. (IF slot.schema = Unnamed THEN near.schema ELSE slot.schema) = far.schema
    BY <1>7, <1>8, <1>9
  <1> HIDE DEF slot
  <1>11. ReadsAs(Found(m, asked), slot, o)
    BY <1>4, <1>6, <1>9, <1>10 DEF ReadsAs, Id
  <1> QED BY <1>11 DEF slot, o, shown, R

\* Entries that each tell an edge of the model with an end asked for, each key an edge of its own.
TellEdges(m, asked, entries) ==
    \A r \in entries : /\ IsEntry(r) /\ r.keys # {}
                       /\ \A k \in r.keys : \E e \in m.edges :
                             Tells(r, e) /\ e.key = k /\ {e.from.name, e.to.name} \cap NamesOf(ToSet(asked)) # {}

\* What the compact form is read as: the entries not kept, from their near ends.
LEMMA CompactReads ==
    ASSUME NEW m, AsLoaded(m), NEW asked, IsFiniteSet(ToSet(asked)), NEW entries, TellEdges(m, asked, entries)
    PROVE  LET others == Others(entries, Returned(m, asked))
               joins == CompactOtherJoins(entries, ShownAs(m, asked))
               found == Found(m, asked)
           IN  /\ \A c \in joins.compact : \A j \in ReadCompact(found, c) :
                     \E o \in others : \E k \in o.keys : j = AsRead(o, k)
               /\ \A o \in others : \A k \in o.keys : \E c \in joins.compact : AsRead(o, k) \in ReadCompact(found, c)
  <1> DEFINE R == Returned(m, asked)
             shown == ShownAs(m, asked)
             found == Found(m, asked)
             others == Others(entries, R)
             compact == CompactOtherJoins(entries, shown).compact
             at(o) == [slot |-> SlotOf(shown, o), keys |-> KeysAt(others, shown, SlotOf(shown, o))]
             other(t, slot) == [schema |-> IF slot.schema = Unnamed THEN t.schema ELSE slot.schema, name |-> slot.table]
  <1>1. compact = {at(o) : o \in others}
    BY CompactIs
  <1>2. ASSUME NEW o \in others PROVE ReadsAs(found, SlotOf(shown, o), o)
    <2>1. PICK r \in entries : ~StaysWhole(r, R) /\ o = Near(R, r)
      BY DEF Others
    <2>2. PICK e \in m.edges : Tells(r, e) /\ {e.from.name, e.to.name} \cap NamesOf(ToSet(asked)) # {}
      BY DEF TellEdges
    <2>3. IsEntry(r)
      BY DEF TellEdges
    <2> QED BY <2>1, <2>2, <2>3, SlotReadsBack
  <1> HIDE DEF compact, others, shown, R, found
  <1>3. ASSUME NEW o, NEW t, NEW k, Id(t) = o.from, other(t, SlotOf(shown, o)) = o.to
        PROVE  LET slot == SlotOf(shown, o)
               IN  JoinOf(Id(t), other(t, slot), k, slot.card, slot.join, slot.cond, FALSE) = AsRead(o, k)
    BY <1>3 DEF AsRead, SlotOf
  <1> HIDE DEF other
  <1>4. ASSUME NEW c
        PROVE  \A j : j \in ReadCompact(found, c) <=> \E t \in found : \E k \in c.keys :
                  t.name = c.slot.from /\ j = JoinOf(Id(t), other(t, c.slot), k, c.slot.card, c.slot.join, c.slot.cond, FALSE)
    <2> DEFINE near == {u \in found : u.name = c.slot.from}
               read(t, k) == JoinOf(Id(t), other(t, c.slot), k, c.slot.card, c.slot.join, c.slot.cond, FALSE)
    <2>1. ReadCompact(found, c) = {read(t, k) : t \in near, k \in c.keys}
      BY DEF ReadCompact, other
    <2> HIDE DEF read
    <2>2. \A j : j \in {read(t, k) : t \in near, k \in c.keys}
                 <=> \E t \in found : \E k \in c.keys : t.name = c.slot.from /\ j = read(t, k)
      <3> TAKE j
      <3>1. ASSUME j \in {read(t, k) : t \in near, k \in c.keys}
            PROVE  \E t \in found : \E k \in c.keys : t.name = c.slot.from /\ j = read(t, k)
        <4>1. PICK t \in near, k \in c.keys : j = read(t, k)
          BY <3>1
        <4> QED BY <4>1
      <3>2. ASSUME NEW t \in found, NEW k \in c.keys, t.name = c.slot.from, j = read(t, k)
            PROVE  j \in {read(u, l) : u \in near, l \in c.keys}
        <4>1. t \in near
          BY <3>2
        <4> HIDE DEF near
        <4> QED BY <3>2, <4>1
      <3> QED BY <3>1, <3>2
    <2> HIDE DEF near
    <2>3. \A j : j \in ReadCompact(found, c) <=> \E t \in found : \E k \in c.keys : t.name = c.slot.from /\ j = read(t, k)
      BY <2>1, <2>2
    <2> QED BY <2>3 DEF read
  <1>5. \A slot, o : ReadsAs(found, slot, o) <=>
            /\ \E t \in found : t.name = slot.from
            /\ \A t \in found : t.name = slot.from => Id(t) = o.from /\ other(t, slot) = o.to
    BY DEF ReadsAs, other
  <1>6. ASSUME NEW c \in compact, NEW j \in ReadCompact(found, c)
        PROVE  \E o \in others : \E k \in o.keys : j = AsRead(o, k)
    <2>1. PICK o \in others : c.slot = SlotOf(shown, o) /\ c.keys = KeysAt(others, shown, c.slot)
      BY <1>1
    <2>2. PICK t \in found, k \in c.keys :
              t.name = c.slot.from /\ j = JoinOf(Id(t), other(t, c.slot), k, c.slot.card, c.slot.join, c.slot.cond, FALSE)
      BY <1>4
    <2>3. PICK p \in others : SlotOf(shown, p) = c.slot /\ k \in p.keys
      BY <2>1, <2>2 DEF KeysAt
    <2>4. Id(t) = p.from /\ other(t, SlotOf(shown, p)) = p.to
      BY <1>2, <1>5, <2>2, <2>3
    <2>5. j = AsRead(p, k)
      BY <1>3, <2>2, <2>3, <2>4
    <2> QED BY <2>3, <2>5
  <1>7. ASSUME NEW o \in others, NEW k \in o.keys
        PROVE  \E c \in compact : AsRead(o, k) \in ReadCompact(found, c)
    <2>1. at(o) \in compact /\ at(o).slot = SlotOf(shown, o) /\ k \in at(o).keys
      BY <1>1 DEF KeysAt
    <2>2. PICK c \in compact : c.slot = SlotOf(shown, o) /\ k \in c.keys
      BY <2>1
    <2>3. PICK t \in found : t.name = c.slot.from /\ Id(t) = o.from /\ other(t, c.slot) = o.to
      BY <1>2, <1>5, <2>2
    <2>4. AsRead(o, k) = JoinOf(Id(t), other(t, c.slot), k, c.slot.card, c.slot.join, c.slot.cond, FALSE)
      BY <1>3, <2>2, <2>3
    <2>5. AsRead(o, k) \in ReadCompact(found, c)
      BY <1>4, <2>2, <2>3, <2>4
    <2> QED BY <2>5
  <1> QED BY <1>6, <1>7 DEF compact, others, shown, R, found

\* What an entry that is not kept is read as: the edges it tells, one way or the other.
LEMMA OthersRead ==
    ASSUME NEW m, AsLoaded(m), NEW asked, NEW entries, TellEdges(m, asked, entries), NEW returned,
           NEW r \in entries, ~StaysWhole(r, returned)
    PROVE  /\ \A k \in Near(returned, r).keys : \E e \in m.edges :
                 AsRead(Near(returned, r), k) \in {JoinOfEdge(e), Turned(JoinOfEdge(e))}
           /\ \A e \in m.edges : Tells(r, e) => \E k \in Near(returned, r).keys :
                 AsRead(Near(returned, r), k) \in {JoinOfEdge(e), Turned(JoinOfEdge(e))}
  <1>1. PICK forward \in BOOLEAN : Near(returned, r) = FromNear(r, forward)
    <2>1. CASE r.from.name \in NamesOf(returned)
      <3>1. Near(returned, r) = FromNear(r, TRUE)
        BY <2>1 DEF Near, FromNear
      <3> QED BY <3>1
    <2>2. CASE r.from.name \notin NamesOf(returned)
      <3>1. Near(returned, r) = FromNear(r, FALSE)
        BY <2>2 DEF Near, FromNear
      <3> QED BY <3>1
    <2> QED BY <2>1, <2>2
  <1> DEFINE o == FromNear(r, forward)
  <1>2. \A e \in m.edges : e.cond \in BOOLEAN /\ e.split \in BOOLEAN
    BY DEF AsLoaded
  <1>3. IsEntry(r) /\ r.keys # {} /\ \A k \in r.keys : \E e \in m.edges : Tells(r, e) /\ e.key = k
    BY DEF TellEdges
  <1>4. r.cond \in BOOLEAN /\ r.split = FALSE
    <2>1. PICK e \in m.edges : Tells(r, e)
      BY <1>3
    <2>2. r.cond \in BOOLEAN /\ r.split \in BOOLEAN
      BY <1>2, <2>1 DEF Tells
    <2> QED BY <2>2 DEF StaysWhole
  <1>5. o.keys = {NearKey(r, forward, k) : k \in r.keys}
    BY <1>3, <1>4, NearIs
  <1>6. ASSUME NEW e \in m.edges, Tells(r, e)
        PROVE  AsRead(o, NearKey(r, forward, e.key)) \in {JoinOfEdge(e), Turned(JoinOfEdge(e))}
    <2>1. AsRead(o, NearKey(r, forward, e.key)) = IF forward THEN JoinOfEdge(e) ELSE Turned(JoinOfEdge(e))
      BY <1>2, <1>3, <1>4, <1>6, NearReads
    <2> HIDE DEF o
    <2> QED BY <2>1
  <1> HIDE DEF o
  <1>7. \A k \in o.keys : \E e \in m.edges : AsRead(o, k) \in {JoinOfEdge(e), Turned(JoinOfEdge(e))}
    BY <1>3, <1>5, <1>6
  <1>8. \A e \in m.edges : Tells(r, e) => \E k \in o.keys : AsRead(o, k) \in {JoinOfEdge(e), Turned(JoinOfEdge(e))}
    BY <1>5, <1>6 DEF Tells
  <1> QED BY <1>1, <1>7, <1>8 DEF o

LEMMA WholeReads ==
    ASSUME NEW r, NEW e, Tells(r, e)
    PROVE  JoinOfEdge(e) \in ReadWhole(r)
  BY DEF Tells, JoinOfEdge, ReadWhole

\* The joins read back from a reply whose entries tell the edges of the model
\* are the declared joins, and among them every one its entries tell.
LEMMA ReadBack ==
    ASSUME NEW m, AsLoaded(m), NEW asked, IsFiniteSet(ToSet(asked)), NEW entries, TellEdges(m, asked, entries)
    PROVE  LET joins == CompactOtherJoins(entries, ShownAs(m, asked))
               read == (UNION {ReadWhole(r) : r \in joins.kept})
                       \cup (UNION {ReadCompact(Found(m, asked), c) : c \in joins.compact})
           IN  /\ EitherWay(read) \subseteq EitherWay(DeclaredJoins(m.edges))
               /\ \A e \in m.edges : (\E r \in entries : Tells(r, e)) => JoinOfEdge(e) \in EitherWay(read)
  <1> DEFINE R == Returned(m, asked)
             joins == CompactOtherJoins(entries, ShownAs(m, asked))
             others == Others(entries, R)
             wholes == {ReadWhole(r) : r \in joins.kept}
             compacts == {ReadCompact(Found(m, asked), c) : c \in joins.compact}
             read == (UNION wholes) \cup (UNION compacts)
  <1>1. joins.kept = {r \in entries : StaysWhole(r, R)}
    BY CompactIs
  <1>2. /\ \A c \in joins.compact : \A j \in ReadCompact(Found(m, asked), c) :
              \E o \in others : \E k \in o.keys : j = AsRead(o, k)
        /\ \A o \in others : \A k \in o.keys : \E c \in joins.compact : AsRead(o, k) \in ReadCompact(Found(m, asked), c)
    BY CompactReads
  <1>3. \A e \in m.edges : Turned(Turned(JoinOfEdge(e))) = JoinOfEdge(e)
    <2>1. \A e \in m.edges : e.key = <<e.key[1], e.key[2]>> /\ e.cond \in BOOLEAN
      BY DEF AsLoaded
    <2> QED BY <2>1, TurnedTwice
  <1>4. DeclaredJoins(m.edges) = {JoinOfEdge(e) : e \in m.edges}
    BY DEF DeclaredJoins, JoinOfEdge
  <1>5. ASSUME NEW r \in entries, ~StaysWhole(r, R)
        PROVE  Near(R, r) \in others
    BY <1>5 DEF Others
  <1>6. \A o \in others : \E r \in entries : ~StaysWhole(r, R) /\ o = Near(R, r)
    BY DEF Others
  <1> HIDE DEF joins, others, R
  <1>a. \A j \in read : \/ \E r \in joins.kept : j \in ReadWhole(r)
                        \/ \E c \in joins.compact : j \in ReadCompact(Found(m, asked), c)
    OBVIOUS
  <1>b. \A r \in joins.kept : ReadWhole(r) \subseteq read
    <2> TAKE r \in joins.kept
    <2>1. ReadWhole(r) \in wholes
      OBVIOUS
    <2> HIDE DEF wholes, compacts
    <2> QED BY <2>1
  <1>c. \A c \in joins.compact : ReadCompact(Found(m, asked), c) \subseteq read
    <2> TAKE c \in joins.compact
    <2>1. ReadCompact(Found(m, asked), c) \in compacts
      OBVIOUS
    <2> HIDE DEF wholes, compacts
    <2> QED BY <2>1
  <1> HIDE DEF read, wholes, compacts
  <1>7. ASSUME NEW j \in read
        PROVE  \E e \in m.edges : j \in {JoinOfEdge(e), Turned(JoinOfEdge(e))}
    <2>1. CASE \E r \in joins.kept : j \in ReadWhole(r)
      <3>1. PICK r \in entries : j \in ReadWhole(r)
        BY <1>1, <2>1
      <3>2. PICK k \in r.keys : j = JoinOf(r.from, r.to, k, r.card, r.join, r.cond, r.split)
        BY <3>1 DEF ReadWhole
      <3>3. PICK e \in m.edges : Tells(r, e) /\ e.key = k
        BY <3>2 DEF TellEdges
      <3>4. j = JoinOfEdge(e)
        BY <3>2, <3>3 DEF Tells, JoinOfEdge
      <3> QED BY <3>4
    <2>2. CASE \E c \in joins.compact : j \in ReadCompact(Found(m, asked), c)
      <3>1. PICK o \in others : \E k \in o.keys : j = AsRead(o, k)
        BY <1>2, <2>2
      <3>2. PICK r \in entries : ~StaysWhole(r, R) /\ o = Near(R, r)
        BY <1>6
      <3>3. \A k \in o.keys : \E e \in m.edges : AsRead(o, k) \in {JoinOfEdge(e), Turned(JoinOfEdge(e))}
        BY <3>2, OthersRead
      <3>4. PICK k \in o.keys : j = AsRead(o, k)
        BY <3>1
      <3>5. PICK e \in m.edges : AsRead(o, k) \in {JoinOfEdge(e), Turned(JoinOfEdge(e))}
        BY <3>3
      <3> QED BY <3>4, <3>5
    <2> QED BY <1>a, <2>1, <2>2
  <1>8. ASSUME NEW e \in m.edges, NEW r \in entries, Tells(r, e)
        PROVE  JoinOfEdge(e) \in read \/ Turned(JoinOfEdge(e)) \in read
    <2>1. CASE StaysWhole(r, R)
      BY <1>1, <1>b, <1>8, <2>1, WholeReads
    <2>2. CASE ~StaysWhole(r, R)
      <3>1. PICK k \in Near(R, r).keys : AsRead(Near(R, r), k) \in {JoinOfEdge(e), Turned(JoinOfEdge(e))}
        BY <1>8, <2>2, OthersRead
      <3>2. PICK c \in joins.compact : AsRead(Near(R, r), k) \in ReadCompact(Found(m, asked), c)
        BY <1>2, <1>5, <2>2
      <3>3. AsRead(Near(R, r), k) \in read
        BY <1>c, <3>2
      <3> QED BY <3>1, <3>3
    <2> QED BY <2>1, <2>2
  <1>9. \A j \in EitherWay(read) : j \in EitherWay(DeclaredJoins(m.edges))
    BY <1>3, <1>4, <1>7 DEF EitherWay
  <1>10. \A e \in m.edges : (\E r \in entries : Tells(r, e)) => JoinOfEdge(e) \in EitherWay(read)
    BY <1>3, <1>8 DEF EitherWay
  <1> QED BY <1>9, <1>10 DEF read, wholes, compacts, joins

\* The entries a reply is made of.
LEMMA EntriesTell ==
    ASSUME NEW m, AsLoaded(m), NEW asked
    PROVE  LET entries == MergeLeanPairs(EdgesSent(m, asked))
           IN  /\ TellEdges(m, asked, entries)
               /\ \A e \in m.edges : {e.from, e.to} \cap {Id(t) : t \in Found(m, asked)} # {}
                     => \E r \in entries : Tells(r, e)
  <1>1. PICK sent : sent = EdgesSent(m, asked)
    OBVIOUS
  <1>2. /\ \A s \in sent : s.edge \in m.edges /\ {s.edge.from.name, s.edge.to.name} \cap NamesOf(ToSet(asked)) # {}
        /\ \A e \in m.edges : {e.from, e.to} \cap {Id(t) : t \in Found(m, asked)} # {} => \E s \in sent : s.edge = e
    BY <1>1, SentIs
  <1>3. /\ \A r \in MergeLeanPairs(sent) :
              IsEntry(r) /\ r.keys # {} /\ \A k \in r.keys : \E s \in sent : Tells(r, s.edge) /\ s.edge.key = k
        /\ \A s \in sent : \E r \in MergeLeanPairs(sent) : Tells(r, s.edge)
    BY MergedTells
  <1>4. TellEdges(m, asked, MergeLeanPairs(sent))
    BY <1>2, <1>3 DEF TellEdges
  <1>5. \A e \in m.edges : {e.from, e.to} \cap {Id(t) : t \in Found(m, asked)} # {}
           => \E r \in MergeLeanPairs(sent) : Tells(r, e)
    <2> TAKE e \in m.edges
    <2> HAVE {e.from, e.to} \cap {Id(t) : t \in Found(m, asked)} # {}
    <2>1. PICK s \in sent : s.edge = e
      BY <1>2
    <2> QED BY <1>3, <2>1
  <1> QED BY <1>1, <1>4, <1>5

\* A set laid out as a sequence holds the set.
LEMMA LaidOut ==
    ASSUME NEW S, IsFiniteSet(S)
    PROVE  ToSet(SetToSeq(S)) = S /\ IsFiniteSet(ToSet(SetToSeq(S)))
  <1> DEFINE n == Cardinality(S)
             P(f) == f \in [1..n -> S] /\ IsInjective(f)
             s == CHOOSE f \in [1..n -> S] : IsInjective(f)
  <1>1. n \in Nat /\ ExistsBijection(1..n, S)
    BY FS_CardinalityType
  <1>2. \E f \in [1..n -> S] : IsInjective(f)
    BY <1>1 DEF ExistsBijection, Bijection, Injection
  <1>3. s \in [1..n -> S] /\ IsInjective(s)
    <2> HIDE DEF n
    <2> QED BY <1>2
  <1> HIDE DEF s
  <1>4. s \in Surjection(1..n, S)
    <2>1. IsFiniteSet(1..n) /\ Cardinality(1..n) = n
      BY <1>1, FS_Interval
    <2>2. s \in Injection(1..n, S)
      BY <1>3 DEF Injection
    <2> QED BY <2>1, <2>2, FS_Injection
  <1>5. ToSet(s) = S
    <2> HIDE DEF n
    <2> QED BY <1>3, <1>4 DEF Surjection, ToSet
  <1> QED BY <1>5 DEF s, SetToSeq

LEMMA FiniteRange ==
    ASSUME NEW S, NEW s \in Seq(S)
    PROVE  IsFiniteSet(ToSet(s))
  <1>1. DOMAIN s = 1..Len(s) /\ Len(s) \in Nat
    OBVIOUS
  <1>2. IsFiniteSet(DOMAIN s)
    BY <1>1, FS_Interval
  <1> QED BY <1>2, FiniteImage DEF ToSet

\* The names looked up for a call are finitely many: those of the call, or
\* what the reply calls the area's own copies of them.
Copies(m, call) == {t \in m.tables : \E q \in ToSet(call.tables) : t \in FindTables(m, q, call.area)}
LEMMA WantedIs ==
    ASSUME NEW m, AsLoaded(m), NEW call, call.tables \in Seq(ToSet(call.tables))
    PROVE  /\ IsFiniteSet(ToSet(Wanted(m, call)))
           /\ ToSet(Wanted(m, call)) = IF call.area = Unnamed THEN ToSet(call.tables)
                                       ELSE {DisplayName(m, t) : t \in Copies(m, call)}
  <1> DEFINE names == {DisplayName(m, t) : t \in Copies(m, call)}
  <1>1. UNION {{DisplayName(m, t) : t \in FindTables(m, q, call.area)} : q \in ToSet(call.tables)} = names
    <2> DEFINE named(q) == {DisplayName(m, t) : t \in FindTables(m, q, call.area)}
    <2>1. \A q \in ToSet(call.tables) : \A t \in FindTables(m, q, call.area) : t \in Copies(m, call)
      BY FoundAreCalled DEF Copies
    <2>2. ASSUME NEW q \in ToSet(call.tables), NEW n \in named(q) PROVE n \in names
      BY <2>1
    <2>3. ASSUME NEW t \in Copies(m, call) PROVE \E q \in ToSet(call.tables) : DisplayName(m, t) \in named(q)
      BY DEF Copies
    <2> HIDE DEF named
    <2>4. UNION {named(q) : q \in ToSet(call.tables)} = names
      BY <2>2, <2>3
    <2> QED BY <2>4 DEF named
  <1>2. IsFiniteSet(names)
    <2>1. IsFiniteSet(Copies(m, call))
      BY FS_Subset DEF AsLoaded, Copies
    <2> DEFINE f == [t \in Copies(m, call) |-> DisplayName(m, t)]
    <2>2. names = {f[t] : t \in DOMAIN f} /\ DOMAIN f = Copies(m, call)
      OBVIOUS
    <2> HIDE DEF f
    <2> QED BY <2>1, <2>2, FiniteImage
  <1>3. IsFiniteSet(ToSet(call.tables))
    BY FiniteRange
  <1>4. CASE call.area = Unnamed
    BY <1>3, <1>4 DEF Wanted
  <1>5. CASE call.area # Unnamed
    <2>1. Wanted(m, call) = SetToSeq(names)
      BY <1>1, <1>5 DEF Wanted
    <2>2. ToSet(Wanted(m, call)) = names /\ IsFiniteSet(ToSet(Wanted(m, call)))
      <3> HIDE DEF names
      <3> QED BY <1>2, <2>1, LaidOut
    <2> QED BY <1>5, <2>2
  <1> QED BY <1>4, <1>5

\* The tables found are called what the call named.
LEMMA NamesWanted ==
    ASSUME NEW m, AsLoaded(m), NEW call, call.tables \in Seq(ToSet(call.tables)),
           NEW t \in Found(m, Wanted(m, call))
    PROVE  t \in m.tables /\ t.name \in NamesOf(ToSet(call.tables))
  <1>1. t \in m.tables /\ \E q \in ToSet(Wanted(m, call)) : q.name = t.name
    BY FoundIs
  <1>2. PICK q \in ToSet(Wanted(m, call)) : q.name = t.name
    BY <1>1
  <1>3. CASE call.area = Unnamed
    BY <1>1, <1>2, <1>3, WantedIs DEF NamesOf
  <1>4. CASE call.area # Unnamed
    <2>1. PICK u \in Copies(m, call) : q = DisplayName(m, u)
      BY <1>2, <1>4, WantedIs
    <2>2. u \in m.tables /\ u.name = t.name
      BY <1>2, <2>1, DisplayNameIs DEF Copies
    <2>3. PICK p \in ToSet(call.tables) : u \in FindTables(m, p, call.area)
      BY <2>1 DEF Copies
    <2>4. p.name = t.name
      BY <2>2, <2>3, FoundAreCalled
    <2> QED BY <1>1, <2>4 DEF NamesOf
  <1> QED BY <1>3, <1>4

\* What an area shows of a table.
LEMMA VisibleIs ==
    ASSUME NEW m, AsLoaded(m), NEW t \in m.tables, NEW k \in VisibleColumns(t)
    PROVE  k \in t.columns /\ (t.shows = {} \/ \E g \in t.shows \cap DOMAIN t.groups : k \in t.groups[g])
  <1> DEFINE groups == {t.groups[g] : g \in t.shows \cap DOMAIN t.groups}
             allowed == UNION groups
  <1>1. VisibleColumns(t) = IF allowed = {} THEN t.columns ELSE t.columns \cap allowed
    BY DEF VisibleColumns
  <1>2. t.shows \subseteq DOMAIN t.groups /\ \A g \in DOMAIN t.groups : t.groups[g] # {}
    BY DEF AsLoaded
  <1>3. ASSUME t.shows # {} PROVE allowed # {}
    <2>1. PICK g \in t.shows : g \in DOMAIN t.groups
      BY <1>2, <1>3
    <2>2. PICK x : x \in t.groups[g]
      BY <1>2, <2>1
    <2>3. t.groups[g] \in groups
      BY <2>1
    <2> HIDE DEF groups
    <2> QED BY <2>2, <2>3
  <1>4. ASSUME k \in allowed PROVE \E g \in t.shows \cap DOMAIN t.groups : k \in t.groups[g]
    BY <1>4
  <1> HIDE DEF allowed
  <1> QED BY <1>1, <1>3, <1>4

\* What a reply is made of.
InArea(m, call) == {t \in m.tables : call.area \in {Unnamed, t.area}}
ReplyTables(m, call) ==
    IF Level(call) = "table" THEN Found(m, Wanted(m, call)) ELSE IF call.mode = "full" THEN InArea(m, call) ELSE {}
ReplyColumns(m, call, t) == IF Level(call) = "table" THEN GroupWideColumns(m, call, t) ELSE VisibleColumns(t)
ReplyGroups(call, t) == IF Level(call) = "table" THEN GroupsListed(t) ELSE <<>>
OpenedAs(m, call) ==
    [t \in ReplyTables(m, call) |-> IF Level(call) = "table" /\ GroupsListed(t) # <<>> THEN ReplyColumns(m, call, t)
                                    ELSE t.columns]

LEMMA ReplyIs ==
    ASSUME NEW m, NEW call
    PROVE  LET reply == Reply(m, call)
           IN  /\ DOMAIN reply.columns = ReplyTables(m, call)
               /\ \A t \in ReplyTables(m, call) : /\ reply.columns[t] = ReplyColumns(m, call, t)
                                                  /\ reply.groups[t] = ReplyGroups(call, t)
               /\ reply.listed \subseteq IF Level(call) = "table" THEN {} ELSE InArea(m, call)
               /\ reply.missed = Missed(m, Wanted(m, call))
               /\ Level(call) = "table" => reply.joins =
                    CompactOtherJoins(MergeLeanPairs(EdgesSent(m, Wanted(m, call))), ShownAs(m, Wanted(m, call)))
               /\ reply.metricsInFull = MetricsInFull(m, call)
               /\ reply.metricIndex = {x \in ScopedMetrics(m, call) : x.described}
               /\ reply.undescribed = Cardinality({x \in ScopedMetrics(m, call) : ~x.described})
               /\ reply.unknownMetrics = call.metrics \ {x.name : x \in ScopedMetrics(m, call)}
               /\ reply.unknownGroups = {p \in call.groups : /\ Level(call) = "table"
                                            /\ \A t \in ReplyTables(m, call) : p.group \notin GroupsWanted(t, {p})}
               /\ reply.ambiguities = AddAmbiguities(m, call, OpenedAs(m, call))
  <1> DEFINE reply == Reply(m, call)
             byTable == Level(call) = "table"
             asked == Wanted(m, call)
             found == UNION {FindTables(m, q, Unnamed) : q \in ToSet(asked)}
             missed == {q \in ToSet(asked) : FindTables(m, q, Unnamed) = {}}
             inArea == {t \in m.tables : call.area \in {Unnamed, t.area}}
             tables == IF byTable THEN found ELSE IF call.mode = "full" THEN inArea ELSE {}
             columns == [t \in tables |-> IF byTable THEN GroupWideColumns(m, call, t) ELSE VisibleColumns(t)]
             groups == [t \in tables |-> IF byTable THEN GroupsListed(t) ELSE <<>>]
             opened == [t \in tables |-> IF byTable /\ GroupsListed(t) # <<>> THEN columns[t] ELSE t.columns]
             shown == [n \in {DisplayName(m, t) : t \in found} \cup missed |->
                         IF n \in missed THEN Unnamed ELSE (CHOOSE t \in found : DisplayName(m, t) = n).schema]
             listed == IF byTable \/ call.mode = "index" THEN {} ELSE inArea
             joins == IF byTable THEN CompactOtherJoins(MergeLeanPairs(EdgesSent(m, asked)), shown)
                      ELSE [kept |-> {}, compact |-> {}]
             index == {x \in ScopedMetrics(m, call) : x.described}
             undescribed == Cardinality({x \in ScopedMetrics(m, call) : ~x.described})
             unknown == call.metrics \ {x.name : x \in ScopedMetrics(m, call)}
             unknownGroups == {p \in call.groups : byTable /\ \A t \in tables : p.group \notin GroupsWanted(t, {p})}
             ambiguities == AddAmbiguities(m, call, opened)
  <1>1. reply = [columns |-> columns, groups |-> groups, listed |-> listed, missed |-> missed, joins |-> joins,
                 metricsInFull |-> MetricsInFull(m, call), metricIndex |-> index, undescribed |-> undescribed,
                 unknownMetrics |-> unknown, unknownGroups |-> unknownGroups, ambiguities |-> ambiguities]
    BY DEF Reply
  <1> HIDE DEF reply
  <1>2. /\ reply.columns = columns /\ reply.groups = groups /\ reply.listed = listed /\ reply.missed = missed
        /\ reply.joins = joins /\ reply.metricsInFull = MetricsInFull(m, call) /\ reply.metricIndex = index
        /\ reply.undescribed = undescribed /\ reply.unknownMetrics = unknown /\ reply.unknownGroups = unknownGroups
        /\ reply.ambiguities = ambiguities
    <2> HIDE DEF columns, groups, listed, missed, joins, index, undescribed, unknown, unknownGroups, ambiguities
    <2> QED BY <1>1
  <1>3. found = Found(m, asked) /\ missed = Missed(m, asked) /\ shown = ShownAs(m, asked) /\ inArea = InArea(m, call)
    BY DEF Found, Missed, ShownAs, InArea
  <1>4. tables = ReplyTables(m, call)
    <2> HIDE DEF found, inArea
    <2> QED BY <1>3 DEF ReplyTables
  <1>5. byTable => joins = CompactOtherJoins(MergeLeanPairs(EdgesSent(m, asked)), ShownAs(m, asked))
    <2> HIDE DEF shown
    <2> QED BY <1>3
  <1>6. listed \subseteq IF byTable THEN {} ELSE InArea(m, call)
    <2> HIDE DEF inArea
    <2> QED BY <1>3
  <1> HIDE DEF tables, inArea
  <1>7. /\ DOMAIN columns = ReplyTables(m, call)
        /\ \A t \in ReplyTables(m, call) : columns[t] = ReplyColumns(m, call, t) /\ groups[t] = ReplyGroups(call, t)
    BY <1>4 DEF ReplyColumns, ReplyGroups
  <1>8. opened = OpenedAs(m, call)
    BY <1>4, <1>7 DEF OpenedAs, ReplyColumns
  <1> HIDE DEF columns, groups, opened
  <1>9. ambiguities = AddAmbiguities(m, call, OpenedAs(m, call))
    BY <1>8
  <1>10. unknownGroups = {p \in call.groups : /\ Level(call) = "table"
                             /\ \A t \in ReplyTables(m, call) : p.group \notin GroupsWanted(t, {p})}
    BY <1>4
  <1> HIDE DEF listed, joins, ambiguities, unknownGroups, missed
  <1>11. /\ reply.missed = Missed(m, asked) /\ reply.ambiguities = AddAmbiguities(m, call, OpenedAs(m, call))
         /\ reply.unknownGroups = {p \in call.groups : /\ Level(call) = "table"
                                      /\ \A t \in ReplyTables(m, call) : p.group \notin GroupsWanted(t, {p})}
         /\ (byTable => reply.joins = CompactOtherJoins(MergeLeanPairs(EdgesSent(m, asked)), ShownAs(m, asked)))
         /\ reply.listed \subseteq IF byTable THEN {} ELSE InArea(m, call)
    BY <1>2, <1>3, <1>5, <1>6, <1>9, <1>10
  <1>12. /\ DOMAIN reply.columns = ReplyTables(m, call)
         /\ \A t \in ReplyTables(m, call) : reply.columns[t] = ReplyColumns(m, call, t) /\ reply.groups[t] = ReplyGroups(call, t)
    BY <1>2, <1>7
  <1>13. /\ reply.metricsInFull = MetricsInFull(m, call) /\ reply.metricIndex = index
         /\ reply.undescribed = undescribed /\ reply.unknownMetrics = unknown
    BY <1>2
  <1> QED BY <1>11, <1>12, <1>13 DEF reply

LEMMA LevelIs ==
    ASSUME NEW call, call.tables \in Seq(ToSet(call.tables))
    PROVE  /\ Level(call) \in {"table", "area", "datasource"}
           /\ Level(call) = "table" <=> call.tables # <<>>
           /\ Level(call) = "area" => call.area # Unnamed
           /\ Level(call) = "datasource" => call.area = Unnamed
           /\ Level(call) # "table" => ToSet(call.tables) = {}
  <1>1. call.tables = <<>> => ToSet(call.tables) = {}
    BY DEF ToSet
  <1> QED BY <1>1 DEF Level

\* The scope a call declared, and the metrics that may read a table of it.
ScopeOf(m, call) ==
    CASE Level(call) = "table" -> ReplyTables(m, call)
      [] Level(call) # "table" -> InArea(m, call)
MayRead(m, call, x) ==
    \/ x.area = Unnamed
    \/ \E t \in ScopeOf(m, call) : t.area = x.area /\ (x.tables = {} \/ t.name \in x.tables)

LEMMA TablesAreTold ==
    ASSUME NEW m, AsLoaded(m), NEW call, call.tables \in Seq(ToSet(call.tables)), ~Refused(m, call),
           NEW q \in ToSet(call.tables)
    PROVE  \/ q \in Missed(m, Wanted(m, call))
           \/ {} # FindTables(m, q, call.area) /\ FindTables(m, q, call.area) \subseteq ReplyTables(m, call)
  <1>1. Level(call) = "table" /\ call.tables # <<>>
    BY LevelIs
  <1>2. ReplyTables(m, call) = Found(m, Wanted(m, call))
    BY <1>1 DEF ReplyTables
  <1>3. CASE call.area = Unnamed
    BY <1>2, <1>3, FoundIs, WantedIs
  <1>4. CASE call.area # Unnamed
    <2>1. FindTables(m, q, call.area) # {}
      BY <1>1, <1>4 DEF Refused
    <2>2. ASSUME NEW t \in FindTables(m, q, call.area) PROVE t \in Found(m, Wanted(m, call))
      <3>1. t \in m.tables /\ t \in Copies(m, call)
        BY FoundAreCalled DEF Copies
      <3>2. DisplayName(m, t) \in ToSet(Wanted(m, call))
        BY <1>4, <3>1, WantedIs
      <3>3. t \in FindTables(m, DisplayName(m, t), Unnamed)
        BY <3>1, DisplayNameIs
      <3> QED BY <3>2, <3>3 DEF Found
    <2> QED BY <1>2, <2>1, <2>2
  <1> QED BY <1>3, <1>4

\* The tables a reply returns are tables of the scope.
LEMMA TablesAreOfScope ==
    ASSUME NEW m, AsLoaded(m), NEW call, call.tables \in Seq(ToSet(call.tables)), NEW t \in ReplyTables(m, call)
    PROVE  /\ t \in m.tables
           /\ Level(call) = "table" => t.name \in NamesOf(ToSet(call.tables))
           /\ Level(call) # "table" => t \in InArea(m, call)
  <1>1. CASE Level(call) = "table"
    BY <1>1, NamesWanted DEF ReplyTables
  <1>2. CASE Level(call) # "table"
    BY <1>2 DEF ReplyTables, InArea
  <1> QED BY <1>1, <1>2

\* Every column shown is sent in full or named in a group listed, and no other is.
LEMMA ColumnsAreTold ==
    ASSUME NEW m, NEW call, NEW t
    PROVE  /\ ReplyColumns(m, call, t) \subseteq VisibleColumns(t)
           /\ ReplyColumns(m, call, t) \cup UNION Range(ReplyGroups(call, t)) = VisibleColumns(t)
  <1> DEFINE seen == VisibleColumns(t)
             listed == {g \in DOMAIN t.groups : t.groups[g] \cap seen # {}}
  <1>1. CASE Level(call) # "table"
    <2>1. UNION Range(<<>>) = {}
      BY DEF Range
    <2> QED BY <1>1, <2>1 DEF ReplyColumns, ReplyGroups
  <1>2. CASE Level(call) = "table"
    <2>1. ReplyColumns(m, call, t) = GroupWideColumns(m, call, t) /\ ReplyGroups(call, t) = GroupsListed(t)
      BY <1>2 DEF ReplyColumns, ReplyGroups
    <2>2. GroupsListed(t) = [g \in listed |-> t.groups[g] \cap seen]
      BY DEF GroupsListed, Restrict
    <2>3. GroupWideColumns(m, call, t) \subseteq seen
      BY DEF GroupWideColumns
    <2>4. ASSUME NEW k \in seen, k \notin GroupWideColumns(m, call, t) PROVE \E g \in listed : k \in t.groups[g] \cap seen
      <3>1. k \in Grouped(t)
        BY <2>4 DEF GroupWideColumns
      <3>2. PICK g \in DOMAIN t.groups : k \in t.groups[g]
        BY <3>1 DEF Grouped, Range
      <3> QED BY <3>2
    <2> HIDE DEF listed, seen
    <2>5. \A k : k \in UNION Range(GroupsListed(t)) <=> \E g \in listed : k \in t.groups[g] \cap seen
      <3>1. Range(GroupsListed(t)) = {t.groups[g] \cap seen : g \in listed}
        BY <2>2 DEF Range
      <3> QED BY <3>1
    <2>6. ReplyColumns(m, call, t) \cup UNION Range(ReplyGroups(call, t)) = seen
      BY <2>1, <2>3, <2>4, <2>5
    <2> QED BY <2>1, <2>3, <2>6 DEF seen
  <1> QED BY <1>1, <1>2

LEMMA GroupsAreTold ==
    ASSUME NEW m, NEW call, NEW t, NEW p \in call.groups, p.group \in GroupsWanted(t, {p}), Level(call) = "table"
    PROVE  p.group \in DOMAIN t.groups /\ t.groups[p.group] \cap VisibleColumns(t) \subseteq ReplyColumns(m, call, t)
  <1>1. p.group \in GroupsWanted(t, call.groups) /\ p.group \in DOMAIN t.groups
    BY DEF GroupsWanted
  <1> DEFINE wanted == {t.groups[g] : g \in GroupsWanted(t, call.groups)}
             needed == t.grain \cup t.flagged \cup (UNION {x.reads : x \in MetricsInFull(m, call)}) \cup (UNION wanted)
  <1>2. t.groups[p.group] \in wanted
    BY <1>1
  <1>3. GroupWideColumns(m, call, t) = {k \in VisibleColumns(t) : DOMAIN t.groups = {} \/ k \in needed \/ k \notin Grouped(t)}
    BY DEF GroupWideColumns
  <1> HIDE DEF wanted
  <1>4. \A k \in t.groups[p.group] : k \in needed
    BY <1>2
  <1> HIDE DEF needed
  <1> QED BY <1>1, <1>3, <1>4 DEF ReplyColumns

LEMMA MetricsAreTold ==
    ASSUME NEW m, AsLoaded(m), NEW call, call.tables \in Seq(ToSet(call.tables))
    PROVE  /\ \A x \in m.metrics : MayRead(m, call, x) => x \in ScopedMetrics(m, call)
           /\ ScopedMetrics(m, call) \subseteq m.metrics
           /\ \A n \in call.metrics : \/ n \in call.metrics \ {x.name : x \in ScopedMetrics(m, call)}
                                      \/ call.shed /\ Level(call) # "table"
                                      \/ \E x \in MetricsInFull(m, call) : x.name = n
  <1> DEFINE wanted == NamesOf(ToSet(call.tables))
             scoped == ScopedMetrics(m, call)
             matched == {x \in scoped : x.name \in call.metrics}
             shed == call.shed /\ call.mode = "index" /\ Level(call) # "table"
  <1>1. scoped \subseteq m.metrics
    BY LevelIs DEF ScopedMetrics
  <1>2. ASSUME NEW x \in m.metrics, MayRead(m, call, x) PROVE x \in scoped
    <2>1. CASE Level(call) = "datasource"
      BY <2>1 DEF ScopedMetrics
    <2>2. CASE Level(call) = "area"
      <3>1. call.area # Unnamed
        BY <2>2, LevelIs
      <3>2. x.area \in {Unnamed, call.area}
        BY <1>2, <2>2, <3>1 DEF MayRead, ScopeOf, InArea
      <3> QED BY <2>2, <3>2 DEF ScopedMetrics
    <2>3. CASE Level(call) = "table"
      <3>1. scoped = {y \in m.metrics : \/ y.area = Unnamed
                                        \/ y.tables \cap wanted # {}
                                        \/ y.tables = {} /\ y.area \in AreasOwning(m, wanted)}
        BY <2>3 DEF ScopedMetrics
      <3>2. CASE x.area = Unnamed
        BY <3>1, <3>2
      <3>3. CASE x.area # Unnamed
        <4>1. PICK t \in ReplyTables(m, call) : t.area = x.area /\ (x.tables = {} \/ t.name \in x.tables)
          BY <1>2, <2>3, <3>3 DEF MayRead, ScopeOf
        <4>2. t \in m.tables /\ t.name \in wanted
          BY <2>3, TablesAreOfScope
        <4>3. x.area \in AreasOwning(m, wanted)
          BY <4>1, <4>2 DEF AreasOwning
        <4> QED BY <3>1, <4>1, <4>2, <4>3
      <3> QED BY <3>2, <3>3
    <2> QED BY <2>1, <2>2, <2>3, LevelIs
  <1>3. ASSUME NEW n \in call.metrics, NEW x \in scoped, x.name = n, ~(call.shed /\ Level(call) # "table")
        PROVE  \E y \in MetricsInFull(m, call) : y.name = n
    <2>1. x \in matched /\ ~shed
      BY <1>3
    <2>2. MetricsInFull(m, call) = matched
      BY <2>1 DEF MetricsInFull
    <2> QED BY <1>3, <2>1, <2>2
  <1> QED BY <1>1, <1>2, <1>3

\* What an ambiguity is about, as far as a table request can show it.
ColumnsReached(m, a) ==
    {p \in a.columns : \E t \in Candidates(m, p[1]) :
        t.shows = {} \/ \E g \in t.shows \cap DOMAIN t.groups : p[2] \in t.groups[g]}
GroupsReached(m, a) == {p \in a.groups : \E t \in Candidates(m, p[1]) : t.shows = {} \/ p[2] \in t.shows}
TablesReached(m, a) == a.tables \cup {p[1].name : p \in ColumnsReached(m, a) \cup GroupsReached(m, a)}
OpenIn(m, call, opened, a) ==
    \/ \E t \in DOMAIN opened : t.name \in a.tables
    \/ \E p \in ColumnsReached(m, a) : \E t \in Candidates(m, p[1]) \cap DOMAIN opened : p[2] \in opened[t]
    \/ \E p \in GroupsReached(m, a) : \E t \in Candidates(m, p[1]) \cap DOMAIN opened :
            \/ GroupsListed(t) = <<>>
            \/ \E u \in Candidates(m, p[1]) : /\ p[2] \in DOMAIN u.groups /\ u.groups[p[2]] # {}
                                             /\ u.groups[p[2]] \subseteq opened[t]
    \/ \E x \in MetricsInFull(m, call) : x.name \in a.metrics
NamesInScope(m, call) ==
    CASE Level(call) = "datasource" -> NamesOf(m.tables)
      [] Level(call) = "area" -> NamesOf({t \in m.tables : t.area = call.area})
      [] Level(call) = "table" -> NamesOf(ToSet(call.tables))
ReachedIn(m, call, a) ==
    \/ Level(call) = "datasource"
    \/ TablesReached(m, a) \cap NamesInScope(m, call) # {}
    \/ \E x \in ScopedMetrics(m, call) : x.name \in a.metrics

LEMMA AmbiguityReachIs ==
    ASSUME NEW m, NEW call, NEW opened, NEW a, TablesReached(m, a) # {} \/ a.metrics # {}
    PROVE  /\ OpenIn(m, call, opened, a) => AmbiguityReach(m, call, opened, a) = "open"
           /\ ReachedIn(m, call, a) => AmbiguityReach(m, call, opened, a) \in {"open", "reached"}
  <1> DEFINE tied == TablesReached(m, a) # {} \/ a.metrics # {}
             open == OpenIn(m, call, opened, a)
             reached == ReachedIn(m, call, a)
  <1>1. AmbiguityReach(m, call, opened, a)
          = CASE tied /\ open -> "open" [] tied /\ ~open /\ reached -> "reached" [] OTHER -> "out"
    BY DEF AmbiguityReach, OpenIn, ReachedIn, TablesReached, ColumnsReached, GroupsReached, NamesInScope
  <1> HIDE DEF open, reached
  <1>2. /\ open => AmbiguityReach(m, call, opened, a) = "open"
        /\ reached => AmbiguityReach(m, call, opened, a) \in {"open", "reached"}
    BY <1>1
  <1> QED BY <1>2 DEF open, reached

\* An ambiguity about some of a table's columns, or about a group of them that its area shows.
About(m, a, t, ks) ==
    \/ \E p \in a.columns : t \in Candidates(m, p[1]) /\ p[2] \in ks
    \/ \E p \in a.groups : /\ t \in Candidates(m, p[1]) /\ p[2] \in GroupsShown(t)
                           /\ t.groups[p[2]] # {} /\ t.groups[p[2]] \subseteq ks

\* What it is about can be reached, and names the table.
LEMMA AboutIsReached ==
    ASSUME NEW m, AsLoaded(m), NEW t \in m.tables, NEW a, NEW ks, ks \subseteq VisibleColumns(t), About(m, a, t, ks)
    PROVE  /\ \/ \E p \in ColumnsReached(m, a) : t \in Candidates(m, p[1]) /\ p[2] \in ks
              \/ \E p \in GroupsReached(m, a) : /\ t \in Candidates(m, p[1]) /\ p[2] \in DOMAIN t.groups
                                                /\ t.groups[p[2]] # {} /\ t.groups[p[2]] \subseteq ks
           /\ t.name \in TablesReached(m, a)
  <1>1. \A p \in ColumnsReached(m, a) \cup GroupsReached(m, a) : t \in Candidates(m, p[1]) => t.name \in TablesReached(m, a)
    BY DEF TablesReached, Candidates
  <1>2. CASE \E p \in a.columns : t \in Candidates(m, p[1]) /\ p[2] \in ks
    <2>1. PICK p \in a.columns : t \in Candidates(m, p[1]) /\ p[2] \in ks
      BY <1>2
    <2>2. t.shows = {} \/ \E g \in t.shows \cap DOMAIN t.groups : p[2] \in t.groups[g]
      BY <2>1, VisibleIs
    <2>3. p \in ColumnsReached(m, a)
      BY <2>1, <2>2 DEF ColumnsReached
    <2> QED BY <1>1, <2>1, <2>3
  <1>3. CASE \E p \in a.groups : /\ t \in Candidates(m, p[1]) /\ p[2] \in GroupsShown(t)
                                 /\ t.groups[p[2]] # {} /\ t.groups[p[2]] \subseteq ks
    <2>1. PICK p \in a.groups : /\ t \in Candidates(m, p[1]) /\ p[2] \in GroupsShown(t)
                                /\ t.groups[p[2]] # {} /\ t.groups[p[2]] \subseteq ks
      BY <1>3
    <2>2. p[2] \in DOMAIN t.groups /\ (t.shows = {} \/ p[2] \in t.shows)
      BY <2>1 DEF GroupsShown
    <2>3. p \in GroupsReached(m, a)
      BY <2>1, <2>2 DEF GroupsReached
    <2> QED BY <1>1, <2>1, <2>2, <2>3
  <1> QED BY <1>2, <1>3 DEF About

LEMMA OpenWhenAbout ==
    ASSUME NEW m, AsLoaded(m), NEW call, call.tables \in Seq(ToSet(call.tables)), NEW a, NEW t \in ReplyTables(m, call),
           t.name \in a.tables \/ About(m, a, t, ReplyColumns(m, call, t))
    PROVE  AmbiguityReach(m, call, OpenedAs(m, call), a) = "open"
  <1> DEFINE opened == OpenedAs(m, call)
             ks == ReplyColumns(m, call, t)
  <1>1. t \in m.tables
    BY TablesAreOfScope
  <1>2. t \in DOMAIN opened /\ opened[t] \in {ks, t.columns}
    BY DEF OpenedAs
  <1>3. ks \subseteq VisibleColumns(t) /\ VisibleColumns(t) \subseteq t.columns
    BY <1>1, ColumnsAreTold, VisibleIs
  <1>4. ks \subseteq opened[t]
    BY <1>2, <1>3
  <1> HIDE DEF opened, ks
  <1>5. CASE t.name \in a.tables
    <2>1. TablesReached(m, a) # {}
      BY <1>5 DEF TablesReached
    <2>2. OpenIn(m, call, opened, a)
      BY <1>2, <1>5 DEF OpenIn
    <2> QED BY <2>1, <2>2, AmbiguityReachIs DEF opened
  <1>6. CASE About(m, a, t, ks)
    <2>1. /\ \/ \E p \in ColumnsReached(m, a) : t \in Candidates(m, p[1]) /\ p[2] \in ks
             \/ \E p \in GroupsReached(m, a) : /\ t \in Candidates(m, p[1]) /\ p[2] \in DOMAIN t.groups
                                               /\ t.groups[p[2]] # {} /\ t.groups[p[2]] \subseteq ks
          /\ t.name \in TablesReached(m, a)
      BY <1>1, <1>3, <1>6, AboutIsReached
    <2>2. ASSUME NEW p \in ColumnsReached(m, a), t \in Candidates(m, p[1]), p[2] \in ks
          PROVE  OpenIn(m, call, opened, a)
      <3>1. t \in Candidates(m, p[1]) \cap DOMAIN opened /\ p[2] \in opened[t]
        BY <1>2, <1>4, <2>2
      <3> QED BY <3>1 DEF OpenIn
    <2>3. ASSUME NEW p \in GroupsReached(m, a), t \in Candidates(m, p[1]), p[2] \in DOMAIN t.groups,
                 t.groups[p[2]] # {}, t.groups[p[2]] \subseteq ks
          PROVE  OpenIn(m, call, opened, a)
      <3>1. t \in Candidates(m, p[1]) \cap DOMAIN opened /\ t.groups[p[2]] \subseteq opened[t]
        BY <1>2, <1>4, <2>3
      <3> QED BY <2>3, <3>1 DEF OpenIn
    <2>4. OpenIn(m, call, opened, a)
      BY <2>1, <2>2, <2>3
    <2> QED BY <2>1, <2>4, AmbiguityReachIs DEF opened
  <1> QED BY <1>5, <1>6 DEF ks

LEMMA OpenWithMetric ==
    ASSUME NEW m, NEW call, NEW opened, NEW a, NEW x \in MetricsInFull(m, call), x.name \in a.metrics
    PROVE  AmbiguityReach(m, call, opened, a) = "open"
  <1>1. a.metrics # {} /\ OpenIn(m, call, opened, a)
    BY DEF OpenIn
  <1> QED BY <1>1, AmbiguityReachIs

LEMMA ReachedWhenNamed ==
    ASSUME NEW m, AsLoaded(m), NEW call, call.tables \in Seq(ToSet(call.tables)), NEW opened, NEW a,
           \/ \E t \in ReplyTables(m, call) : About(m, a, t, VisibleColumns(t))
           \/ Level(call) # "table" /\ \E t \in InArea(m, call) : t.name \in a.tables
           \/ \E x \in ScopedMetrics(m, call) : x.name \in a.metrics
    PROVE  AmbiguityReach(m, call, opened, a) \in {"open", "reached"}
  <1>1. CASE \E x \in ScopedMetrics(m, call) : x.name \in a.metrics
    <2>1. a.metrics # {} /\ ReachedIn(m, call, a)
      BY <1>1 DEF ReachedIn
    <2> QED BY <2>1, AmbiguityReachIs
  <1>2. ASSUME NEW t \in m.tables, t.name \in TablesReached(m, a),
               Level(call) = "table" => t.name \in NamesOf(ToSet(call.tables)),
               Level(call) # "table" => t \in InArea(m, call)
        PROVE  AmbiguityReach(m, call, opened, a) \in {"open", "reached"}
    <2>1. CASE Level(call) = "datasource"
      <3>1. ReachedIn(m, call, a)
        BY <2>1 DEF ReachedIn
      <3> QED BY <1>2, <3>1, AmbiguityReachIs
    <2>2. CASE Level(call) = "area"
      <3>1. t.area = call.area
        BY <1>2, <2>2, LevelIs DEF InArea
      <3>2. t.name \in NamesInScope(m, call)
        BY <2>2, <3>1 DEF NamesInScope, NamesOf
      <3>3. ReachedIn(m, call, a)
        BY <1>2, <3>2 DEF ReachedIn
      <3> QED BY <1>2, <3>3, AmbiguityReachIs
    <2>3. CASE Level(call) = "table"
      <3>1. t.name \in NamesInScope(m, call)
        BY <1>2, <2>3 DEF NamesInScope
      <3>2. ReachedIn(m, call, a)
        BY <1>2, <3>1 DEF ReachedIn
      <3> QED BY <1>2, <3>2, AmbiguityReachIs
    <2> QED BY <2>1, <2>2, <2>3, LevelIs
  <1>3. CASE \E t \in ReplyTables(m, call) : About(m, a, t, VisibleColumns(t))
    <2>1. PICK t \in ReplyTables(m, call) : About(m, a, t, VisibleColumns(t))
      BY <1>3
    <2>2. /\ t \in m.tables
          /\ Level(call) = "table" => t.name \in NamesOf(ToSet(call.tables))
          /\ Level(call) # "table" => t \in InArea(m, call)
      BY TablesAreOfScope
    <2>3. t.name \in TablesReached(m, a)
      BY <2>1, <2>2, AboutIsReached
    <2> QED BY <1>2, <2>2, <2>3
  <1>4. CASE Level(call) # "table" /\ \E t \in InArea(m, call) : t.name \in a.tables
    <2>1. PICK t \in InArea(m, call) : t.name \in a.tables
      BY <1>4
    <2>2. t \in m.tables /\ t.name \in TablesReached(m, a)
      BY <2>1 DEF InArea, TablesReached
    <2> QED BY <1>2, <1>4, <2>2
  <1> QED BY <1>1, <1>3, <1>4

\* What the reply does with an ambiguity it opens or reaches.
LEMMA AmbiguitiesAdded ==
    ASSUME NEW m, NEW call, NEW opened, NEW a \in m.ambiguities
    PROVE  LET reply == AddAmbiguities(m, call, opened)
           IN  /\ AmbiguityReach(m, call, opened, a) = "open" => a \in reply.full
               /\ AmbiguityReach(m, call, opened, a) \in {"open", "reached"} => a \in reply.full \cup reply.signposts
  <1> DEFINE reply == AddAmbiguities(m, call, opened)
             whole == {b \in m.ambiguities : /\ b.tables = {} /\ b.columns = {} /\ b.groups = {} /\ b.metrics = {}}
             named == {b \in m.ambiguities : b.name \in call.ambiguities}
             full == {b \in m.ambiguities : /\ b.name \notin call.ambiguities /\ b \notin whole
                                            /\ AmbiguityReach(m, call, opened, b) = "open"}
             signposts == {b \in m.ambiguities \ (whole \cup named) : AmbiguityReach(m, call, opened, b) = "reached"}
  <1>1. reply = [full |-> whole \cup named \cup full, signposts |-> signposts]
    BY DEF AddAmbiguities
  <1>2. reply.full = whole \cup named \cup full /\ reply.signposts = signposts
    <2> HIDE DEF reply, whole, named, full, signposts
    <2> QED BY <1>1
  <1> HIDE DEF reply
  <1>3. CASE a \in whole \cup named
    BY <1>2, <1>3 DEF reply
  <1>4. CASE a \notin whole \cup named
    <2>1. AmbiguityReach(m, call, opened, a) = "open" => a \in full
      BY <1>4
    <2>2. AmbiguityReach(m, call, opened, a) = "reached" => a \in signposts
      BY <1>4
    <2> HIDE DEF full, signposts
    <2> QED BY <1>2, <2>1, <2>2 DEF reply
  <1> QED BY <1>3, <1>4

LEMMA JoinsAreReadBack ==
    ASSUME NEW m, AsLoaded(m), NEW call, call.tables \in Seq(ToSet(call.tables))
    PROVE  JoinsReadBack(m, call)
  <1> SUFFICES ASSUME Level(call) = "table" PROVE JoinsReadBack(m, call)
    BY DEF JoinsReadBack
  <1> DEFINE asked == Wanted(m, call)
             entries == MergeLeanPairs(EdgesSent(m, asked))
             joins == CompactOtherJoins(entries, ShownAs(m, asked))
             found == Found(m, asked)
             read == (UNION {ReadWhole(r) : r \in joins.kept}) \cup (UNION {ReadCompact(found, c) : c \in joins.compact})
             touching == {e \in m.edges : {e.from, e.to} \cap {Id(t) : t \in found} # {}}
  <1>1. IsFiniteSet(ToSet(asked))
    BY WantedIs
  <1>2. /\ TellEdges(m, asked, entries)
        /\ \A e \in touching : \E r \in entries : Tells(r, e)
    BY EntriesTell
  <1> HIDE DEF asked
  <1>3. /\ EitherWay(read) \subseteq EitherWay(DeclaredJoins(m.edges))
        /\ \A e \in m.edges : (\E r \in entries : Tells(r, e)) => JoinOfEdge(e) \in EitherWay(read)
    <2> HIDE DEF entries
    <2> QED BY <1>1, <1>2, ReadBack
  <1>4. DeclaredJoins(touching) \subseteq EitherWay(read)
    <2>1. DeclaredJoins(touching) = {JoinOfEdge(e) : e \in touching}
      BY DEF DeclaredJoins, JoinOfEdge
    <2>2. \A e \in touching : e \in m.edges
      OBVIOUS
    <2> HIDE DEF read, entries, touching
    <2> QED BY <1>2, <1>3, <2>1, <2>2
  <1>5. DOMAIN Reply(m, call).columns = found /\ Reply(m, call).joins = joins
    <2>1. DOMAIN Reply(m, call).columns = ReplyTables(m, call)
      BY ReplyIs
    <2>2. Reply(m, call).joins = CompactOtherJoins(MergeLeanPairs(EdgesSent(m, Wanted(m, call))), ShownAs(m, Wanted(m, call)))
      BY ReplyIs
    <2> QED BY <2>1, <2>2 DEF ReplyTables, asked
  <1> HIDE DEF joins, found
  <1> QED BY <1>3, <1>4, <1>5 DEF JoinsReadBack

LEMMA NothingIsHidden ==
    ASSUME NEW m, AsLoaded(m), NEW call, call.tables \in Seq(ToSet(call.tables))
    PROVE  NothingInScopeIsHidden(m, call)
  <1> SUFFICES ASSUME ~Refused(m, call) PROVE NothingInScopeIsHidden(m, call)
    BY DEF NothingInScopeIsHidden
  <1> DEFINE reply == Reply(m, call)
             tables == DOMAIN reply.columns
             named(t) == reply.columns[t] \cup UNION Range(reply.groups[t])
             scope == CASE Level(call) = "table" -> tables
                        [] Level(call) # "table" -> {t \in m.tables : call.area \in {Unnamed, t.area}}
             mayRead(x) == \/ x.area = Unnamed
                           \/ \E t \in scope : t.area = x.area /\ (x.tables = {} \/ t.name \in x.tables)
             about(a, t, ks) == \/ \E p \in a.columns : t \in Candidates(m, p[1]) /\ p[2] \in ks
                                \/ \E p \in a.groups : /\ t \in Candidates(m, p[1]) /\ p[2] \in GroupsShown(t)
                                                       /\ t.groups[p[2]] # {} /\ t.groups[p[2]] \subseteq ks
             apply == {x \in m.metrics : mayRead(x)}
  <1>1. /\ DOMAIN reply.columns = ReplyTables(m, call)
        /\ \A t \in ReplyTables(m, call) : /\ reply.columns[t] = ReplyColumns(m, call, t)
                                           /\ reply.groups[t] = ReplyGroups(call, t)
        /\ reply.listed \subseteq IF Level(call) = "table" THEN {} ELSE InArea(m, call)
        /\ reply.missed = Missed(m, Wanted(m, call))
        /\ reply.metricsInFull = MetricsInFull(m, call)
        /\ reply.metricIndex = {x \in ScopedMetrics(m, call) : x.described}
        /\ reply.undescribed = Cardinality({x \in ScopedMetrics(m, call) : ~x.described})
        /\ reply.unknownMetrics = call.metrics \ {x.name : x \in ScopedMetrics(m, call)}
        /\ reply.unknownGroups = {p \in call.groups : /\ Level(call) = "table"
                                     /\ \A t \in ReplyTables(m, call) : p.group \notin GroupsWanted(t, {p})}
        /\ reply.ambiguities = AddAmbiguities(m, call, OpenedAs(m, call))
    BY ReplyIs
  <1> HIDE DEF reply
  <1>0. /\ \A x : mayRead(x) <=> MayRead(m, call, x)
        /\ \A a, t, ks : about(a, t, ks) <=> About(m, a, t, ks)
    <2>1. scope = ScopeOf(m, call)
      BY <1>1 DEF ScopeOf, InArea
    <2> HIDE DEF scope
    <2> QED BY <2>1 DEF MayRead, About
  <1> HIDE DEF mayRead, about
  <1>2. \A t \in tables : named(t) = VisibleColumns(t)
    BY <1>1, ColumnsAreTold
  <1>3. \A q \in ToSet(call.tables) : \/ q \in reply.missed
                                      \/ {} # FindTables(m, q, call.area) /\ FindTables(m, q, call.area) \subseteq tables
    BY <1>1, TablesAreTold
  <1>4. \A g \in call.groups : g \in reply.unknownGroups \/ Level(call) # "table" \/ \E t \in tables :
            g.group \in DOMAIN t.groups /\ t.groups[g.group] \cap VisibleColumns(t) \subseteq reply.columns[t]
    <2> SUFFICES ASSUME NEW g \in call.groups, g \notin reply.unknownGroups, Level(call) = "table"
                 PROVE  \E t \in tables : /\ g.group \in DOMAIN t.groups
                                          /\ t.groups[g.group] \cap VisibleColumns(t) \subseteq reply.columns[t]
      OBVIOUS
    <2>1. PICK t \in ReplyTables(m, call) : g.group \in GroupsWanted(t, {g})
      BY <1>1
    <2>2. g.group \in DOMAIN t.groups /\ t.groups[g.group] \cap VisibleColumns(t) \subseteq ReplyColumns(m, call, t)
      BY <2>1, GroupsAreTold
    <2> QED BY <1>1, <2>2
  <1>5. /\ {x \in apply : x.described} \subseteq reply.metricIndex
        /\ Cardinality({x \in apply : ~x.described}) <= reply.undescribed
        /\ \A n \in call.metrics : \/ n \in reply.unknownMetrics
                                   \/ call.shed /\ Level(call) # "table"
                                   \/ \E x \in reply.metricsInFull : x.name = n
    <2>1. /\ apply \subseteq ScopedMetrics(m, call) /\ ScopedMetrics(m, call) \subseteq m.metrics
          /\ \A n \in call.metrics : \/ n \in call.metrics \ {x.name : x \in ScopedMetrics(m, call)}
                                     \/ call.shed /\ Level(call) # "table"
                                     \/ \E x \in MetricsInFull(m, call) : x.name = n
      BY <1>0, MetricsAreTold
    <2> HIDE DEF apply
    <2> DEFINE few == {x \in apply : ~x.described}
               all == {x \in ScopedMetrics(m, call) : ~x.described}
    <2>2. IsFiniteSet(all) /\ few \in SUBSET all
      BY <2>1, FS_Subset DEF AsLoaded
    <2>3. Cardinality(few) <= Cardinality(all)
      BY <2>2, FS_Subset
    <2> QED BY <1>1, <2>1, <2>3
  <1>6. ASSUME NEW a \in m.ambiguities
        PROVE  /\ \/ \E t \in tables : t.name \in a.tables \/ about(a, t, reply.columns[t])
                  \/ \E x \in reply.metricsInFull : x.name \in a.metrics
                  => a \in reply.ambiguities.full
               /\ \/ \E t \in tables : about(a, t, named(t))
                  \/ \E t \in reply.listed : t.name \in a.tables
                  \/ \E x \in reply.metricIndex : x.name \in a.metrics
                  => a \in reply.ambiguities.full \cup reply.ambiguities.signposts
    <2>1. /\ AmbiguityReach(m, call, OpenedAs(m, call), a) = "open" => a \in reply.ambiguities.full
          /\ AmbiguityReach(m, call, OpenedAs(m, call), a) \in {"open", "reached"}
                => a \in reply.ambiguities.full \cup reply.ambiguities.signposts
      BY <1>1, AmbiguitiesAdded
    <2>2. ASSUME NEW t \in tables, t.name \in a.tables \/ about(a, t, reply.columns[t])
          PROVE  a \in reply.ambiguities.full
      <3>1. t \in ReplyTables(m, call) /\ (t.name \in a.tables \/ About(m, a, t, ReplyColumns(m, call, t)))
        BY <1>0, <1>1, <2>2
      <3> QED BY <2>1, <3>1, OpenWhenAbout
    <2>3. ASSUME NEW x \in reply.metricsInFull, x.name \in a.metrics PROVE a \in reply.ambiguities.full
      BY <1>1, <2>1, <2>3, OpenWithMetric
    <2>4. ASSUME \/ \E t \in tables : about(a, t, named(t))
                 \/ \E t \in reply.listed : t.name \in a.tables
                 \/ \E x \in reply.metricIndex : x.name \in a.metrics
          PROVE  a \in reply.ambiguities.full \cup reply.ambiguities.signposts
      <3>1. \/ \E t \in ReplyTables(m, call) : About(m, a, t, VisibleColumns(t))
            \/ Level(call) # "table" /\ \E t \in InArea(m, call) : t.name \in a.tables
            \/ \E x \in ScopedMetrics(m, call) : x.name \in a.metrics
        <4>1. CASE \E t \in tables : about(a, t, named(t))
          <5>1. PICK t \in tables : about(a, t, named(t))
            BY <4>1
          <5> HIDE DEF named
          <5> QED BY <1>0, <1>1, <1>2, <5>1
        <4>2. CASE \E t \in reply.listed : t.name \in a.tables
          BY <1>1, <4>2
        <4>3. CASE \E x \in reply.metricIndex : x.name \in a.metrics
          BY <1>1, <4>3
        <4> QED BY <2>4, <4>1, <4>2, <4>3
      <3> QED BY <2>1, <3>1, ReachedWhenNamed
    <2> QED BY <2>2, <2>3, <2>4
  <1>7. \A t \in tables : VisibleColumns(t) \subseteq named(t)
    BY <1>2
  <1>8. (~Refused(m, call) =>
            /\ \A q \in ToSet(call.tables) : \/ q \in reply.missed
                                             \/ {} # FindTables(m, q, call.area) /\ FindTables(m, q, call.area) \subseteq tables
            /\ \A t \in tables : VisibleColumns(t) \subseteq named(t)
            /\ \A g \in call.groups : g \in reply.unknownGroups \/ Level(call) # "table" \/ \E t \in tables :
                    g.group \in DOMAIN t.groups /\ t.groups[g.group] \cap VisibleColumns(t) \subseteq reply.columns[t]
            /\ /\ {x \in apply : x.described} \subseteq reply.metricIndex
               /\ Cardinality({x \in apply : ~x.described}) <= reply.undescribed
               /\ \A n \in call.metrics : \/ n \in reply.unknownMetrics
                                          \/ call.shed /\ Level(call) # "table"
                                          \/ \E x \in reply.metricsInFull : x.name = n
            /\ \A a \in m.ambiguities :
                /\ \/ \E t \in tables : t.name \in a.tables \/ about(a, t, reply.columns[t])
                   \/ \E x \in reply.metricsInFull : x.name \in a.metrics
                   => a \in reply.ambiguities.full
                /\ \/ \E t \in tables : about(a, t, named(t))
                   \/ \E t \in reply.listed : t.name \in a.tables
                   \/ \E x \in reply.metricIndex : x.name \in a.metrics
                   => a \in reply.ambiguities.full \cup reply.ambiguities.signposts)
        <=> NothingInScopeIsHidden(m, call)
    BY Zenon DEF NothingInScopeIsHidden, mayRead, about, reply
  <1> HIDE DEF tables, named, apply
  <1> QED BY <1>3, <1>4, <1>5, <1>6, <1>7, <1>8

\* Whatever the model and the call, a reply says what the model says.
THEOREM RepliesAreWhole == AskSpec => []ReplyIsWhole
  <1> DEFINE Inv == /\ modelServed \in ServedModels
                    /\ request # Unnamed => request \in CallsFor(modelServed)
  <1>1. AskInit => Inv
    BY DEF AskInit
  <1>2. Inv /\ [AskNext]_<<modelServed, request>> => Inv'
    BY DEF AskNext
  <1>3. Inv => ReplyIsWhole
    BY RepliesAssumption, JoinsAreReadBack, NothingIsHidden DEF ReplyIsWhole
  <1> QED BY <1>1, <1>2, <1>3, PTL DEF AskSpec

=============================================================================
