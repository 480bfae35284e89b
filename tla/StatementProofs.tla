-------------------------- MODULE StatementProofs --------------------------
(***************************************************************************)
(* What happens to a statement, and what the receipt says of it.           *)
(*                                                                         *)
(* The safety properties of BoundedExec for any finite set of calls, any   *)
(* cap and any number of host threads.  CallInv says, per call, how the    *)
(* three threads' positions go together; with the slot accounting it is    *)
(* inductive, and the properties the runs check are among its conjuncts    *)
(* or follow from them.                                                    *)
(*                                                                         *)
(* The trap report of TrapReport for any model, any names and any number   *)
(* of joins.  TrapInv says what kind of graph the joins of a SELECT are;   *)
(* what the report says of a number is then a matter of its definitions.   *)
(*                                                                         *)
(* The score of Comparator for any two results, of any names and cells and *)
(* of any size: a pass is given to the rows of the key under some placing  *)
(* of the columns and to no other, where the placing can be found by value.*)
(***************************************************************************)
EXTENDS BoundedExec, TrapReport, Comparator, FiniteSetTheorems, WellFoundedInduction, TLAPS

\* How one call's threads, timer and answer go together.
CallInv(c) ==
    /\ gaveUp[c] => caller[c] = "answered"
    /\ answer[c] = "none" <=> caller[c] # "answered"
    /\ caller[c] \in {"idle", "cleared"} => worker[c] = "unstarted"
    /\ caller[c] \in {"joining", "joined"} => worker[c] # "unstarted"
    /\ worker[c] \in {"unstarted", "connecting"} => timer[c] = "off"
    /\ timer[c] = "off" => ~fired[c]
    /\ timer[c] \in {"armed", "cancelling"} /\ ~disarmed[c]
         => worker[c] \in {"statement", "disarming"}
    /\ timer[c] = "cancelling" => ~disarmed[c]
    /\ disarmed[c] => worker[c] \in {"settling", "exited"}
    /\ worker[c] \in {"disarming", "settling", "exited"} => outcome[c] # "none"
    /\ worker[c] \in {"settling", "exited"} =>
         /\ disarmed[c] \/ timer[c] = "off"
         /\ outcome[c] = "result" => ~fired[c]
    /\ outcome[c] = "limit" => fired[c]
    /\ c \notin Watched => timer[c] = "off"
    /\ answer[c] = "saturated" => worker[c] = "unstarted"
    /\ answer[c] = "outer" <=> gaveUp[c]
    /\ answer[c] \in Outcomes => worker[c] = "exited" /\ outcome[c] = answer[c]

CallsInv == \A c \in Calls : CallInv(c)

IInv == ExecTypeOK /\ CallsInv /\ SlotAccounting /\ OverrunBound

-----------------------------------------------------------------------------
\* Any set of calls is finite, so its cardinality is a natural number.
LEMMA CallSetsFinite ==
    ASSUME NEW S \in SUBSET Calls
    PROVE  IsFiniteSet(S) /\ Cardinality(S) \in Nat
  BY CallsAssumption, FS_Subset, FS_CardinalityType

\* A set of calls that loses one element has one element less.
LEMMA DropOne ==
    ASSUME NEW S \in SUBSET Calls, NEW c \in S
    PROVE  Cardinality(S \ {c}) = Cardinality(S) - 1
  BY CallSetsFinite, FS_RemoveElement

\* A set of calls that gains an element it did not have has one more.
LEMMA GainOne ==
    ASSUME NEW S \in SUBSET Calls, NEW c \in Calls, c \notin S
    PROVE  Cardinality(S \cup {c}) = Cardinality(S) + 1
  BY CallSetsFinite, FS_AddElement

-----------------------------------------------------------------------------
LEMMA InitInv == ExecInit => IInv
  <1> SUFFICES ASSUME ExecInit PROVE IInv
    OBVIOUS
  <1>1. ExecTypeOK
    BY DEF ExecInit, ExecTypeOK, CallerStates, WorkerStates, TimerStates
  <1>2. CallsInv
    BY DEF ExecInit, CallsInv, CallInv, Outcomes
  <1>3. Abandoned = {} /\ InFlight = {}
    BY DEF ExecInit, Abandoned, InFlight
  <1>4. SlotAccounting /\ OverrunBound
    BY <1>3, FS_EmptySet, BoundsAssumption DEF ExecInit, SlotAccounting, OverrunBound
  <1> QED
    BY <1>1, <1>2, <1>4 DEF IInv

\* Every step keeps each call's own invariant.
LEMMA CallsStep ==
    ASSUME ExecTypeOK, CallsInv, [ExecNext]_execVars
    PROVE  CallsInv'
  <1> USE DEF CallsInv, CallInv, ExecTypeOK, Outcomes, Answers
  <1>1. ASSUME NEW c \in Calls, CallerStep(c) PROVE CallsInv'
    <2>1. CASE Enter(c)
      BY <2>1 DEF Enter
    <2>2. CASE StartWorker(c)
      BY <2>2 DEF StartWorker
    <2>3. CASE JoinReturns(c)
      BY <2>3 DEF JoinReturns
    <2>4. CASE CallerSettles(c)
      BY <2>4 DEF CallerSettles
    <2> QED BY <1>1, <2>1, <2>2, <2>3, <2>4 DEF CallerStep
  <1>2. ASSUME NEW c \in Calls, WorkerStep(c) PROVE CallsInv'
    <2>1. CASE ConnectFails(c)
      BY <2>1 DEF ConnectFails
    <2>2. CASE SendStatement(c)
      BY <2>2 DEF SendStatement
    <2>3. CASE UnwatchedReturns(c)
      BY <2>3 DEF UnwatchedReturns
    <2>4. CASE StatementSucceeds(c)
      BY <2>4 DEF StatementSucceeds
    <2>5. CASE StatementFails(c)
      BY <2>5 DEF StatementFails
    <2>6. CASE Disarm(c)
      BY <2>6 DEF Disarm
    <2>7. CASE WorkerSettles(c)
      BY <2>7 DEF WorkerSettles
    <2> QED BY <1>2, <2>1, <2>2, <2>3, <2>4, <2>5, <2>6, <2>7 DEF WorkerStep
  <1>3. ASSUME NEW c \in Calls, TimerStep(c) PROVE CallsInv'
    <2>1. CASE Fire(c)
      BY <2>1 DEF Fire
    <2>2. CASE CancelReturns(c)
      BY <2>2 DEF CancelReturns
    <2> QED BY <1>3, <2>1, <2>2 DEF TimerStep
  <1>4. CASE UNCHANGED execVars
    BY <1>4 DEF execVars
  <1> QED BY <1>1, <1>2, <1>3, <1>4 DEF ExecNext, Quiescent

\* Every step keeps the types.  That the counter stays a natural number needs
\* the accounting: a slot is only given back by a worker that took one.
LEMMA TypeStep ==
    ASSUME ExecTypeOK, CallsInv, SlotAccounting, [ExecNext]_execVars
    PROVE  ExecTypeOK'
  <1> USE DEF ExecTypeOK, CallerStates, WorkerStates, TimerStates, Outcomes, Answers
  <1>1. ASSUME NEW c \in Calls, CallerStep(c) PROVE ExecTypeOK'
    <2>1. CASE Enter(c)
      BY <2>1 DEF Enter
    <2>2. CASE StartWorker(c)
      BY <2>2 DEF StartWorker
    <2>3. CASE JoinReturns(c)
      BY <2>3 DEF JoinReturns
    <2>4. CASE CallerSettles(c)
      <3>1. CASE worker[c] = "exited"
        BY <2>4, <3>1 DEF CallerSettles
      <3>2. CASE worker[c] # "exited"
        <4>1. abandoned' = abandoned + 1 /\ abandoned' \in Nat
          BY <2>4, <3>2 DEF CallerSettles
        <4>2. gaveUp' \in [Calls -> BOOLEAN]
          BY <2>4, <3>2, Zenon DEF CallerSettles
        <4>3. answer' = [answer EXCEPT ![c] = "outer"]
          BY <2>4, <3>2 DEF CallerSettles
        <4> QED BY <4>1, <4>2, <4>3, <2>4, Zenon DEF CallerSettles
      <3> QED BY <3>1, <3>2
    <2> QED BY <1>1, <2>1, <2>2, <2>3, <2>4 DEF CallerStep
  <1>2. ASSUME NEW c \in Calls, WorkerStep(c) PROVE ExecTypeOK'
    <2>1. CASE ConnectFails(c)
      BY <2>1 DEF ConnectFails
    <2>2. CASE SendStatement(c)
      BY <2>2 DEF SendStatement
    <2>3. CASE UnwatchedReturns(c)
      BY <2>3 DEF UnwatchedReturns
    <2>4. CASE StatementSucceeds(c)
      BY <2>4 DEF StatementSucceeds
    <2>5. CASE StatementFails(c)
      BY <2>5 DEF StatementFails
    <2>6. CASE Disarm(c)
      BY <2>6 DEF Disarm
    <2>7. CASE WorkerSettles(c)
      <3>1. gaveUp[c] => abandoned - 1 \in Nat
        <4> SUFFICES ASSUME gaveUp[c] PROVE abandoned - 1 \in Nat
          OBVIOUS
        <4>1. c \in Abandoned /\ Abandoned \in SUBSET Calls
          BY <2>7 DEF WorkerSettles, Abandoned
        <4>2. Abandoned \ {c} \in SUBSET Calls
          BY <4>1
        <4>3. Cardinality(Abandoned \ {c}) \in Nat
          BY <4>2, CallSetsFinite
        <4>4. Cardinality(Abandoned \ {c}) = abandoned - 1
          BY <4>1, DropOne DEF SlotAccounting
        <4> QED BY <4>3, <4>4
      <3> QED BY <3>1, <2>7 DEF WorkerSettles
    <2> QED BY <1>2, <2>1, <2>2, <2>3, <2>4, <2>5, <2>6, <2>7 DEF WorkerStep
  <1>3. ASSUME NEW c \in Calls, TimerStep(c) PROVE ExecTypeOK'
    BY <1>3, ZenonT(30) DEF TimerStep, Fire, CancelReturns
  <1>4. CASE UNCHANGED execVars
    BY <1>4 DEF execVars
  <1> QED BY <1>1, <1>2, <1>3, <1>4 DEF ExecNext, Quiescent

\* The counter follows the set of abandoned workers: it gains a member only
\* when a caller gives its worker up and loses one only when that worker ends.
LEMMA SlotStep ==
    ASSUME IInv, [ExecNext]_execVars
    PROVE  SlotAccounting'
  <1> USE DEF IInv, ExecTypeOK, SlotAccounting
  <1>0. Abandoned \in SUBSET Calls
    BY DEF Abandoned
  <1>1. ASSUME NEW c \in Calls, CallerSettles(c) PROVE SlotAccounting'
    <2>1. CASE worker[c] = "exited"
      <3>1. Abandoned' = Abandoned /\ abandoned' = abandoned
        BY <1>1, <2>1 DEF CallerSettles, Abandoned
      <3> QED BY <3>1
    <2>2. CASE worker[c] # "exited"
      <3>1. c \notin Abandoned
        BY <1>1 DEF CallerSettles, Abandoned, CallsInv, CallInv
      <3>2. Abandoned' = Abandoned \cup {c} /\ abandoned' = abandoned + 1
        BY <1>1, <2>2 DEF CallerSettles, Abandoned
      <3> QED BY <3>1, <3>2, <1>0, GainOne
    <2> QED BY <2>1, <2>2
  <1>2. ASSUME NEW c \in Calls, WorkerSettles(c) PROVE SlotAccounting'
    <2>1. CASE gaveUp[c]
      <3>1. c \in Abandoned
        BY <1>2, <2>1 DEF WorkerSettles, Abandoned
      <3>2. Abandoned' = Abandoned \ {c} /\ abandoned' = abandoned - 1
        BY <1>2, <2>1 DEF WorkerSettles, Abandoned
      <3> QED BY <3>1, <3>2, <1>0, DropOne
    <2>2. CASE ~gaveUp[c]
      <3>1. Abandoned' = Abandoned /\ abandoned' = abandoned
        BY <1>2, <2>2 DEF WorkerSettles, Abandoned
      <3> QED BY <3>1
    <2> QED BY <2>1, <2>2
  <1>3. ASSUME NEW c \in Calls, StartWorker(c) PROVE SlotAccounting'
    <2>1. ~gaveUp[c]
      BY <1>3 DEF StartWorker, CallsInv, CallInv
    <2>2. Abandoned' = Abandoned /\ abandoned' = abandoned
      BY <1>3, <2>1 DEF StartWorker, Abandoned
    <2> QED BY <2>2
  <1>4. ASSUME NEW c \in Calls,
               \/ ConnectFails(c) \/ SendStatement(c) \/ UnwatchedReturns(c)
               \/ StatementSucceeds(c) \/ StatementFails(c) \/ Disarm(c)
        PROVE  SlotAccounting'
    <2>1. Abandoned' = Abandoned /\ abandoned' = abandoned
      BY <1>4 DEF ConnectFails, SendStatement, UnwatchedReturns,
                  StatementSucceeds, StatementFails, Disarm, Abandoned
    <2> QED BY <2>1
  <1>5. ASSUME NEW c \in Calls, Enter(c) \/ JoinReturns(c) \/ TimerStep(c)
        PROVE  SlotAccounting'
    <2>1. Abandoned' = Abandoned /\ abandoned' = abandoned
      BY <1>5 DEF Enter, JoinReturns, TimerStep, Fire, CancelReturns, Abandoned
    <2> QED BY <2>1
  <1>6. CASE UNCHANGED execVars
    BY <1>6 DEF execVars, Abandoned
  <1> QED BY <1>1, <1>2, <1>3, <1>4, <1>5, <1>6
          DEF ExecNext, CallerStep, WorkerStep, Quiescent

\* A call enters only below both bounds, and giving a worker up moves its call
\* out of flight as it takes the slot.
LEMMA BoundStep ==
    ASSUME IInv, [ExecNext]_execVars
    PROVE  OverrunBound'
  <1> USE DEF IInv, ExecTypeOK, OverrunBound
  <1>0. InFlight \in SUBSET Calls /\ Cardinality(InFlight) \in Nat
    BY CallSetsFinite DEF InFlight
  <1>1. ASSUME NEW c \in Calls, Enter(c) PROVE OverrunBound'
    <2>1. CASE abandoned >= MaxAbandoned
      <3>1. InFlight' = InFlight /\ abandoned' = abandoned
        BY <1>1, <2>1 DEF Enter, InFlight
      <3> QED BY <3>1
    <2>2. CASE ~(abandoned >= MaxAbandoned)
      <3>1. c \notin InFlight /\ Cardinality(InFlight) < HostThreads
        BY <1>1 DEF Enter, InFlight
      <3>2. InFlight' = InFlight \cup {c} /\ abandoned' = abandoned
        BY <1>1, <2>2 DEF Enter, InFlight
      <3>3. Cardinality(InFlight') = Cardinality(InFlight) + 1
        BY <3>1, <3>2, <1>0, GainOne
      <3> QED BY <3>1, <3>2, <3>3, <2>2, <1>0, BoundsAssumption
    <2> QED BY <2>1, <2>2
  <1>2. ASSUME NEW c \in Calls, CallerSettles(c) PROVE OverrunBound'
    <2>1. c \in InFlight /\ InFlight' = InFlight \ {c}
      BY <1>2 DEF CallerSettles, InFlight
    <2>2. Cardinality(InFlight') = Cardinality(InFlight) - 1
      BY <2>1, <1>0, DropOne
    <2>3. abandoned' \in {abandoned, abandoned + 1}
      BY <1>2 DEF CallerSettles
    <2> QED BY <2>2, <2>3, <1>0, BoundsAssumption
  <1>3. ASSUME NEW c \in Calls, StartWorker(c) \/ JoinReturns(c) PROVE OverrunBound'
    <2>1. InFlight' = InFlight /\ abandoned' = abandoned
      BY <1>3 DEF StartWorker, JoinReturns, InFlight
    <2> QED BY <2>1
  <1>4. ASSUME NEW c \in Calls, WorkerStep(c) \/ TimerStep(c) PROVE OverrunBound'
    <2>1. InFlight' = InFlight
      BY <1>4 DEF InFlight, WorkerStep, TimerStep, ConnectFails, SendStatement,
                  UnwatchedReturns, StatementSucceeds, StatementFails, Disarm,
                  WorkerSettles, Fire, CancelReturns
    <2>2. abandoned' \in {abandoned, abandoned - 1}
      BY <1>4 DEF WorkerStep, TimerStep, ConnectFails, SendStatement,
                  UnwatchedReturns, StatementSucceeds, StatementFails, Disarm,
                  WorkerSettles, Fire, CancelReturns
    <2> QED BY <2>1, <2>2, <1>0, BoundsAssumption
  <1>5. CASE UNCHANGED execVars
    BY <1>5 DEF execVars, InFlight
  <1> QED BY <1>1, <1>2, <1>3, <1>4, <1>5 DEF ExecNext, CallerStep, Quiescent

\* The inductive invariant holds in every reachable state.
THEOREM Inductive == ExecSpec => []IInv
  <1>1. IInv /\ [ExecNext]_execVars => IInv'
    BY CallsStep, TypeStep, SlotStep, BoundStep DEF IInv
  <1> QED BY InitInv, <1>1, PTL DEF ExecSpec

-----------------------------------------------------------------------------
\* Types are kept; in particular _abandoned_workers never goes negative.
THEOREM TypeCorrect == ExecSpec => []ExecTypeOK
  BY Inductive, PTL DEF IInv

\* _abandoned_workers is the number of workers given up and still running.
THEOREM SlotsAccounted == ExecSpec => []SlotAccounting
  BY Inductive, PTL DEF IInv

\* The bound the admission check of _execute_bounded does give.
THEOREM Overrun == ExecSpec => []OverrunBound
  BY Inductive, PTL DEF IInv

\* Every answer of _execute_bounded says what happened to its statement.
THEOREM Truthful == ExecSpec => []AnswersAreTrue
  <1>1. IInv => AnswersAreTrue
    BY DEF IInv, CallsInv, CallInv, AnswersAreTrue, ExecTypeOK, Outcomes
  <1> QED BY Inductive, <1>1, PTL

\* No cancel of _deadline outlives the block of its own statement.
THEOREM CancelsInTime == ExecSpec => []NoLateCancel
  <1>1. IInv => NoLateCancel
    BY DEF IInv, CallsInv, CallInv, NoLateCancel
  <1> QED BY Inductive, <1>1, PTL
(* ------------------------------------------------------------------------ *)
(* The trap report.                                                           *)


(* What building a statement keeps: a join connects two names in scope, and   *)
(* the joins of a SELECT, each bringing in a new name, form no triangle and   *)
(* no two of them connect the same names.                                     *)
JoinsHold ==
    \A j \in joins :
        /\ j.left # j.right /\ j.left \in InScope /\ j.right \in InScope
        /\ j.cols \subseteq Columns
        /\ \A i \in joins : Ends(i) = Ends(j) => i = j
NoTriangle ==
    \A i, j, n \in joins, x, y, z \in InScope :
        Ends(i) = {x, y} /\ Ends(j) = {y, z} /\ Ends(n) = {x, z} => x = y \/ y = z \/ x = z
TrapInv ==
    /\ model \in Models /\ DOMAIN bound = Tables
    /\ JoinsHold /\ NoTriangle
    /\ \A a \in aggs : a.reads \subseteq InScope

LEMMA JoinStep ==
    ASSUME TrapInv, NEW l \in Tables, NEW r \in Tables, NEW kind \in ReadKinds, NEW cs \in SUBSET Columns,
           Join(l, r, kind, cs), Absent \notin ReadKinds
    PROVE  TrapInv'
  <1> DEFINE new == [left |-> l, right |-> r, cols |-> cs]
  <1>1. /\ aggs = {} /\ bound[l] # Absent /\ bound[r] = Absent /\ bound' = [bound EXCEPT ![r] = kind]
        /\ joins' = joins \cup {new} /\ model' = model /\ aggs' = aggs
    BY DEF Join
  <1>2. model \in Models /\ DOMAIN bound = Tables /\ JoinsHold /\ NoTriangle
    BY DEF TrapInv
  <1>3. InScope' = InScope \cup {r} /\ l \in InScope /\ r \notin InScope
    BY <1>1, <1>2 DEF InScope
  <1>4. new.left = l /\ new.right = r /\ new.cols = cs /\ Ends(new) = {l, r}
    BY DEF Ends
  <1> HIDE DEF new
  <1>5. \A j \in joins : Ends(j) \subseteq InScope /\ r \notin Ends(j)
    BY <1>2, <1>3 DEF JoinsHold, Ends
  <1>6. JoinsHold'
    <2>1. ASSUME NEW j \in joins' PROVE /\ j.left # j.right /\ j.left \in InScope' /\ j.right \in InScope'
                                        /\ j.cols \subseteq Columns
      BY <1>1, <1>2, <1>3, <1>4 DEF JoinsHold
    <2>2. ASSUME NEW i \in joins', NEW j \in joins', Ends(i) = Ends(j) PROVE i = j
      BY <1>1, <1>2, <1>4, <1>5, <2>2 DEF JoinsHold
    <2> QED BY <2>1, <2>2 DEF JoinsHold, Ends
  <1>7. NoTriangle'
    <2>1. ASSUME NEW i \in joins', NEW j \in joins', NEW n \in joins',
                 NEW x \in InScope', NEW y \in InScope', NEW z \in InScope',
                 Ends(i) = {x, y}, Ends(j) = {y, z}, Ends(n) = {x, z}, x # y, y # z, x # z
          PROVE  FALSE
      <3>1. CASE x # r /\ y # r /\ z # r
        <4>1. i \in joins /\ j \in joins /\ n \in joins
          BY <1>1, <1>4, <2>1, <3>1
        <4> QED BY <1>2, <1>3, <2>1, <3>1, <4>1 DEF NoTriangle
      <3>2. CASE x = r
        <4>1. i = new /\ n = new
          BY <1>1, <1>5, <2>1, <3>2
        <4> QED BY <2>1, <4>1
      <3>3. CASE y = r
        <4>1. i = new /\ j = new
          BY <1>1, <1>5, <2>1, <3>3
        <4> QED BY <2>1, <4>1
      <3>4. CASE z = r
        <4>1. j = new /\ n = new
          BY <1>1, <1>5, <2>1, <3>4
        <4> QED BY <2>1, <4>1
      <3> QED BY <3>1, <3>2, <3>3, <3>4
    <2> QED BY <2>1 DEF NoTriangle, Ends
  <1>8. DOMAIN bound' = Tables /\ \A a \in aggs' : a.reads \subseteq InScope'
    BY <1>1, <1>2
  <1> QED BY <1>1, <1>2, <1>6, <1>7, <1>8 DEF TrapInv

LEMMA TrapStart == TrapInit => TrapInv
  BY DEF TrapInit, TrapInv, JoinsHold, NoTriangle

LEMMA SelectStep ==
    ASSUME TrapInv, NEW as, Select(as)
    PROVE  TrapInv'
  <1>1. /\ model' = model /\ bound' = bound /\ joins' = joins
        /\ aggs' = as /\ \A a \in as : a.reads \subseteq InScope
    BY DEF Select
  <1>2. InScope' = InScope
    BY <1>1 DEF InScope
  <1>3. JoinsHold'
    BY <1>1, <1>2 DEF TrapInv, JoinsHold, Ends
  <1>4. NoTriangle'
    <2>1. NoTriangle
      BY DEF TrapInv
    <2>2. ASSUME NEW i \in joins', NEW j \in joins', NEW n \in joins',
                 NEW x \in InScope', NEW y \in InScope', NEW z \in InScope',
                 Ends(i) = {x, y}, Ends(j) = {y, z}, Ends(n) = {x, z}
          PROVE  x = y \/ y = z \/ x = z
      BY <1>1, <1>2, <2>1, <2>2 DEF NoTriangle
    <2> QED BY <2>2 DEF NoTriangle, Ends
  <1> QED BY <1>1, <1>2, <1>3, <1>4 DEF TrapInv

LEMMA TrapStutters ==
    ASSUME TrapInv, UNCHANGED <<model, bound, joins, aggs>>
    PROVE  TrapInv'
  BY DEF TrapInv, JoinsHold, NoTriangle, InScope

LEMMA TrapStep == TrapInv /\ [TrapNext]_trapVars => TrapInv'
  <1> SUFFICES ASSUME TrapInv, [TrapNext]_trapVars PROVE TrapInv'
    OBVIOUS
  <1>1. ASSUME NEW l \in Tables, NEW r \in Tables, NEW kind \in ReadKinds, NEW cs \in SUBSET Columns, Join(l, r, kind, cs)
        PROVE  TrapInv'
    BY <1>1, JoinStep, KindsAssumption DEF Absent, Bindings
  <1>2. ASSUME NEW s \in Scopes, JoinElsewhere(s) PROVE TrapInv'
    BY <1>2, TrapStutters DEF JoinElsewhere
  <1>3. ASSUME NEW as \in Selections, Select(as) PROVE TrapInv'
    BY <1>3, SelectStep
  <1>4. CASE UNCHANGED trapVars
    BY <1>4, TrapStutters DEF trapVars
  <1> QED BY <1>1, <1>2, <1>3, <1>4, Zenon DEF TrapNext

LEMMA TrapInvariant == TrapSpec => []TrapInv
  BY TrapStart, TrapStep, PTL DEF TrapSpec

(* ------------------------------------------------------------------------ *)
(* A number that is said to be unaffected.                                    *)

LEMMA Cleared ==
    ASSUME NEW a, ResultAffected(a) = "no", ~a.immune
    PROVE  /\ ~Chasm(a) /\ ~Fan(a) /\ ~PartialKey(a) /\ Resolved(a)
           /\ \A j \in joins : Weighed(j)
  BY DEF ResultAffected, Status, MultiplicationStatus

LEMMA OtherEnd ==
    ASSUME TrapInv, NEW j \in joins, NEW t \in Ends(j)
    PROVE  /\ Other(j, t) # t /\ Ends(j) = {t, Other(j, t)} /\ Other(j, t) \in InScope /\ t \in InScope
           /\ Other(j, Other(j, t)) = t
  <1>1. j.left # j.right /\ j.left \in InScope /\ j.right \in InScope /\ Ends(j) = {j.left, j.right}
    BY DEF TrapInv, JoinsHold, Ends
  <1>2. Other(j, j.left) = j.right /\ Other(j, j.right) = j.left
    BY <1>1 DEF Other
  <1> QED BY <1>1, <1>2

LEMMA EdgesAre ==
    ASSUME TrapInv, NEW e \in model.edges
    PROVE  e.ones # {} /\ e.ones \subseteq e.ends
  <1>1. e \in Edge
    BY ModelsAssumption DEF TrapInv
  <1> QED BY <1>1 DEF Edge

(* A join along a whole key of the index is one of the statement's edges,     *)
(* unless it is reported as partial.                                          *)
LEMMA Written ==
    ASSUME NEW j \in joins, NEW e \in CardinalityIndex, e.ends = Ends(j), e.on \subseteq j.cols, e \notin PartialKeyJoins
    PROVE  e \in Edges
  <1>1. j.cols \subseteq WrittenOn(e.ends)
    BY DEF WrittenOn
  <1> DEFINE matching == {f \in CardinalityIndex : f.ends = e.ends /\ f.on \subseteq WrittenOn(e.ends)}
  <1>2. e \in matching
    BY <1>1
  <1>3. e \in EdgesAsWritten(CardinalityIndex)
    BY <1>2 DEF EdgesAsWritten
  <1> QED BY <1>3 DEF Edges

LEMMA NotPartial ==
    ASSUME NEW a, ~PartialKey(a), NEW e, e.ends \cap Sources(a) # {}
    PROVE  e \notin PartialKeyJoins
  BY DEF PartialKey

LEMMA ToldByFan ==
    ASSUME NEW a, NEW t \in Sources(a), NEW o \in InScope \ {t}, o \notin ValueSources(a),
           NEW e \in Edges, e.ends = {t, o}, e.ones = {t}
    PROVE  Fan(a)
  <1>1. e \in OneSideFacingMany(t, InScope \ {t})
    BY DEF OneSideFacingMany
  <1>2. ~(e.ends \ {t} \subseteq ValueSources(a))
    OBVIOUS
  <1> QED BY <1>1, <1>2 DEF Fan

(* The declaration of a weighed join of two tables that may repeat one.       *)
LEMMA DeclaredJoin ==
    ASSUME TrapInv, NEW j \in joins, Weighed(j), NEW t \in Ends(j), CanRepeat(j, t),
           bound[t] = "table", bound[Other(j, t)] = "table"
    PROVE  \E e \in CardinalityIndex : e.ends = {t, Other(j, t)} /\ e.ones = {t} /\ e.on \subseteq j.cols
  <1> DEFINE o == Other(j, t)
  <1>1. Ends(j) = {t, o} /\ o # t
    BY OtherEnd
  <1>2. \A u \in Ends(j) : bound[u] = "table"
    BY <1>1
  <1>3. UniqueSets(o) = model.keys[o] \cup {e.on : e \in {f \in model.edges : o \in f.ones}}
    BY DEF UniqueSets, Declared
  <1>4. \A u \in UniqueSets(o) : ~(u \subseteq j.cols)
    BY DEF CanRepeat
  <1> HIDE DEF o
  <1>5. j.cols \notin model.keys[o]
    BY <1>3, <1>4
  <1>6. ~KeyedOneToOne(j)
    BY <1>1, <1>5 DEF KeyedOneToOne, UniqueOn
  <1>7. JoinSiteStatus(j) \in {"declared", "undeclarable"}
    BY <1>6 DEF Weighed
  <1>8. \E e \in model.edges : e.ends = Ends(j) /\ e.on \subseteq j.cols
    BY <1>2, <1>7 DEF JoinSiteStatus
  <1>9. PICK e \in model.edges : e.ends = Ends(j) /\ e.on \subseteq j.cols
    BY <1>8
  <1>10. o \notin e.ones
    <2>1. o \in e.ones => e.on \in UniqueSets(o)
      BY <1>3
    <2> QED BY <1>4, <1>9, <2>1
  <1>11. e.ones = {t}
    BY <1>1, <1>9, <1>10, EdgesAre
  <1>12. e \in CardinalityIndex
    BY <1>2, <1>9 DEF CardinalityIndex
  <1> QED BY <1>1, <1>9, <1>11, <1>12 DEF o

(* The edge of the one equality on a grouping CTE that may repeat a table.    *)
LEMMA DerivedJoin ==
    ASSUME TrapInv, NEW j \in joins, NEW t \in Ends(j), CanRepeat(j, t), j.cols # {},
           bound[Other(j, t)] = "grouped", ~Unread(Other(j, t))
    PROVE  \E e \in CardinalityIndex : e.ends = {t, Other(j, t)} /\ e.ones = {t} /\ e.on \subseteq j.cols
  <1> DEFINE o == Other(j, t)
             edge == [ends |-> Ends(j), on |-> j.cols, ones |-> InferOnes(o, t, j.cols)]
  <1>1. Ends(j) = {t, o} /\ o # t /\ Other(j, o) = t /\ o \in InScope /\ j.cols \subseteq Columns
    BY OtherEnd DEF TrapInv, JoinsHold
  <1>2. CteEdges(o) # {}
    BY DEF Unread
  <1>3. bound[o] = "grouped"
    OBVIOUS
  <1>4. UniqueSets(o) = {grain[o]} \ {{}}
    BY DEF UniqueSets, Declared
  <1>5. \A u \in UniqueSets(o) : ~(u \subseteq j.cols)
    BY DEF CanRepeat
  <1> HIDE DEF o
  <1> DEFINE touching == {k \in joins : o \in Ends(k)}
             fit == {k \in touching : k.cols # {} /\ Declared(Other(k, o)) /\ model.keys[Other(k, o)] # {}}
             all == {[ends |-> Ends(k), on |-> k.cols, ones |-> InferOnes(o, Other(k, o), k.cols)] : k \in fit}
  <1>6. /\ grain[o] # {} /\ \E q \in EqualitiesOf(o) : EqualitiesOf(o) = {q}
        /\ CteEdges(o) = all
    BY <1>2, <1>3 DEF CteEdges
  <1>7. PICK n \in fit : TRUE
    BY <1>2, <1>6
  <1>8. n = j
    <2>1. ASSUME NEW k \in joins, o \in Ends(k), NEW c \in k.cols PROVE <<k, c>> \in EqualitiesOf(o)
      BY <2>1 DEF EqualitiesOf, TrapInv, JoinsHold
    <2>2. PICK c \in j.cols : TRUE
      OBVIOUS
    <2>3. PICK b \in n.cols : TRUE
      OBVIOUS
    <2>4. <<j, c>> \in EqualitiesOf(o) /\ <<n, b>> \in EqualitiesOf(o)
      BY <1>1, <2>1, <2>2, <2>3
    <2>5. <<j, c>> = <<n, b>>
      BY <1>6, <2>4
    <2> QED BY <2>5
  <1>9. edge \in CteEdges(o)
    BY <1>1, <1>6, <1>7, <1>8
  <1>10. edge \in CardinalityIndex
    BY <1>1, <1>9 DEF CardinalityIndex
  <1>11. j.cols # grain[o]
    BY <1>4, <1>5, <1>6
  <1>12. edge.ends = {t, o} /\ edge.on = j.cols /\ edge.ones = {t}
    <2>1. InferOnes(o, t, j.cols) = {t}
      BY <1>11 DEF InferOnes, UniqueOn
    <2> QED BY <1>1, <2>1
  <1> QED BY <1>10, <1>12 DEF o

LEMMA NearIsTold ==
    ASSUME TrapInv, NEW a \in aggs, ResultAffected(a) = "no", ~a.immune, NEW j \in joins, KnownJoin(j)
    PROVE  ~NearFan(a, j)
  <1> SUFFICES ASSUME NEW t \in Sources(a) \cap Ends(j), CanRepeat(j, t), Other(j, t) \notin ValueSources(a)
               PROVE  FALSE
    BY DEF NearFan
  <1> DEFINE o == Other(j, t)
  <1>1. ~Fan(a) /\ ~PartialKey(a) /\ Resolved(a) /\ Weighed(j)
    BY Cleared
  <1>2. Ends(j) = {t, o} /\ o # t /\ o \in InScope
    BY OtherEnd
  <1>3. t \in a.reads /\ bound[t] \in {"table", "same"} /\ ~Unread(o)
    BY <1>1, <1>2 DEF Resolved, Sources, Declared
  <1>4. bound[t] = "table" /\ bound[o] \in {"table", "grouped"} /\ (bound[o] = "grouped" => j.cols # {})
    BY <1>2, <1>3 DEF KnownJoin
  <1>5. \E e \in CardinalityIndex : e.ends = {t, o} /\ e.ones = {t} /\ e.on \subseteq j.cols
    <2>1. CASE bound[o] = "table"
      BY <1>1, <1>4, <2>1, DeclaredJoin
    <2>2. CASE bound[o] = "grouped"
      BY <1>3, <1>4, <2>2, DerivedJoin
    <2> QED BY <1>4, <2>1, <2>2
  <1>6. PICK e \in CardinalityIndex : e.ends = {t, o} /\ e.ones = {t} /\ e.on \subseteq j.cols
    BY <1>5
  <1>7. e \in Edges
    BY <1>1, <1>2, <1>6, NotPartial, Written
  <1> QED BY <1>1, <1>2, <1>6, <1>7, ToldByFan

LEMMA MeasuresAreTold ==
    ASSUME TrapInv, NEW a \in aggs, ResultAffected(a) = "no", ~a.immune,
           \A t \in InScope : bound[t] = "table", \A d, e \in SharedDimensions : d = e
    PROVE  ~MeasuredFan(a)
  <1> SUFFICES ASSUME NEW t \in Sources(a), NEW j \in joins, NEW k \in joins, t \in Ends(j), j # k,
                      Other(j, t) \in Ends(k), CanRepeat(j, Other(j, t)), CanRepeat(k, Other(j, t)),
                      Other(k, Other(j, t)) \in AggSources \ Sources(a), Other(j, t) \notin AggSources
               PROVE  FALSE
    BY DEF MeasuredFan
  <1> DEFINE dim == Other(j, t)
             far == Other(k, dim)
  <1>1. ~Chasm(a) /\ ~PartialKey(a) /\ Weighed(j) /\ Weighed(k)
    BY Cleared
  <1>2. /\ Ends(j) = {t, dim} /\ dim # t /\ dim \in InScope /\ t \in InScope /\ Other(j, dim) = t
        /\ Ends(k) = {dim, far} /\ far # dim /\ far \in InScope
    BY OtherEnd
  <1>3. far # t /\ t \in AggSources /\ far \in AggSources
    BY DEF AggSources
  <1>4. bound[t] = "table" /\ bound[dim] = "table" /\ bound[far] = "table"
    BY <1>2
  <1>5. PICK e \in CardinalityIndex : e.ends = {dim, t} /\ e.ones = {dim} /\ e.on \subseteq j.cols
    BY <1>1, <1>2, <1>4, DeclaredJoin
  <1>6. PICK f \in CardinalityIndex : f.ends = {dim, far} /\ f.ones = {dim} /\ f.on \subseteq k.cols
    BY <1>1, <1>2, <1>4, DeclaredJoin
  <1> HIDE DEF dim, far
  <1>7. ASSUME NEW n \in joins, NEW g \in CardinalityIndex, g.ends = Ends(n), g.on \subseteq n.cols
        PROVE  g \in Edges
    <2>1. \A m \in joins : Ends(m) = g.ends => m = n
      BY <1>7 DEF TrapInv, JoinsHold
    <2>2. g \notin PartialKeyJoins
      BY <1>7, <2>1 DEF PartialKeyJoins
    <2> QED BY <1>7, <2>2, Written
  <1>8. e \in Edges /\ f \in Edges
    BY <1>2, <1>5, <1>6, <1>7
  <1>9. ManySideFacingOne(t, dim) /\ ManySideFacingOne(far, dim)
    BY <1>5, <1>6, <1>8 DEF ManySideFacingOne
  <1>10. {t, far} \notin Joined
    <2>1. ASSUME NEW n \in joins, Ends(n) = {t, far} PROVE FALSE
      <3>1. Ends(j) = {t, dim} /\ Ends(k) = {dim, far}
        BY <1>2
      <3> QED BY <1>2, <1>3, <2>1, <3>1 DEF TrapInv, NoTriangle
    <2> QED BY <2>1 DEF Joined
  <1>11. dim \in SharedDimensions
    <2>1. Crossed(t, far, dim)
      BY <1>3, <1>9, <1>10 DEF Crossed
    <2> QED BY <1>2, <1>3, <2>1 DEF SharedDimensions, dim
  <1>12. (CHOOSE d \in SharedDimensions : TRUE) = dim
    BY <1>11
  <1> QED BY <1>1, <1>9, <1>11, <1>12 DEF Chasm

(* For any tables, columns, models and number of joins: a number that the     *)
(* receipt says no join affects has no join next to it that can repeat its    *)
(* rows, and shares no dimension with another measure that does               *)
(* (runtime.py, _preflight_select and _downgrade_unweighed).                  *)
THEOREM NearFansAreTold == TrapSpec => []NearFanIsTold
  <1>1. TrapInv => NearFanIsTold
    BY NearIsTold, MeasuresAreTold DEF NearFanIsTold
  <1> QED BY <1>1, TrapInvariant, PTL

-----------------------------------------------------------------------------
\* The score of an answer, of any two results: what the comparator pairs and
\* counts is worked out with folds, so what they come to is shown first of a
\* set (a function that folds exists), then of lists, of a pass over the
\* columns, of the two stages of the pairing, and last of the score.

\* Induction on the natural numbers, of a set.
LEMMA SetInduction ==
    ASSUME NEW A, A \subseteq Nat, 0 \in A, \A n \in A : n + 1 \in A
    PROVE  A = Nat
  <1> SUFFICES ASSUME NEW a \in Nat \ A PROVE FALSE
    OBVIOUS
  <1> DEFINE T == Nat \ A
  <1>1. IsWellFoundedOn(OpToRel(<, Nat), Nat)
    BY NatLessThanWellFounded
  <1>2. PICK x \in T : \A y \in T : ~(<<y, x>> \in OpToRel(<, Nat))
    BY <1>1, WFMin
  <1>3. x \in Nat /\ x # 0
    BY <1>2
  <1>4. x - 1 \in Nat /\ <<x - 1, x>> \in OpToRel(<, Nat)
    BY <1>3 DEF OpToRel
  <1>5. x - 1 \in A
    BY <1>2, <1>4
  <1>6. (x - 1) + 1 \in A
    BY <1>5
  <1>7. (x - 1) + 1 = x
    BY <1>3
  <1> QED BY <1>2, <1>6, <1>7

\* A set of subsets of a finite set that has the empty one, and each that has
\* what is left of it when an element is taken away, has them all.
LEMMA SubsetInduction ==
    ASSUME NEW S, IsFiniteSet(S), NEW A, A \subseteq SUBSET S, {} \in A,
           \A X \in SUBSET S : X # {} /\ (\A x \in X : X \ {x} \in A) => X \in A
    PROVE  A = SUBSET S
  <1> DEFINE B == {n \in Nat : \A X \in SUBSET S : Cardinality(X) = n => X \in A}
  <1>0. \A X \in SUBSET S : IsFiniteSet(X) /\ Cardinality(X) \in Nat /\ (Cardinality(X) = 0 <=> X = {})
    <2>1. \A X \in SUBSET S : IsFiniteSet(X)
      BY FS_Subset
    <2> QED BY <2>1, FS_CardinalityType, FS_EmptySet
  <1>1. 0 \in B
    BY <1>0
  <1>2. ASSUME NEW n \in B PROVE n + 1 \in B
    <2>1. ASSUME NEW X \in SUBSET S, Cardinality(X) = n + 1 PROVE X \in A
      <3>1. X # {}
        BY <2>1, <1>0
      <3>2. ASSUME NEW x \in X PROVE X \ {x} \in A
        <4>1. Cardinality(X \ {x}) = Cardinality(X) - 1
          BY <1>0, FS_RemoveElement
        <4>2. Cardinality(X \ {x}) = n /\ X \ {x} \in SUBSET S
          BY <4>1, <2>1
        <4> QED BY <4>2
      <3> QED BY <3>1, <3>2
    <2> QED BY <2>1
  <1>3. B = Nat
    <2> HIDE DEF B
    <2>1. B \subseteq Nat
      BY DEF B
    <2> QED BY <1>1, <1>2, <2>1, SetInduction
  <1>4. ASSUME NEW X \in SUBSET S PROVE X \in A
    <2>1. Cardinality(X) \in B
      BY <1>0, <1>3
    <2> QED BY <2>1
  <1> QED BY <1>4

\* What a MapThenFoldSet over S is, at every subset of S.
Folds(base, step, pick, S, h) ==
    h = [X \in SUBSET S |-> IF X = {} THEN base ELSE step[<<h[X \ {pick[X]}], pick[X]>>]]
Picks(pick, S) ==
    /\ pick \in [(SUBSET S) \ {{}} -> S]
    /\ \A X \in (SUBSET S) \ {{}} : pick[X] \in X

\* There is a function that folds over every subset of a finite set.
LEMMA FoldExists ==
    ASSUME NEW S, IsFiniteSet(S), NEW V, NEW base \in V, NEW step \in [V \X S -> V], NEW pick, Picks(pick, S)
    PROVE  \E h : h \in [SUBSET S -> V] /\ Folds(base, step, pick, S, h)
  <1> DEFINE D(k) == {X \in SUBSET S : Cardinality(X) <= k}
             Is(k, f) == /\ f \in [D(k) -> V]
                         /\ f = [X \in D(k) |-> IF X = {} THEN base ELSE step[<<f[X \ {pick[X]}], pick[X]>>]]
             A == {k \in Nat : \E f : Is(k, f)}
  <1>0. \A X \in SUBSET S : IsFiniteSet(X) /\ Cardinality(X) \in Nat /\ (Cardinality(X) = 0 <=> X = {})
    <2>1. \A X \in SUBSET S : IsFiniteSet(X)
      BY FS_Subset
    <2> QED BY <2>1, FS_CardinalityType, FS_EmptySet
  <1>a. ASSUME NEW X \in SUBSET S, X # {}
        PROVE  pick[X] \in S /\ X \ {pick[X]} \in SUBSET S /\ Cardinality(X \ {pick[X]}) = Cardinality(X) - 1
    <2>1. pick[X] \in X
      BY <1>a DEF Picks
    <2> QED BY <1>0, <2>1, FS_RemoveElement
  <1>1. 0 \in A
    <2>1. D(0) = {{}}
      BY <1>0
    <2>2. Is(0, [X \in D(0) |-> base])
      BY <2>1
    <2> QED BY <2>2
  <1>2. ASSUME NEW k \in A PROVE k + 1 \in A
    <2>1. PICK f : Is(k, f)
      OBVIOUS
    <2> DEFINE g == [X \in D(k + 1) |-> IF X \in D(k) THEN f[X] ELSE step[<<f[X \ {pick[X]}], pick[X]>>]]
    <2>0. D(k) \subseteq D(k + 1) /\ {} \in D(k) /\ k \in Nat
      BY <1>0, FS_EmptySet
    <2>2. ASSUME NEW X \in D(k + 1), X # {} PROVE X \ {pick[X]} \in D(k) /\ pick[X] \in S
      <3>1. X \in SUBSET S /\ Cardinality(X) <= k + 1
        BY <2>2
      <3>2. X \ {pick[X]} \in SUBSET S /\ Cardinality(X \ {pick[X]}) = Cardinality(X) - 1 /\ pick[X] \in S
        BY <2>2, <3>1, <1>a
      <3>3. Cardinality(X \ {pick[X]}) <= k
        BY <3>1, <3>2, <2>0, <1>0
      <3> QED BY <3>2, <3>3
    <2>3. \A X \in D(k) : g[X] = f[X]
      BY <2>0
    <2>4. ASSUME NEW X \in D(k + 1)
          PROVE  g[X] \in V /\ g[X] = IF X = {} THEN base ELSE step[<<g[X \ {pick[X]}], pick[X]>>]
      <3>1. CASE X = {}
        <4>1. f[X] = base
          BY <3>1, <2>0, <2>1
        <4> QED BY <3>1, <4>1, <2>0, <2>3
      <3>2. CASE X # {} /\ X \in D(k)
        <4>1. f[X] = step[<<f[X \ {pick[X]}], pick[X]>>] /\ f[X] \in V
          BY <3>2, <2>1
        <4>2. g[X] = f[X] /\ g[X \ {pick[X]}] = f[X \ {pick[X]}]
          BY <3>2, <2>2, <2>3
        <4> HIDE DEF g
        <4> QED BY <3>2, <4>1, <4>2
      <3>3. CASE X # {} /\ X \notin D(k)
        <4>1. g[X] = step[<<f[X \ {pick[X]}], pick[X]>>]
          BY <3>3
        <4>2. X \ {pick[X]} \in D(k) /\ pick[X] \in S
          BY <3>3, <2>2
        <4>3. f[X \ {pick[X]}] \in V /\ g[X \ {pick[X]}] = f[X \ {pick[X]}]
          BY <4>2, <2>1, <2>3
        <4> HIDE DEF g, D
        <4> QED BY <3>3, <4>1, <4>2, <4>3
      <3> QED BY <3>1, <3>2, <3>3
    <2>5. g = [X \in D(k + 1) |-> g[X]]
      OBVIOUS
    <2> HIDE DEF g, D
    <2>6. g \in [D(k + 1) -> V]
      BY <2>4, <2>5
    <2>7. g = [X \in D(k + 1) |-> IF X = {} THEN base ELSE step[<<g[X \ {pick[X]}], pick[X]>>]]
      <3>1. \A X \in D(k + 1) : g[X] = IF X = {} THEN base ELSE step[<<g[X \ {pick[X]}], pick[X]>>]
        BY <2>4
      <3> DEFINE of(X) == IF X = {} THEN base ELSE step[<<g[X \ {pick[X]}], pick[X]>>]
      <3>2. \A X \in D(k + 1) : g[X] = of(X)
        BY <3>1
      <3> HIDE DEF of
      <3>3. g = [X \in D(k + 1) |-> of(X)]
        BY <3>2, <2>5
      <3> QED BY <3>3 DEF of
    <2>8. Is(k + 1, g)
      BY <2>6, <2>7
    <2> HIDE DEF Is
    <2> QED BY <2>8, <2>0
  <1>3. A = Nat
    <2> HIDE DEF A
    <2>1. A \subseteq Nat
      BY DEF A
    <2> QED BY <1>1, <1>2, <2>1, SetInduction
  <1>4. D(Cardinality(S)) = SUBSET S
    <2>1. \A X \in SUBSET S : Cardinality(X) <= Cardinality(S)
      BY FS_Subset
    <2> QED BY <2>1
  <1>5. PICK f : Is(Cardinality(S), f)
    <2>1. Cardinality(S) \in A
      BY <1>0, <1>3
    <2> QED BY <2>1
  <1> HIDE DEF D
  <1> QED BY <1>4, <1>5 DEF Folds

\* The places of a sequence that hold x, and those that hold one of X.
PlacesOf(s, x) == {k \in DOMAIN s : s[k] = x}
PlacesIn(s, X) == {k \in DOMAIN s : s[k] \in X}
Least(s, u, x) == Min({Counter(s)[x], Counter(u)[x]})
LeastFold(s, u, S, h) ==
    h = [X \in SUBSET S |-> IF X = {} THEN 0
                            ELSE Least(s, u, CHOOSE x \in X : TRUE) + h[X \ {CHOOSE x \in X : TRUE}]]

\* Overlap of unordered lists, as a fold over the elements they share.
LEMMA OverlapIsFold ==
    ASSUME NEW s, NEW u
    PROVE  Overlap(s, u, FALSE) =
             (CHOOSE h : LeastFold(s, u, ToSet(s) \cap ToSet(u), h))[ToSet(s) \cap ToSet(u)]
  BY DEF Overlap, MapThenSumSet, MapThenFoldSet, LeastFold, Least

\* Places of a list of n are some of n, and the list has finitely many elements.
LEMMA PlacesAreFinite ==
    ASSUME NEW T, NEW n \in Nat, NEW s \in [1..n -> T]
    PROVE  /\ IsFiniteSet(1..n) /\ Cardinality(1..n) = n
           /\ \A x : PlacesOf(s, x) \subseteq 1..n /\ IsFiniteSet(PlacesOf(s, x)) /\ Cardinality(PlacesOf(s, x)) \in Nat
           /\ \A X : PlacesIn(s, X) \subseteq 1..n /\ IsFiniteSet(PlacesIn(s, X)) /\ Cardinality(PlacesIn(s, X)) \in Nat
                     /\ Cardinality(PlacesIn(s, X)) <= n
                     /\ (Cardinality(PlacesIn(s, X)) = n => PlacesIn(s, X) = 1..n)
           /\ IsFiniteSet(ToSet(s)) /\ \A k \in 1..n : s[k] \in ToSet(s)
  <1>1. IsFiniteSet(1..n) /\ Cardinality(1..n) = n
    <2>1. Cardinality(1..n) = IF 1 > n THEN 0 ELSE n - 1 + 1
      BY FS_Interval
    <2> QED BY <2>1, FS_Interval
  <1>2. ASSUME NEW P \in SUBSET (1..n)
        PROVE  IsFiniteSet(P) /\ Cardinality(P) \in Nat /\ Cardinality(P) <= n /\ (Cardinality(P) = n => P = 1..n)
    <2>1. IsFiniteSet(P) /\ Cardinality(P) <= Cardinality(1..n) /\ (Cardinality(1..n) = Cardinality(P) => 1..n = P)
      BY <1>1, FS_Subset
    <2> QED BY <1>1, <2>1, FS_CardinalityType
  <1>3. \A x : PlacesOf(s, x) \in SUBSET (1..n)
    BY DEF PlacesOf
  <1>4. \A X : PlacesIn(s, X) \in SUBSET (1..n)
    BY DEF PlacesIn
  <1>5. IsFiniteSet(ToSet(s)) /\ \A k \in 1..n : s[k] \in ToSet(s)
    <2>1. DOMAIN s = 1..n /\ ToSet(s) = {s[k] : k \in 1..n}
      BY DEF ToSet
    <2>2. s \in Surjection(1..n, ToSet(s))
      BY <2>1 DEF Surjection
    <2> QED BY <1>1, <2>1, <2>2, FS_Surjection
  <1> QED BY <1>1, <1>2, <1>3, <1>4, <1>5

\* An element that both lists have counts for no more than its places in either.
LEMMA LeastIs ==
    ASSUME NEW T, NEW n \in Nat, NEW s \in [1..n -> T], NEW u \in [1..n -> T], NEW x \in ToSet(s) \cap ToSet(u)
    PROVE  /\ Least(s, u, x) \in Nat
           /\ Least(s, u, x) <= Cardinality(PlacesOf(s, x))
           /\ Least(s, u, x) = Cardinality(PlacesOf(s, x))
                <=> Cardinality(PlacesOf(s, x)) <= Cardinality(PlacesOf(u, x))
  <1>1. Counter(s)[x] = Cardinality(PlacesOf(s, x)) /\ Counter(u)[x] = Cardinality(PlacesOf(u, x))
    BY DEF Counter, PlacesOf
  <1>2. Cardinality(PlacesOf(s, x)) \in Nat /\ Cardinality(PlacesOf(u, x)) \in Nat
    BY PlacesAreFinite
  <1>3. ASSUME NEW a \in Nat, NEW b \in Nat PROVE Min({a, b}) = IF a <= b THEN a ELSE b
    BY DEF Min
  <1> QED BY <1>1, <1>2, <1>3 DEF Least

\* The places of the elements of X are those of one of them and of the rest.
LEMMA PlacesAdd ==
    ASSUME NEW T, NEW n \in Nat, NEW s \in [1..n -> T], NEW X, NEW x \in X
    PROVE  Cardinality(PlacesIn(s, X)) = Cardinality(PlacesIn(s, X \ {x})) + Cardinality(PlacesOf(s, x))
  <1> DEFINE P == PlacesIn(s, X \ {x})
             Q == PlacesOf(s, x)
  <1>1. IsFiniteSet(P) /\ IsFiniteSet(Q) /\ Cardinality(P) \in Nat /\ Cardinality(Q) \in Nat
    BY PlacesAreFinite
  <1>2. PlacesIn(s, X) = P \cup Q /\ P \cap Q = {}
    BY DEF PlacesIn, PlacesOf
  <1> HIDE DEF P, Q
  <1>3. Cardinality(P \cup Q) = Cardinality(P) + Cardinality(Q) - Cardinality(P \cap Q)
    BY <1>1, FS_Union
  <1>4. Cardinality(P \cap Q) = 0
    BY <1>2, FS_EmptySet
  <1> QED BY <1>1, <1>2, <1>3, <1>4 DEF P, Q

\* What unordered lists share, against the places of the elements both have.
LEMMA OverlapSum ==
    ASSUME NEW T, NEW n \in Nat, NEW s \in [1..n -> T], NEW u \in [1..n -> T]
    PROVE  LET S == ToSet(s) \cap ToSet(u)
           IN  /\ Overlap(s, u, FALSE) \in Nat
               /\ Overlap(s, u, FALSE) <= Cardinality(PlacesIn(s, S))
               /\ Overlap(s, u, FALSE) = Cardinality(PlacesIn(s, S))
                    <=> \A x \in S : Cardinality(PlacesOf(s, x)) <= Cardinality(PlacesOf(u, x))
  <1> DEFINE S == ToSet(s) \cap ToSet(u)
             one(X) == CHOOSE x \in X : TRUE
             pick == [X \in (SUBSET S) \ {{}} |-> one(X)]
             step == [v \in Nat \X S |-> Least(s, u, v[2]) + v[1]]
             h == CHOOSE h : LeastFold(s, u, S, h)
             fits(x) == Cardinality(PlacesOf(s, x)) <= Cardinality(PlacesOf(u, x))
             A == {X \in SUBSET S : /\ h[X] \in Nat
                                    /\ h[X] <= Cardinality(PlacesIn(s, X))
                                    /\ h[X] = Cardinality(PlacesIn(s, X)) <=> \A x \in X : fits(x)}
  <1>1. IsFiniteSet(S)
    <2>1. IsFiniteSet(ToSet(s))
      BY PlacesAreFinite
    <2> QED BY <2>1, FS_Intersection
  <1>2. \A x \in S : /\ Least(s, u, x) \in Nat
                     /\ Least(s, u, x) <= Cardinality(PlacesOf(s, x))
                     /\ Least(s, u, x) = Cardinality(PlacesOf(s, x)) <=> fits(x)
    BY LeastIs
  <1>3. Overlap(s, u, FALSE) = h[S]
    BY OverlapIsFold
  <1>4. \A X \in (SUBSET S) \ {{}} : one(X) \in X
    OBVIOUS
  <1> HIDE DEF S, one
  <1>5. Picks(pick, S) /\ \A X \in (SUBSET S) \ {{}} : pick[X] = one(X)
    BY <1>4 DEF Picks
  <1>6. step \in [Nat \X S -> Nat] /\ \A v \in Nat, x \in S : step[<<v, x>>] = Least(s, u, x) + v
    BY <1>2
  <1> HIDE DEF step, pick
  <1>7. LeastFold(s, u, S, h)
    <2>1. 0 \in Nat
      OBVIOUS
    <2>2. PICK g : g \in [SUBSET S -> Nat] /\ Folds(0, step, pick, S, g)
      BY <1>1, <1>5, <1>6, <2>1, FoldExists
    <2> DEFINE of(X) == IF X = {} THEN 0 ELSE Least(s, u, one(X)) + g[X \ {one(X)}]
    <2>3. ASSUME NEW X \in SUBSET S PROVE g[X] = of(X)
      <3>1. CASE X = {}
        BY <3>1, <2>2 DEF Folds
      <3>2. CASE X # {}
        <4>1. g[X] = step[<<g[X \ {pick[X]}], pick[X]>>] /\ pick[X] = one(X)
          BY <3>2, <2>2, <1>5 DEF Folds
        <4>2. one(X) \in S /\ X \ {one(X)} \in SUBSET S /\ g[X \ {one(X)}] \in Nat
          BY <3>2, <1>4, <2>2
        <4>3. step[<<g[X \ {one(X)}], one(X)>>] = Least(s, u, one(X)) + g[X \ {one(X)}]
          BY <4>2, <1>6
        <4> QED BY <3>2, <4>1, <4>3
      <3> QED BY <3>1, <3>2
    <2> HIDE DEF of
    <2>4. g = [X \in SUBSET S |-> of(X)]
      BY <2>2, <2>3
    <2>5. LeastFold(s, u, S, g)
      BY <2>4 DEF LeastFold, of, one
    <2> QED BY <2>5
  <1> HIDE DEF h
  <1>8. h[{}] = 0 /\ \A X \in (SUBSET S) \ {{}} : h[X] = Least(s, u, one(X)) + h[X \ {one(X)}]
    BY <1>7 DEF LeastFold, one
  <1>9. {} \in A
    <2>1. PlacesIn(s, {}) = {}
      BY DEF PlacesIn
    <2>2. Cardinality(PlacesIn(s, {})) = 0 /\ h[{}] = 0
      BY <2>1, <1>8, FS_EmptySet
    <2>3. h[{}] \in Nat /\ h[{}] <= Cardinality(PlacesIn(s, {}))
          /\ h[{}] = Cardinality(PlacesIn(s, {})) /\ \A x \in {} : fits(x)
      BY <2>2
    <2> HIDE DEF fits
    <2> QED BY <2>3
  <1>10. ASSUME NEW X \in SUBSET S, X # {}, \A x \in X : X \ {x} \in A PROVE X \in A
    <2> DEFINE x == one(X)
               W == X \ {x}
               cX == Cardinality(PlacesIn(s, X))
               cW == Cardinality(PlacesIn(s, W))
               cx == Cardinality(PlacesOf(s, x))
               l == Least(s, u, x)
    <2>1. x \in X /\ x \in S
      BY <1>4, <1>10
    <2>2. h[W] \in Nat /\ h[W] <= cW /\ (h[W] = cW <=> \A y \in W : fits(y))
      BY <2>1, <1>10
    <2>3. l \in Nat /\ l <= cx /\ (l = cx <=> fits(x))
      BY <1>2, <2>1
    <2>4. cX = cW + cx /\ cW \in Nat /\ cx \in Nat
      <3>1. cX = cW + cx
        BY <2>1, PlacesAdd
      <3>2. cW \in Nat /\ cx \in Nat
        BY PlacesAreFinite
      <3> QED BY <3>1, <3>2
    <2>5. h[X] = l + h[W]
      BY <1>8, <1>10
    <2>6. (\A y \in X : fits(y)) <=> fits(x) /\ \A y \in W : fits(y)
      BY <2>1
    <2> HIDE DEF x, W, cX, cW, cx, l, fits
    <2>7. h[X] \in Nat /\ h[X] <= cX /\ (h[X] = cX <=> (l = cx /\ h[W] = cW))
      BY <2>2, <2>3, <2>4, <2>5
    <2>8. h[X] = cX <=> \A y \in X : fits(y)
      BY <2>2, <2>3, <2>6, <2>7
    <2> QED BY <2>7, <2>8 DEF cX
  <1>11. A = SUBSET S
    <2> HIDE DEF A
    <2>1. A \subseteq SUBSET S
      BY DEF A
    <2> QED BY <1>1, <1>9, <1>10, <2>1, SubsetInduction
  <1>12. S \in A
    BY <1>11
  <1> QED BY <1>3, <1>12 DEF S

\* A finite set goes one to one into one that is no smaller.
LEMMA InjectionOfSizes ==
    ASSUME NEW A, NEW B, IsFiniteSet(A), IsFiniteSet(B), Cardinality(A) <= Cardinality(B)
    PROVE  \E f \in [A -> B] : \A x, y \in A : f[x] = f[y] => x = y
  <1> DEFINE m == Cardinality(A)
             n == Cardinality(B)
  <1>1. m \in Nat /\ n \in Nat /\ m <= n /\ ExistsBijection(1..m, A) /\ ExistsBijection(1..n, B)
    BY FS_CardinalityType
  <1> HIDE DEF m, n
  <1>2. PICK a \in [1..m -> A] : \A x \in A : \E i \in 1..m : a[i] = x
    BY <1>1 DEF ExistsBijection, Bijection, Surjection
  <1>3. PICK b \in [1..n -> B] : \A i, j \in 1..n : b[i] = b[j] => i = j
    BY <1>1 DEF ExistsBijection, Bijection, Injection, IsInjective
  <1> DEFINE at(x) == CHOOSE i \in 1..m : a[i] = x
             f == [x \in A |-> b[at(x)]]
  <1>4. \A x \in A : at(x) \in 1..m /\ at(x) \in 1..n /\ a[at(x)] = x
    BY <1>1, <1>2
  <1> HIDE DEF at
  <1>5. f \in [A -> B]
    BY <1>3, <1>4
  <1>6. ASSUME NEW x \in A, NEW y \in A, f[x] = f[y] PROVE x = y
    <2>1. at(x) = at(y)
      BY <1>3, <1>4, <1>6
    <2> QED BY <2>1, <1>4
  <1> QED BY <1>5, <1>6

\* The orders of n rows that an answer may have them in.
Orders(n, ordered) ==
    {o \in [1..n -> 1..n] : IF ordered THEN \A r \in 1..n : o[r] = r
                            ELSE \A r, q \in 1..n : o[r] = o[q] => r = q}

\* One list is the other in some order, in its own when the order counts.
Rearranged(n, s, u, ordered) == \E o \in Orders(n, ordered) : \A k \in 1..n : s[k] = u[o[k]]

SharesAllOf(n, s, u, ordered) ==
    /\ Overlap(s, u, ordered) \in Nat /\ Overlap(s, u, ordered) <= n
    /\ (Overlap(s, u, ordered) = n) <=> Rearranged(n, s, u, ordered)

\* OverlapIsWhole where the order counts.
LEMMA OverlapInPlace ==
    ASSUME NEW T, NEW n \in Nat, NEW s \in [1..n -> T], NEW u \in [1..n -> T],
           NEW ordered \in BOOLEAN, ordered
    PROVE  SharesAllOf(n, s, u, ordered)
  <1> DEFINE P == {k \in 1..n : s[k] = u[k]}
  <1>1. Overlap(s, u, ordered) = Cardinality(P)
    <2>1. DOMAIN s \cap DOMAIN u = 1..n
      OBVIOUS
    <2> QED BY <2>1 DEF Overlap
  <1>2. IsFiniteSet(1..n) /\ Cardinality(1..n) = n
    BY PlacesAreFinite
  <1>3. P \in SUBSET (1..n)
    OBVIOUS
  <1>4. (\A k \in 1..n : s[k] = u[k]) <=> P = 1..n
    OBVIOUS
  <1> HIDE DEF P
  <1>5. IsFiniteSet(P) /\ Cardinality(P) <= n /\ (Cardinality(P) = n => P = 1..n)
    <2>1. IsFiniteSet(P) /\ Cardinality(P) <= Cardinality(1..n) /\ (Cardinality(1..n) = Cardinality(P) => 1..n = P)
      BY <1>2, <1>3, FS_Subset
    <2> QED BY <1>2, <2>1
  <1>6. Cardinality(P) \in Nat
    BY <1>5, FS_CardinalityType
  <1>7. Cardinality(P) = n <=> P = 1..n
    BY <1>2, <1>5
  <1>8. Rearranged(n, s, u, ordered) <=> \A k \in 1..n : s[k] = u[k]
    <2>1. ASSUME \A k \in 1..n : s[k] = u[k] PROVE Rearranged(n, s, u, ordered)
      <3>1. [k \in 1..n |-> k] \in Orders(n, ordered)
        BY DEF Orders
      <3> QED BY <2>1, <3>1 DEF Rearranged
    <2>2. \A o \in Orders(n, ordered) : \A k \in 1..n : o[k] = k
      BY DEF Orders
    <2> QED BY <2>1, <2>2 DEF Rearranged
  <1> QED BY <1>1, <1>4, <1>5, <1>6, <1>7, <1>8 DEF SharesAllOf

\* Two lists of n share all n exactly when one is the other in some order, in
\* its own when the order counts.
LEMMA OverlapIsWhole ==
    ASSUME NEW T, NEW n \in Nat, NEW s \in [1..n -> T], NEW u \in [1..n -> T], NEW ordered \in BOOLEAN
    PROVE  SharesAllOf(n, s, u, ordered)
  <1>1. CASE ordered
    BY <1>1, OverlapInPlace
  <1>2. CASE ~ordered
    <2> DEFINE S == ToSet(s) \cap ToSet(u)
               w == Overlap(s, u, FALSE)
               fits(x) == Cardinality(PlacesOf(s, x)) <= Cardinality(PlacesOf(u, x))
               all == Cardinality(PlacesIn(s, S))
    <2>0. ordered = FALSE
      BY <1>2
    <2>1. w \in Nat /\ w <= all /\ (w = all <=> \A x \in S : fits(x))
      BY OverlapSum
    <2>2. all \in Nat /\ all <= n /\ (all = n => PlacesIn(s, S) = 1..n)
      BY PlacesAreFinite
    <2>3. ASSUME w = n PROVE Rearranged(n, s, u, FALSE)
      <3>1. w = all /\ all = n
        <4> HIDE DEF w, all, fits
        <4> QED BY <2>1, <2>2, <2>3
      <3>2. \A x \in S : fits(x)
        BY <3>1, <2>1
      <3>3. \A k \in 1..n : s[k] \in S
        <4>1. PlacesIn(s, S) = 1..n
          BY <3>1, <2>2
        <4> QED BY <4>1 DEF PlacesIn
      <3> DEFINE Into(x) == {f \in [PlacesOf(s, x) -> PlacesOf(u, x)] : \A i, j \in PlacesOf(s, x) : f[i] = f[j] => i = j}
                 o == [k \in 1..n |-> (CHOOSE f \in Into(s[k]) : TRUE)[k]]
      <3>4. ASSUME NEW x \in S PROVE Into(x) # {}
        <4>1. IsFiniteSet(PlacesOf(s, x)) /\ IsFiniteSet(PlacesOf(u, x)) /\ fits(x)
          BY <3>2, PlacesAreFinite
        <4> QED BY <4>1, InjectionOfSizes
      <3>5. ASSUME NEW k \in 1..n
            PROVE  /\ (CHOOSE f \in Into(s[k]) : TRUE) \in Into(s[k])
                   /\ k \in PlacesOf(s, s[k]) /\ o[k] = (CHOOSE f \in Into(s[k]) : TRUE)[k]
        <4>1. Into(s[k]) # {}
          BY <3>3, <3>4
        <4>2. k \in PlacesOf(s, s[k])
          BY DEF PlacesOf
        <4> HIDE DEF Into
        <4> QED BY <4>1, <4>2
      <3>6. \A k \in 1..n : o[k] \in PlacesOf(u, s[k])
        <4> HIDE DEF o
        <4> QED BY <3>5
      <3>7. \A k \in 1..n : o[k] \in 1..n /\ u[o[k]] = s[k]
        <4> HIDE DEF o
        <4> QED BY <3>6 DEF PlacesOf
      <3>8. ASSUME NEW i \in 1..n, NEW j \in 1..n, o[i] = o[j] PROVE i = j
        <4>1. s[i] = s[j]
          <5> HIDE DEF o
          <5> QED BY <3>7, <3>8
        <4> DEFINE g == CHOOSE f \in Into(s[i]) : TRUE
        <4>2. g \in Into(s[i]) /\ i \in PlacesOf(s, s[i]) /\ j \in PlacesOf(s, s[i]) /\ o[i] = g[i] /\ o[j] = g[j]
          <5>1. g \in Into(s[i]) /\ i \in PlacesOf(s, s[i]) /\ o[i] = g[i]
            BY <3>5
          <5>2. j \in PlacesOf(s, s[j]) /\ o[j] = (CHOOSE f \in Into(s[j]) : TRUE)[j]
            BY <3>5
          <5> HIDE DEF o, Into
          <5> QED BY <4>1, <5>1, <5>2
        <4> HIDE DEF o, g
        <4> QED BY <4>2, <3>8
      <3>9. o \in [1..n -> 1..n]
        BY <3>7
      <3> HIDE DEF o
      <3>10. o \in Orders(n, FALSE)
        BY <3>8, <3>9 DEF Orders
      <3> QED BY <3>7, <3>10 DEF Rearranged
    <2>4. ASSUME NEW o \in Orders(n, FALSE), \A k \in 1..n : s[k] = u[o[k]] PROVE w = n
      <3>1. o \in [1..n -> 1..n] /\ \A i, j \in 1..n : o[i] = o[j] => i = j
        BY DEF Orders
      <3>2. \A k \in 1..n : s[k] \in S
        BY <2>4, <3>1, PlacesAreFinite
      <3>3. PlacesIn(s, S) = 1..n
        <4> HIDE DEF S
        <4> QED BY <3>2 DEF PlacesIn
      <3>4. all = n
        BY <3>3, PlacesAreFinite
      <3>5. ASSUME NEW x \in S PROVE fits(x)
        <4> DEFINE f == [k \in PlacesOf(s, x) |-> o[k]]
        <4>1. f \in [PlacesOf(s, x) -> PlacesOf(u, x)]
          BY <2>4, <3>1 DEF PlacesOf
        <4>2. \A i, j \in PlacesOf(s, x) : f[i] = f[j] => i = j
          BY <3>1 DEF PlacesOf
        <4> HIDE DEF f
        <4>3. f \in Injection(PlacesOf(s, x), PlacesOf(u, x))
          BY <4>1, <4>2 DEF Injection, IsInjective
        <4>4. IsFiniteSet(PlacesOf(u, x))
          BY PlacesAreFinite
        <4> QED BY <4>3, <4>4, FS_Injection
      <3>6. w = all
        <4> HIDE DEF w, all, fits, S
        <4> QED BY <2>1, <3>5
      <3> HIDE DEF w, all
      <3> QED BY <3>4, <3>6
    <2>5. w <= n
      <3> HIDE DEF w, all, fits
      <3> QED BY <2>1, <2>2
    <2> HIDE DEF w
    <2>6. w = n <=> Rearranged(n, s, u, FALSE)
      BY <2>3, <2>4 DEF Rearranged
    <2>7. w \in Nat
      BY <2>1
    <2> QED BY <2>0, <2>5, <2>6, <2>7 DEF w, SharesAllOf
  <1> QED BY <1>1, <1>2

\* A finite set of numbers has its greatest.
LEMMA MaxOfFinite ==
    ASSUME NEW n \in Nat, NEW X \in SUBSET (1..n), X # {}
    PROVE  Max(X) \in X /\ \A y \in X : Max(X) >= y
  <1> DEFINE A == {k \in Nat : \A Y \in SUBSET (1..k) : Y # {} => \E x \in Y : \A y \in Y : x >= y}
  <1>1. 0 \in A
    <2>1. 1..0 = {}
      OBVIOUS
    <2> QED BY <2>1
  <1>2. ASSUME NEW k \in A PROVE k + 1 \in A
    <2>1. ASSUME NEW Y \in SUBSET (1..(k + 1)), Y # {} PROVE \E x \in Y : \A y \in Y : x >= y
      <3>1. CASE k + 1 \in Y
        BY <3>1
      <3>2. CASE k + 1 \notin Y
        <4>1. Y \in SUBSET (1..k)
          BY <3>2
        <4> QED BY <4>1, <2>1, <1>2
      <3> QED BY <3>1, <3>2
    <2> QED BY <2>1
  <1>3. A = Nat
    <2> HIDE DEF A
    <2>1. A \subseteq Nat
      BY DEF A
    <2> QED BY <1>1, <1>2, <2>1, SetInduction
  <1>4. \E x \in X : \A y \in X : x >= y
    BY <1>3
  <1> QED BY <1>4 DEF Max

\* A finite set of numbers has its least.
LEMMA MinOfFinite ==
    ASSUME NEW n \in Nat, NEW X \in SUBSET (1..n), X # {}
    PROVE  Min(X) \in X /\ \A y \in X : Min(X) <= y
  <1> DEFINE Y == {n + 1 - x : x \in X}
  <1>1. Y \in SUBSET (1..n) /\ Y # {}
    <2>1. \A x \in X : x \in Int /\ n + 1 - x \in 1..n
      OBVIOUS
    <2>2. PICK x : x \in X
      OBVIOUS
    <2>3. n + 1 - x \in Y
      BY <2>2
    <2> QED BY <2>1, <2>3
  <1>2. Max(Y) \in Y /\ \A y \in Y : Max(Y) >= y
    BY <1>1, MaxOfFinite
  <1>3. PICK x \in X : Max(Y) = n + 1 - x
    BY <1>2
  <1>4. \A z \in X : x <= z
    BY <1>2, <1>3
  <1> QED BY <1>4 DEF Min

\* The columns up to i are those up to i - 1 and i.
LEMMA Prefix ==
    ASSUME NEW n \in Nat, NEW i \in 1..n
    PROVE  /\ 1..i \in (SUBSET (1..n)) \ {{}}
           /\ Max(1..i) = i /\ (1..i) \ {i} = 1..(i - 1) /\ 1..(i - 1) \in SUBSET (1..n)
  <1>0. i \in Nat /\ 1 <= i /\ i <= n
    OBVIOUS
  <1>1. 1..i \in SUBSET (1..n) /\ i \in 1..i
    BY <1>0
  <1>2. Max(1..i) = i
    <2>1. Max(1..i) \in 1..i /\ \A y \in 1..i : Max(1..i) >= y
      BY <1>1, MaxOfFinite
    <2> QED BY <2>1, <1>1
  <1>3. (1..i) \ {i} = 1..(i - 1)
    <2>1. ASSUME NEW x PROVE x \in (1..i) \ {i} <=> x \in 1..(i - 1)
      BY <1>0
    <2> QED BY <2>1
  <1>4. 1..(i - 1) \in SUBSET (1..n)
    BY <1>0
  <1> QED BY <1>1, <1>2, <1>3, <1>4

\* What holds of the pairing before the first column, and from one column to
\* the next, holds of the last.
LEMMA RunInduction ==
    ASSUME NEW n \in Nat, NEW A, A \subseteq Nat, 0 \in A, \A i \in 1..n : i - 1 \in A => i \in A
    PROVE  \A i \in 0..n : i \in A
  <1> DEFINE B == {k \in Nat : k <= n => k \in A}
  <1>1. 0 \in B
    OBVIOUS
  <1>2. ASSUME NEW k \in B PROVE k + 1 \in B
    <2>1. CASE k + 1 <= n
      <3>1. k + 1 \in 1..n /\ (k + 1) - 1 = k /\ k \in A
        BY <2>1
      <3>2. k + 1 \in A
        BY <3>1
      <3> QED BY <3>2
    <2>2. CASE ~(k + 1 <= n)
      BY <2>2
    <2> QED BY <2>1, <2>2
  <1>3. B = Nat
    <2> HIDE DEF B
    <2>1. B \subseteq Nat
      BY DEF B
    <2> QED BY <1>1, <1>2, <2>1, SetInduction
  <1> QED BY <1>3

\* A fold over the columns 1..n: the function it is written as exists, and so
\* its values at the prefixes run from the base, one step a column.
ColumnFold(base, step, n, h) ==
    h = [X \in SUBSET (1..n) |-> IF X = {} THEN base ELSE step[<<h[X \ {Max(X)}], Max(X)>>]]

\* There is a function that folds over the columns in their order.
LEMMA ColumnFoldExists ==
    ASSUME NEW n \in Nat, NEW V, NEW base \in V, NEW step \in [V \X (1..n) -> V]
    PROVE  \E h \in [SUBSET (1..n) -> V] : ColumnFold(base, step, n, h)
  <1> DEFINE S == 1..n
             pick == [X \in (SUBSET S) \ {{}} |-> Max(X)]
  <1>1. \A X \in (SUBSET S) \ {{}} : Max(X) \in X /\ pick[X] = Max(X)
    BY MaxOfFinite
  <1>2. IsFiniteSet(S)
    BY FS_Interval
  <1>3. Picks(pick, S)
    BY <1>1 DEF Picks
  <1> HIDE DEF pick
  <1>4. PICK h : h \in [SUBSET S -> V] /\ Folds(base, step, pick, S, h)
    BY <1>2, <1>3, FoldExists
  <1> DEFINE of(X) == IF X = {} THEN base ELSE step[<<h[X \ {Max(X)}], Max(X)>>]
  <1>5. ASSUME NEW X \in SUBSET S PROVE h[X] = of(X)
    <2>1. CASE X = {}
      BY <2>1, <1>4 DEF Folds
    <2>2. CASE X # {}
      <3>1. pick[X] = Max(X)
        BY <2>2, <1>1
      <3> QED BY <2>2, <3>1, <1>4 DEF Folds
    <2> QED BY <2>1, <2>2
  <1> HIDE DEF of
  <1>6. h = [X \in SUBSET S |-> of(X)]
    BY <1>4, <1>5
  <1>7. ColumnFold(base, step, n, h)
    BY <1>6 DEF ColumnFold, of
  <1> QED BY <1>4, <1>7

\* What may be a pairing of m columns with n others.
Pairings(m, n) ==
    {p \in UNION {[D -> 1..n] : D \in SUBSET (1..m)} : \A i, j \in DOMAIN p : p[i] = p[j] => i = j}

\* q is p with column i paired with j.
Extends(q, p, i, j) == DOMAIN q = DOMAIN p \cup {i} /\ q[i] = j /\ \A k \in DOMAIN p : q[k] = p[k]

\* Pairing a column that is free with one that is free is a pairing again.
LEMMA PairIs ==
    ASSUME NEW m \in Nat, NEW n \in Nat, NEW p \in Pairings(m, n),
           NEW i \in (1..m) \ DOMAIN p, NEW j \in (1..n) \ Range(p)
    PROVE  Pair(p, i, j) \in Pairings(m, n) /\ Extends(Pair(p, i, j), p, i, j)
  <1> DEFINE D == DOMAIN p
             q == Pair(p, i, j)
  <1>1. D \in SUBSET (1..m) /\ p \in [D -> 1..n] /\ \A k \in D : p[k] \in Range(p)
    BY DEF Pairings, Range
  <1>2. \A a, b \in D : p[a] = p[b] => a = b
    BY DEF Pairings
  <1>3. q = [k \in D \cup {i} |-> IF k = i THEN j ELSE p[k]]
    BY DEF Pair
  <1> HIDE DEF q, D
  <1>4. DOMAIN q = D \cup {i} /\ q[i] = j /\ \A k \in D : q[k] = p[k]
    BY <1>3 DEF D
  <1>5. q \in [D \cup {i} -> 1..n] /\ D \cup {i} \in SUBSET (1..m)
    BY <1>1, <1>3
  <1>6. \A a, b \in DOMAIN q : q[a] = q[b] => a = b
    BY <1>1, <1>2, <1>4
  <1>7. q \in Pairings(m, n)
    BY <1>4, <1>5, <1>6 DEF Pairings
  <1> QED BY <1>4, <1>7 DEF q, D, Extends

\* One column of TakeInOrder.
Take(p, i, partners) ==
    IF i \in DOMAIN p \/ partners[i] \ Range(p) = {} THEN p ELSE Pair(p, i, Min(partners[i] \ Range(p)))
TakeFold(p, columns, partners, h) ==
    h = [X \in SUBSET DOMAIN columns |->
            IF X = {} THEN p ELSE Take(h[X \ {Max(X)}], columns[Max(X)], partners)]

\* TakeInOrder is a fold over the columns.
LEMMA TakeIsFold ==
    ASSUME NEW golden, NEW p, NEW partners
    PROVE  LET columns == [i \in ColumnsOf(golden) |-> i]
           IN  TakeInOrder(golden, p, partners) = (CHOOSE h : TakeFold(p, columns, partners, h))[DOMAIN columns]
  BY DEF TakeInOrder, FoldLeft, MapThenFoldSet, TakeFold, Take

TakeRun(p, partners, n, f) ==
    f[0] = p /\ \A i \in 1..n : f[i] = Take(f[i - 1], i, partners)

TakeKeepsTo(V, n, partners) == \A v \in V, i \in 1..n : Take(v, i, partners) \in V
TakesAs(golden, p, partners, n, V) ==
    \E f \in [0..n -> V] : TakeRun(p, partners, n, f) /\ TakeInOrder(golden, p, partners) = f[n]

\* TakeInOrder goes through the columns one by one.
LEMMA TakeInOrderRuns ==
    ASSUME NEW golden, NEW m \in Nat, m = Len(golden.names), NEW partners, NEW V, NEW p \in V,
           TakeKeepsTo(V, m, partners)
    PROVE  TakesAs(golden, p, partners, m, V)
  <1> DEFINE columns == [i \in ColumnsOf(golden) |-> i]
             step == [v \in V \X (1..m) |-> Take(v[1], v[2], partners)]
             h == CHOOSE h : TakeFold(p, columns, partners, h)
             f == [i \in 0..m |-> h[1..i]]
  <1>1. DOMAIN columns = 1..m /\ \A i \in 1..m : columns[i] = i
    BY DEF ColumnsOf
  <1>2. step \in [V \X (1..m) -> V] /\ \A v \in V, i \in 1..m : step[<<v, i>>] = Take(v, i, partners)
    BY DEF TakeKeepsTo
  <1>3. TakeInOrder(golden, p, partners) = h[1..m]
    BY <1>1, TakeIsFold
  <1> HIDE DEF step, columns
  <1>4. \E g : TakeFold(p, columns, partners, g)
    <2>1. PICK g \in [SUBSET (1..m) -> V] : ColumnFold(p, step, m, g)
      BY <1>2, ColumnFoldExists
    <2> DEFINE of(X) == IF X = {} THEN p ELSE Take(g[X \ {Max(X)}], columns[Max(X)], partners)
    <2>2. ASSUME NEW X \in SUBSET (1..m) PROVE g[X] = of(X)
      <3>1. CASE X = {}
        BY <3>1, <2>1 DEF ColumnFold
      <3>2. CASE X # {}
        <4>1. g[X] = step[<<g[X \ {Max(X)}], Max(X)>>]
          BY <3>2, <2>1 DEF ColumnFold
        <4>2. Max(X) \in 1..m /\ g[X \ {Max(X)}] \in V
          BY <3>2, MaxOfFinite
        <4>3. step[<<g[X \ {Max(X)}], Max(X)>>] = Take(g[X \ {Max(X)}], Max(X), partners)
          BY <4>2, <1>2
        <4> QED BY <3>2, <4>1, <4>2, <4>3, <1>1
      <3> QED BY <3>1, <3>2
    <2> HIDE DEF of
    <2>3. g = [X \in SUBSET (1..m) |-> of(X)]
      BY <2>2
    <2>4. TakeFold(p, columns, partners, g)
      BY <1>1, <2>3 DEF TakeFold, of
    <2> QED BY <2>4
  <1>5. TakeFold(p, columns, partners, h)
    BY <1>4
  <1> HIDE DEF h
  <1>6. h[{}] = p /\ \A X \in (SUBSET (1..m)) \ {{}} : h[X] = Take(h[X \ {Max(X)}], columns[Max(X)], partners)
    BY <1>1, <1>5 DEF TakeFold
  <1>7. f[0] = p /\ f[m] = h[1..m]
    <2>1. 1..0 = {}
      OBVIOUS
    <2> QED BY <1>6, <2>1
  <1>8. ASSUME NEW i \in 1..m PROVE f[i] = Take(f[i - 1], i, partners)
    <2>1. /\ 1..i \in (SUBSET (1..m)) \ {{}}
          /\ Max(1..i) = i /\ (1..i) \ {i} = 1..(i - 1)
      BY Prefix
    <2>2. h[1..i] = Take(h[1..(i - 1)], i, partners)
      BY <2>1, <1>6, <1>1
    <2>3. f[i] = h[1..i] /\ f[i - 1] = h[1..(i - 1)]
      OBVIOUS
    <2> HIDE DEF f
    <2> QED BY <2>2, <2>3
  <1>9. \A i \in 0..m : f[i] \in V
    <2> DEFINE A == {i \in Nat : i <= m => f[i] \in V}
    <2> HIDE DEF f
    <2>1. 0 \in A
      BY <1>7
    <2>2. ASSUME NEW i \in 1..m, i - 1 \in A PROVE i \in A
      <3>1. f[i - 1] \in V
        BY <2>2
      <3> QED BY <3>1, <1>8 DEF TakeKeepsTo
    <2>3. A \subseteq Nat
      OBVIOUS
    <2>4. \A i \in 0..m : i \in A
      <3> HIDE DEF A
      <3> QED BY <2>1, <2>2, <2>3, RunInduction
    <2> QED BY <2>4
  <1>10. f \in [0..m -> V]
    BY <1>9
  <1>11. TakeRun(p, partners, m, f)
    BY <1>7, <1>8 DEF TakeRun
  <1> HIDE DEF f
  <1> QED BY <1>3, <1>7, <1>10, <1>11 DEF TakesAs

\* Pairings of columns that hold the same: kg and kn give what each of the
\* two sides is compared by.
Matched(m, n, kg, kn) == {p \in Pairings(m, n) : \A i \in DOMAIN p : kn[p[i]] = kg[i]}
AlikeTo(n, kn, x) == {j \in 1..n : kn[j] = x}
Placed(m, n, kg, kn) ==
    {f \in [1..m -> 1..n] : /\ \A i, j \in 1..m : f[i] = f[j] => i = j
                            /\ \A i \in 1..m : kn[f[i]] = kg[i]}

\* A column is paired with the first of its partners that is free.
Paired(t, p, i, free) ==
    i \notin DOMAIN p /\ Extends(t, p, i, t[i]) /\ t[i] \in free /\ \A k \in free : t[i] <= k

\* One column of the pass keeps a pairing a pairing.
LEMMA TakeKeeps ==
    ASSUME NEW m \in Nat, NEW n \in Nat, NEW partners, NEW p \in Pairings(m, n), NEW i \in 1..m,
           partners[i] \subseteq 1..n
    PROVE  /\ Take(p, i, partners) \in Pairings(m, n)
           /\ \/ Take(p, i, partners) = p
              \/ Paired(Take(p, i, partners), p, i, partners[i] \ Range(p))
           /\ i \notin DOMAIN Take(p, i, partners) => partners[i] \ Range(p) = {}
  <1> DEFINE free == partners[i] \ Range(p)
  <1>1. CASE i \in DOMAIN p \/ free = {}
    BY <1>1 DEF Take
  <1>2. CASE i \notin DOMAIN p /\ free # {}
    <2> DEFINE j == Min(free)
    <2>1. j \in free /\ \A k \in free : j <= k
      <3>1. free \in SUBSET (1..n)
        OBVIOUS
      <3> QED BY <1>2, <3>1, MinOfFinite
    <2>2. Take(p, i, partners) = Pair(p, i, j)
      BY <1>2 DEF Take
    <2>3. j \in (1..n) \ Range(p) /\ i \in (1..m) \ DOMAIN p
      BY <2>1, <1>2
    <2> HIDE DEF j
    <2>4. Pair(p, i, j) \in Pairings(m, n) /\ Extends(Pair(p, i, j), p, i, j)
      BY <2>3, PairIs
    <2>5. Paired(Pair(p, i, j), p, i, free) /\ i \in DOMAIN Pair(p, i, j)
      BY <1>2, <2>1, <2>4 DEF Paired, Extends
    <2> QED BY <2>2, <2>4, <2>5
  <1> QED BY <1>1, <1>2

\* Where the columns can be placed, a column that is not paired yet has a
\* partner nobody has claimed.
LEMMA FreeLeft ==
    ASSUME NEW m \in Nat, NEW n \in Nat, NEW kg, NEW kn, NEW f \in Placed(m, n, kg, kn),
           NEW p \in Matched(m, n, kg, kn), NEW i \in (1..m) \ DOMAIN p
    PROVE  AlikeTo(n, kn, kg[i]) \ Range(p) # {}
  <1> SUFFICES ASSUME AlikeTo(n, kn, kg[i]) \subseteq Range(p) PROVE FALSE
    OBVIOUS
  <1> DEFINE A == {a \in 1..m : kg[a] = kg[i]}
             B == AlikeTo(n, kn, kg[i])
             C == A \ {i}
             g == [a \in A |-> f[a]]
             D == {a \in DOMAIN p : p[a] \in B}
             q == [a \in D |-> p[a]]
  <1>1. A \in SUBSET (1..m) /\ B \in SUBSET (1..n) /\ i \in A
    BY DEF AlikeTo
  <1>2. IsFiniteSet(1..m) /\ IsFiniteSet(1..n)
    BY FS_Interval
  <1>3. IsFiniteSet(A) /\ IsFiniteSet(B)
    BY <1>1, <1>2, FS_Subset
  <1>4. IsFiniteSet(C) /\ Cardinality(C) = Cardinality(A) - 1 /\ Cardinality(A) \in Nat /\ Cardinality(B) \in Nat
    <2>1. IsFiniteSet(C) /\ Cardinality(C) = Cardinality(A) - 1
      BY <1>1, <1>3, FS_RemoveElement
    <2>2. Cardinality(A) \in Nat
      BY <1>3, FS_CardinalityType
    <2>3. Cardinality(B) \in Nat
      BY <1>3, FS_CardinalityType
    <2> QED BY <2>1, <2>2, <2>3
  <1>5. Cardinality(A) <= Cardinality(B)
    <2>1. g \in [A -> B] /\ \A a, b \in A : g[a] = g[b] => a = b
      BY DEF Placed, AlikeTo
    <2>2. g \in Injection(A, B)
      <3> HIDE DEF g, A, B
      <3> QED BY <2>1 DEF Injection, IsInjective
    <2> QED BY <1>3, <2>2, FS_Injection
  <1>6. D \subseteq C
    <2>1. ASSUME NEW a \in D PROVE a \in C
      <3>1. a \in 1..m /\ kn[p[a]] = kg[a] /\ a # i
        BY DEF Matched, Pairings
      <3>2. kn[p[a]] = kg[i]
        BY DEF AlikeTo
      <3> QED BY <3>1, <3>2
    <2> QED BY <2>1
  <1>7. Cardinality(B) <= Cardinality(C)
    <2>1. IsFiniteSet(D) /\ Cardinality(D) <= Cardinality(C)
      BY <1>4, <1>6, FS_Subset
    <2>2. q \in [D -> B] /\ \A b \in B : \E a \in D : q[a] = b
      BY DEF Range
    <2>3. q \in Surjection(D, B)
      <3> HIDE DEF q, D, B
      <3> QED BY <2>2 DEF Surjection
    <2>4. Cardinality(B) <= Cardinality(D)
      BY <2>1, <2>3, FS_Surjection
    <2>5. Cardinality(D) \in Nat /\ Cardinality(C) \in Nat
      BY <1>4, <2>1, FS_CardinalityType
    <2> HIDE DEF B, C, D
    <2> QED BY <1>4, <2>1, <2>4, <2>5
  <1> HIDE DEF A, B, C
  <1> QED BY <1>4, <1>5, <1>7

\* So the pass over the columns pairs every one of them.
LEMMA TakesEvery ==
    ASSUME NEW golden, NEW m \in Nat, m = Len(golden.names), NEW n \in Nat, NEW kg, NEW kn,
           Placed(m, n, kg, kn) # {}, NEW p \in Matched(m, n, kg, kn),
           NEW partners, \A i \in 1..m : partners[i] = AlikeTo(n, kn, kg[i])
    PROVE  TakeInOrder(golden, p, partners) \in Matched(m, n, kg, kn)
           /\ DOMAIN TakeInOrder(golden, p, partners) = 1..m
  <1> DEFINE V == Matched(m, n, kg, kn)
  <1>1. ASSUME NEW v \in V, NEW i \in 1..m
        PROVE  Take(v, i, partners) \in V /\ DOMAIN Take(v, i, partners) = DOMAIN v \cup {i}
    <2> DEFINE t == Take(v, i, partners)
    <2>1. v \in Pairings(m, n) /\ partners[i] \subseteq 1..n
      BY DEF Matched, AlikeTo
    <2>2. /\ t \in Pairings(m, n)
          /\ t = v \/ Paired(t, v, i, partners[i] \ Range(v))
          /\ i \notin DOMAIN t => partners[i] \ Range(v) = {}
      BY <2>1, TakeKeeps
    <2>3. i \notin DOMAIN v => partners[i] \ Range(v) # {}
      BY FreeLeft
    <2> HIDE DEF t
    <2>4. DOMAIN t = DOMAIN v \cup {i}
      BY <2>2, <2>3 DEF Paired, Extends
    <2>5. \A k \in DOMAIN t : kn[t[k]] = kg[k]
      BY <2>2, <2>4 DEF Matched, AlikeTo, Paired, Extends
    <2> QED BY <2>2, <2>4, <2>5 DEF Matched, t
  <1>2. PICK f \in [0..m -> V] : TakeRun(p, partners, m, f) /\ TakeInOrder(golden, p, partners) = f[m]
    <2> HIDE DEF V
    <2>1. TakeKeepsTo(V, m, partners)
      BY <1>1 DEF TakeKeepsTo
    <2>2. p \in V
      BY DEF V
    <2>3. TakesAs(golden, p, partners, m, V)
      BY <2>1, <2>2, TakeInOrderRuns
    <2> QED BY <2>3 DEF TakesAs
  <1> DEFINE A == {i \in Nat : i <= m => 1..i \subseteq DOMAIN f[i]}
  <1>3. 0 \in A
    <2>1. 1..0 = {}
      OBVIOUS
    <2> QED BY <2>1
  <1>4. ASSUME NEW i \in 1..m, i - 1 \in A PROVE i \in A
    <2>1. i - 1 \in 0..m /\ 1..(i - 1) \subseteq DOMAIN f[i - 1]
      BY <1>4
    <2>2. f[i] = Take(f[i - 1], i, partners)
      BY <1>2 DEF TakeRun
    <2>3. DOMAIN f[i] = DOMAIN f[i - 1] \cup {i}
      BY <1>1, <1>2, <2>1, <2>2
    <2>4. 1..i \subseteq 1..(i - 1) \cup {i}
      OBVIOUS
    <2> QED BY <2>1, <2>3, <2>4
  <1>5. \A i \in 0..m : i \in A
    <2>1. A \subseteq Nat
      OBVIOUS
    <2> HIDE DEF A
    <2> QED BY <1>3, <1>4, <2>1, RunInduction
  <1>6. m \in 0..m
    OBVIOUS
  <1>7. 1..m \subseteq DOMAIN f[m] /\ f[m] \in V
    BY <1>2, <1>5, <1>6
  <1>8. DOMAIN f[m] \subseteq 1..m
    BY <1>7 DEF Matched, Pairings
  <1> QED BY <1>2, <1>7, <1>8

\* With partners that hold the same, the pass pairs columns that hold the same.
LEMMA TakesMatched ==
    ASSUME NEW golden, NEW m \in Nat, m = Len(golden.names), NEW n \in Nat, NEW kg, NEW kn,
           NEW p \in Matched(m, n, kg, kn),
           NEW partners, \A i \in 1..m : partners[i] \subseteq AlikeTo(n, kn, kg[i])
    PROVE  TakeInOrder(golden, p, partners) \in Matched(m, n, kg, kn)
  <1> DEFINE V == Matched(m, n, kg, kn)
  <1>1. ASSUME NEW v \in V, NEW i \in 1..m PROVE Take(v, i, partners) \in V
    <2> DEFINE t == Take(v, i, partners)
    <2>1. v \in Pairings(m, n) /\ partners[i] \subseteq 1..n /\ partners[i] \subseteq AlikeTo(n, kn, kg[i])
      BY DEF Matched, AlikeTo
    <2>2. /\ t \in Pairings(m, n)
          /\ t = v \/ Paired(t, v, i, partners[i] \ Range(v))
      BY <2>1, TakeKeeps
    <2> HIDE DEF t
    <2>3. CASE t = v
      BY <2>3 DEF t
    <2>4. CASE Paired(t, v, i, partners[i] \ Range(v))
      <3>1. kn[t[i]] = kg[i]
        BY <2>1, <2>4 DEF Paired, AlikeTo
      <3>2. \A k \in DOMAIN t : kn[t[k]] = kg[k]
        BY <2>4, <3>1 DEF Matched, Paired, Extends
      <3> QED BY <2>2, <3>2 DEF Matched, t
    <2> QED BY <2>2, <2>3, <2>4 DEF t
  <1> HIDE DEF V
  <1>2. TakeKeepsTo(V, m, partners) /\ p \in V
    BY <1>1 DEF TakeKeepsTo, V
  <1>3. TakesAs(golden, p, partners, m, V)
    BY <1>2, TakeInOrderRuns
  <1>4. m \in 0..m
    OBVIOUS
  <1> QED BY <1>3, <1>4 DEF TakesAs, V

\* Where every column is paired, the pass changes nothing.
LEMMA TakesNoMore ==
    ASSUME NEW golden, NEW m \in Nat, m = Len(golden.names), NEW p, DOMAIN p = 1..m, NEW partners
    PROVE  TakeInOrder(golden, p, partners) = p
  <1>1. TakeKeepsTo({p}, m, partners) /\ p \in {p}
    BY DEF TakeKeepsTo, Take
  <1>2. TakesAs(golden, p, partners, m, {p})
    BY <1>1, TakeInOrderRuns
  <1>3. m \in 0..m
    OBVIOUS
  <1> QED BY <1>2, <1>3 DEF TakesAs

\* The pairing of no column is a pairing.
LEMMA NothingIs ==
    ASSUME NEW m, NEW n
    PROVE  Nothing \in Pairings(m, n) /\ DOMAIN Nothing = {}
  <1>1. DOMAIN Nothing = {}
    BY DEF Nothing
  <1>2. {} \in SUBSET (1..m) /\ Nothing \in [{} -> 1..n]
    BY DEF Nothing
  <1> QED BY <1>1, <1>2 DEF Pairings

\* A pairing is a function from some columns to the others.
LEMMA PairingIs ==
    ASSUME NEW m, NEW n, NEW p \in Pairings(m, n)
    PROVE  p \in [DOMAIN p -> 1..n] /\ DOMAIN p \subseteq 1..m
  <1>1. PICK D \in SUBSET (1..m) : p \in [D -> 1..n]
    BY DEF Pairings
  <1> QED BY <1>1

\* Each column's first free partner is the one f places it at.
FirstFree(m, n, f, partners) ==
    /\ f \in [1..m -> 1..n] /\ \A i, j \in 1..m : f[i] = f[j] => i = j
    /\ \A i \in 1..m : f[i] \in partners[i] /\ partners[i] \subseteq 1..n
    /\ \A i \in 1..m : \A k \in partners[i] : (\A a \in 1..(i - 1) : f[a] # k) => f[i] <= k

\* Then the pass finds the placing.
LEMMA TakesPlacing ==
    ASSUME NEW golden, NEW m \in Nat, m = Len(golden.names), NEW n \in Nat, NEW f, NEW partners,
           FirstFree(m, n, f, partners)
    PROVE  TakeInOrder(golden, Nothing, partners) = f
  <1>0. /\ f \in [1..m -> 1..n] /\ \A i, j \in 1..m : f[i] = f[j] => i = j
        /\ \A i \in 1..m : f[i] \in partners[i] /\ partners[i] \subseteq 1..n
        /\ \A i \in 1..m : \A k \in partners[i] : (\A a \in 1..(i - 1) : f[a] # k) => f[i] <= k
    BY DEF FirstFree
  <1> DEFINE V == Pairings(m, n)
  <1>1. Nothing \in V /\ DOMAIN Nothing = {}
    BY NothingIs
  <1>2. ASSUME NEW v \in V, NEW i \in 1..m PROVE Take(v, i, partners) \in V
    BY <1>0, <1>2, TakeKeeps
  <1> HIDE DEF V
  <1>3. TakeKeepsTo(V, m, partners)
    BY <1>2 DEF TakeKeepsTo
  <1>4. TakesAs(golden, Nothing, partners, m, V)
    BY <1>1, <1>3, TakeInOrderRuns
  <1>5. PICK g \in [0..m -> V] : TakeRun(Nothing, partners, m, g) /\ TakeInOrder(golden, Nothing, partners) = g[m]
    BY <1>4 DEF TakesAs
  <1> DEFINE A == {i \in Nat : i <= m => DOMAIN g[i] = 1..i /\ \A a \in 1..i : g[i][a] = f[a]}
  <1>6. 0 \in A
    <2>1. 1..0 = {} /\ g[0] = Nothing
      BY <1>5 DEF TakeRun
    <2> QED BY <2>1, <1>1
  <1>7. ASSUME NEW i \in 1..m, i - 1 \in A PROVE i \in A
    <2> DEFINE v == g[i - 1]
               t == g[i]
               free == partners[i] \ Range(v)
    <2>1. i - 1 \in 0..m /\ i - 1 \in Nat /\ i - 1 <= m
      OBVIOUS
    <2>2. v \in V /\ DOMAIN v = 1..(i - 1) /\ \A a \in 1..(i - 1) : v[a] = f[a]
      BY <1>7, <2>1
    <2>3. t = Take(v, i, partners)
      BY <1>5 DEF TakeRun
    <2>4. f[i] \in free /\ \A k \in free : f[i] <= k
      <3>1. ASSUME NEW k PROVE k \in Range(v) <=> \E a \in 1..(i - 1) : f[a] = k
        <4> HIDE DEF v
        <4> QED BY <2>2 DEF Range
      <3>2. \A a \in 1..(i - 1) : a \in 1..m /\ a # i
        OBVIOUS
      <3>3. f[i] \notin Range(v)
        <4> HIDE DEF v
        <4> QED BY <1>0, <3>1, <3>2
      <3>4. \A k \in free : f[i] <= k
        <4> HIDE DEF v
        <4> QED BY <1>0, <3>1
      <3> QED BY <1>0, <3>3, <3>4
    <2>5. /\ t = v \/ Paired(t, v, i, free)
          /\ i \notin DOMAIN t => free = {}
      <3>1. v \in Pairings(m, n) /\ partners[i] \subseteq 1..n
        BY <1>0, <2>2 DEF V
      <3> HIDE DEF v, t
      <3> QED BY <2>3, <3>1, TakeKeeps
    <2>6. i \notin DOMAIN v
      BY <2>2
    <2> HIDE DEF v, t
    <2>7. Paired(t, v, i, free)
      BY <2>4, <2>5, <2>6
    <2>8. t[i] = f[i]
      <3>1. t[i] <= f[i] /\ f[i] <= t[i] /\ t[i] \in 1..n /\ f[i] \in 1..n
        BY <1>0, <2>4, <2>7 DEF Paired
      <3> QED BY <3>1
    <2>9. 1..i = 1..(i - 1) \cup {i}
      OBVIOUS
    <2>10. DOMAIN t = 1..i /\ \A a \in 1..i : t[a] = f[a]
      BY <2>2, <2>7, <2>8, <2>9 DEF Paired, Extends
    <2> QED BY <2>10 DEF t
  <1>8. \A i \in 0..m : i \in A
    <2>1. A \subseteq Nat
      OBVIOUS
    <2> HIDE DEF A
    <2> QED BY <1>6, <1>7, <2>1, RunInduction
  <1>9. DOMAIN g[m] = 1..m /\ (\A a \in 1..m : g[m][a] = f[a]) /\ g[m] \in V
    BY <1>8
  <1>10. g[m] \in Pairings(m, n)
    BY <1>9 DEF V
  <1>11. g[m] \in [DOMAIN g[m] -> 1..n]
    BY <1>10, PairingIs
  <1>12. g[m] \in [1..m -> 1..n]
    BY <1>9, <1>11
  <1>13. g[m] = f
    BY <1>0, <1>9, <1>12
  <1> QED BY <1>5, <1>13

\* What a column is compared by.
Key(v, ordered) == IF ordered THEN v ELSE Counter(v)
Keys(t, ordered, quantize) == [i \in ColumnsOf(t) |-> Key(Vector(t, i, quantize), ordered)]
EqualTo(golden, generated, ordered, quantize) ==
    [i \in ColumnsOf(golden) |-> {j \in ColumnsOf(generated) :
        SameVector(Vector(golden, i, quantize), Vector(generated, j, quantize), ordered)}]
NamedAs(golden, generated, ordered, quantize) ==
    [i \in ColumnsOf(golden) |->
        {j \in EqualTo(golden, generated, ordered, quantize)[i] : generated.names[j] = golden.names[i]}]
MatchedOf(golden, generated, ordered, quantize) ==
    Matched(Len(golden.names), Len(generated.names), Keys(golden, ordered, quantize), Keys(generated, ordered, quantize))
PlacedOf(golden, generated, ordered, quantize) ==
    Placed(Len(golden.names), Len(generated.names), Keys(golden, ordered, quantize), Keys(generated, ordered, quantize))

\* One try of stage one, in the words of this section.
LEMMA PairEqualVectorsIs ==
    ASSUME NEW golden, NEW generated, NEW ordered, NEW quantize, NEW namesFirst
    PROVE  PairEqualVectors(golden, generated, ordered, quantize, namesFirst) =
             TakeInOrder(golden,
                 IF namesFirst THEN TakeInOrder(golden, Nothing, NamedAs(golden, generated, ordered, quantize)) ELSE Nothing,
                 EqualTo(golden, generated, ordered, quantize))
  BY DEF PairEqualVectors, NamedAs, EqualTo

\* The columns that hold the same are those with the same key.
LEMMA EqualIsAlike ==
    ASSUME NEW golden, NEW generated, NEW ordered \in BOOLEAN, NEW quantize,
           NEW i \in 1..Len(golden.names)
    PROVE  /\ EqualTo(golden, generated, ordered, quantize)[i] =
                AlikeTo(Len(generated.names), Keys(generated, ordered, quantize), Keys(golden, ordered, quantize)[i])
           /\ NamedAs(golden, generated, ordered, quantize)[i] \subseteq
                EqualTo(golden, generated, ordered, quantize)[i]
  <1>1. ColumnsOf(golden) = 1..Len(golden.names) /\ ColumnsOf(generated) = 1..Len(generated.names)
    BY DEF ColumnsOf
  <1>2. ASSUME NEW j \in 1..Len(generated.names)
        PROVE  SameVector(Vector(golden, i, quantize), Vector(generated, j, quantize), ordered)
                 <=> Keys(generated, ordered, quantize)[j] = Keys(golden, ordered, quantize)[i]
    BY <1>1 DEF SameVector, Keys, Key
  <1> QED BY <1>1, <1>2 DEF EqualTo, NamedAs, AlikeTo

EqualsPaired(golden, generated, ordered, quantize, namesFirst, m) ==
    LET p == PairEqualVectors(golden, generated, ordered, quantize, namesFirst)
    IN  /\ p \in MatchedOf(golden, generated, ordered, quantize)
        /\ PlacedOf(golden, generated, ordered, quantize) # {} => DOMAIN p = 1..m

\* Stage one pairs columns that hold the same, and all of them when they can
\* be placed.
LEMMA EqualsArePaired ==
    ASSUME NEW golden, NEW generated, NEW ordered \in BOOLEAN, NEW quantize, NEW namesFirst,
           NEW m \in Nat, m = Len(golden.names), NEW n \in Nat, n = Len(generated.names)
    PROVE  EqualsPaired(golden, generated, ordered, quantize, namesFirst, m)
  <1> DEFINE kg == Keys(golden, ordered, quantize)
             kn == Keys(generated, ordered, quantize)
             equal == EqualTo(golden, generated, ordered, quantize)
             named == NamedAs(golden, generated, ordered, quantize)
             first == IF namesFirst THEN TakeInOrder(golden, Nothing, named) ELSE Nothing
             p == TakeInOrder(golden, first, equal)
  <1>1. ASSUME NEW i \in 1..m
        PROVE  equal[i] = AlikeTo(n, kn, kg[i]) /\ named[i] \subseteq AlikeTo(n, kn, kg[i])
    <2>1. equal[i] = AlikeTo(n, kn, kg[i])
      BY EqualIsAlike
    <2>2. named[i] \subseteq equal[i]
      BY EqualIsAlike
    <2> HIDE DEF equal, named
    <2> QED BY <2>1, <2>2
  <1>2. PairEqualVectors(golden, generated, ordered, quantize, namesFirst) = p
    BY PairEqualVectorsIs
  <1> HIDE DEF kg, kn, equal, named
  <1>3. Nothing \in Matched(m, n, kg, kn)
    BY NothingIs DEF Matched
  <1>4. TakeInOrder(golden, Nothing, named) \in Matched(m, n, kg, kn)
    BY <1>1, <1>3, TakesMatched
  <1>5. first \in Matched(m, n, kg, kn)
    BY <1>3, <1>4
  <1> HIDE DEF first
  <1>6. p \in Matched(m, n, kg, kn)
    <2>1. \A i \in 1..m : equal[i] \subseteq AlikeTo(n, kn, kg[i])
      BY <1>1
    <2> QED BY <1>5, <2>1, TakesMatched
  <1>7. Placed(m, n, kg, kn) # {} => DOMAIN p = 1..m
    <2>1. \A i \in 1..m : equal[i] = AlikeTo(n, kn, kg[i])
      BY <1>1
    <2> QED BY <1>5, <2>1, TakesEvery
  <1> HIDE DEF p
  <1> QED BY <1>2, <1>6, <1>7 DEF MatchedOf, PlacedOf, kg, kn, EqualsPaired

\* What stage two may do to a pairing of results with as many rows.
LEMMA BestExists ==
    ASSUME NEW n \in Nat, NEW free \in SUBSET (1..n), free # {}, NEW N \in Nat, NEW w \in [free -> 0..N]
    PROVE  \E j \in free : \A k \in free : w[k] <= w[j]
  <1> DEFINE Y == {w[j] + 1 : j \in free}
  <1>1. Y \in SUBSET (1..(N + 1)) /\ Y # {}
    <2>1. \A j \in free : w[j] + 1 \in 1..(N + 1)
      OBVIOUS
    <2>2. PICK j : j \in free
      OBVIOUS
    <2>3. w[j] + 1 \in Y
      BY <2>2
    <2> QED BY <2>1, <2>3
  <1>2. N + 1 \in Nat
    OBVIOUS
  <1>3. Max(Y) \in Y /\ \A y \in Y : Max(Y) >= y
    <2> HIDE DEF Y
    <2> QED BY <1>1, <1>2, MaxOfFinite
  <1>4. PICK j \in free : Max(Y) = w[j] + 1
    BY <1>3
  <1>5. ASSUME NEW k \in free PROVE w[k] <= w[j]
    <2>1. w[k] + 1 \in Y /\ w[k] \in 0..N /\ w[j] \in 0..N
      BY <1>5
    <2>2. Max(Y) >= w[k] + 1
      BY <1>3, <2>1
    <2> HIDE DEF Y
    <2> QED BY <1>4, <2>1, <2>2
  <1> QED BY <1>4, <1>5

\* Columns of results with as many rows are lists of one length.
LEMMA VectorIs ==
    ASSUME NEW t, NEW u, NEW quantize, NEW i, NEW j, NEW N \in Nat, Len(t.rows) = N, Len(u.rows) = N
    PROVE  \E T : Vector(t, i, quantize) \in [1..N -> T] /\ Vector(u, j, quantize) \in [1..N -> T]
  <1> DEFINE T == {Canonical(t.rows[r][i], quantize) : r \in 1..N} \cup {Canonical(u.rows[r][j], quantize) : r \in 1..N}
  <1>1. Vector(t, i, quantize) = [r \in 1..N |-> Canonical(t.rows[r][i], quantize)]
        /\ Vector(u, j, quantize) = [r \in 1..N |-> Canonical(u.rows[r][j], quantize)]
    BY DEF Vector, Rows
  <1>2. Vector(t, i, quantize) \in [1..N -> T] /\ Vector(u, j, quantize) \in [1..N -> T]
    BY <1>1
  <1> QED BY <1>2

\* Stage two keeps a pairing a pairing.
LEMMA BestEffortKeeps ==
    ASSUME NEW golden, NEW generated, NEW ordered \in BOOLEAN, NEW quantize,
           NEW m \in Nat, m = Len(golden.names), NEW n \in Nat, n = Len(generated.names),
           NEW N \in Nat, Len(golden.rows) = N, Len(generated.rows) = N,
           NEW p \in Pairings(m, n), NEW i \in 1..m
    PROVE  BestEffort(golden, generated, p, i, ordered, quantize) \in Pairings(m, n)
  <1> DEFINE v == Vector(golden, i, quantize)
             free == ColumnsOf(generated) \ Range(p)
             named == {j \in free : generated.names[j] = golden.names[i]}
             shared(j) == Overlap(v, Vector(generated, j, quantize), ordered)
             best == {j \in free : \A k \in free : shared(k) <= shared(j)}
             to == BestEffort(golden, generated, p, i, ordered, quantize)
  <1>1. to = p \/ /\ i \notin DOMAIN p /\ free # {}
                  /\ (named # {} /\ to = Pair(p, i, Min(named))) \/ to = Pair(p, i, Min(best))
    BY DEF BestEffort
  <1>2. ColumnsOf(generated) = 1..n
    BY DEF ColumnsOf
  <1>3. ASSUME free # {} PROVE best # {}
    <2> DEFINE w == [j \in free |-> shared(j)]
    <2>1. ASSUME NEW j \in free PROVE shared(j) \in 0..N
      <3> DEFINE x == Vector(generated, j, quantize)
      <3>1. PICK T : v \in [1..N -> T] /\ x \in [1..N -> T]
        BY VectorIs
      <3> HIDE DEF v, x
      <3>2. Overlap(v, x, ordered) \in Nat /\ Overlap(v, x, ordered) <= N
        BY <3>1, OverlapIsWhole DEF SharesAllOf
      <3> QED BY <3>2 DEF x
    <2> HIDE DEF shared
    <2>2. w \in [free -> 0..N]
      BY <2>1
    <2>3. free \in SUBSET (1..n)
      BY <1>2
    <2> HIDE DEF free
    <2>4. \E j \in free : \A k \in free : w[k] <= w[j]
      <3> HIDE DEF w
      <3> QED BY <1>3, <2>2, <2>3, BestExists
    <2> QED BY <2>4
  <1>4. ASSUME i \notin DOMAIN p, NEW X \in SUBSET free, X # {} PROVE Pair(p, i, Min(X)) \in Pairings(m, n)
    <2>1. X \in SUBSET (1..n)
      BY <1>2
    <2>2. Min(X) \in X
      BY <1>4, <2>1, MinOfFinite
    <2>3. Min(X) \in (1..n) \ Range(p) /\ i \in (1..m) \ DOMAIN p
      BY <1>2, <1>4, <2>2
    <2> QED BY <2>3, PairIs
  <1>5. named \in SUBSET free /\ best \in SUBSET free
    OBVIOUS
  <1> HIDE DEF to, best, named, free
  <1> QED BY <1>1, <1>3, <1>4, <1>5 DEF to

BestFold(golden, generated, ordered, quantize, columns, h) ==
    h = [X \in SUBSET DOMAIN columns |->
            IF X = {} THEN StageOne(golden, generated, ordered, quantize)
            ELSE BestEffort(golden, generated, h[X \ {Max(X)}], columns[Max(X)], ordered, quantize)]

\* Stage two is a fold over the columns.
LEMMA PairColumnsIsFold ==
    ASSUME NEW golden, NEW generated, NEW ordered, NEW quantize
    PROVE  LET columns == [i \in ColumnsOf(golden) |-> i]
           IN  PairColumns(golden, generated, ordered, quantize) =
                 (CHOOSE h : BestFold(golden, generated, ordered, quantize, columns, h))[DOMAIN columns]
  BY DEF PairColumns, FoldLeft, MapThenFoldSet, BestFold

BestKeeps(golden, generated, ordered, quantize, V, m) ==
    \A v \in V, i \in 1..m : BestEffort(golden, generated, v, i, ordered, quantize) \in V

\* What holds after stage one and is kept for every column holds of the pairing.
LEMMA PairColumnsIn ==
    ASSUME NEW golden, NEW generated, NEW ordered, NEW quantize, NEW m \in Nat, m = Len(golden.names),
           NEW V, StageOne(golden, generated, ordered, quantize) \in V,
           BestKeeps(golden, generated, ordered, quantize, V, m)
    PROVE  PairColumns(golden, generated, ordered, quantize) \in V
  <1> DEFINE columns == [i \in ColumnsOf(golden) |-> i]
             to(v, i) == BestEffort(golden, generated, v, i, ordered, quantize)
             step == [v \in V \X (1..m) |-> to(v[1], v[2])]
             base == StageOne(golden, generated, ordered, quantize)
             fold(g) == BestFold(golden, generated, ordered, quantize, columns, g)
             h == CHOOSE h : fold(h)
  <1>1. DOMAIN columns = 1..m /\ \A i \in 1..m : columns[i] = i
    BY DEF ColumnsOf
  <1>2. \A v \in V, i \in 1..m : to(v, i) \in V
    BY DEF BestKeeps
  <1>3. step \in [V \X (1..m) -> V] /\ \A v \in V, i \in 1..m : step[<<v, i>>] = to(v, i)
    <2> HIDE DEF to
    <2> QED BY <1>2
  <1>4. PairColumns(golden, generated, ordered, quantize) = h[1..m]
    BY <1>1, PairColumnsIsFold
  <1>5. ASSUME NEW g
        PROVE  fold(g) <=> g = [X \in SUBSET (1..m) |-> IF X = {} THEN base ELSE to(g[X \ {Max(X)}], columns[Max(X)])]
    BY <1>1 DEF BestFold
  <1> HIDE DEF step, columns, to, fold, base
  <1>6. \E g : fold(g)
    <2>1. PICK g \in [SUBSET (1..m) -> V] : ColumnFold(base, step, m, g)
      BY <1>3, ColumnFoldExists DEF base
    <2> DEFINE of(X) == IF X = {} THEN base ELSE to(g[X \ {Max(X)}], columns[Max(X)])
    <2>2. ASSUME NEW X \in SUBSET (1..m) PROVE g[X] = of(X)
      <3>1. CASE X = {}
        BY <3>1, <2>1 DEF ColumnFold
      <3>2. CASE X # {}
        <4>1. g[X] = step[<<g[X \ {Max(X)}], Max(X)>>]
          BY <3>2, <2>1 DEF ColumnFold
        <4>2. Max(X) \in 1..m /\ g[X \ {Max(X)}] \in V
          BY <3>2, MaxOfFinite
        <4>3. step[<<g[X \ {Max(X)}], Max(X)>>] = to(g[X \ {Max(X)}], Max(X))
          BY <4>2, <1>3
        <4> QED BY <3>2, <4>1, <4>2, <4>3, <1>1
      <3> QED BY <3>1, <3>2
    <2> HIDE DEF of
    <2>3. g = [X \in SUBSET (1..m) |-> of(X)]
      BY <2>2
    <2>4. fold(g)
      BY <1>5, <2>3 DEF of
    <2> QED BY <2>4
  <1>7. fold(h)
    BY <1>6
  <1> HIDE DEF h
  <1>8. h[{}] = base /\ \A X \in (SUBSET (1..m)) \ {{}} : h[X] = to(h[X \ {Max(X)}], columns[Max(X)])
    BY <1>5, <1>7
  <1> DEFINE A == {X \in SUBSET (1..m) : h[X] \in V}
  <1>9. {} \in A
    BY <1>8 DEF base
  <1>10. ASSUME NEW X \in SUBSET (1..m), X # {}, \A x \in X : X \ {x} \in A PROVE X \in A
    <2>1. Max(X) \in X /\ Max(X) \in 1..m
      BY <1>10, MaxOfFinite
    <2>2. h[X \ {Max(X)}] \in V
      BY <1>10, <2>1
    <2>3. h[X] = to(h[X \ {Max(X)}], Max(X))
      BY <1>1, <1>8, <1>10, <2>1
    <2> QED BY <1>2, <2>1, <2>2, <2>3
  <1>11. A = SUBSET (1..m)
    <2>1. IsFiniteSet(1..m)
      BY FS_Interval
    <2>2. A \subseteq SUBSET (1..m)
      OBVIOUS
    <2> HIDE DEF A
    <2> QED BY <1>9, <1>10, <2>1, <2>2, SubsetInduction
  <1>12. 1..m \in A
    BY <1>11
  <1> QED BY <1>4, <1>12

ComparesAll(golden, generated, p, ordered, quantize, N, m) ==
    LET all == CompareRows(golden, generated, p, ordered, quantize)
    IN  /\ all \in Nat /\ all <= N
        /\ (all = N) <=> \E o \in RowOrders(golden, ordered) : \A r \in 1..N, i \in 1..m :
               Canonical(golden.rows[r][i], quantize) = Canonical(generated.rows[o[r]][p[i]], quantize)

\* A whole pairing has all the rows when they are the same rows in some order.
LEMMA CompareIsSame ==
    ASSUME NEW golden, NEW generated, NEW ordered \in BOOLEAN, NEW quantize,
           NEW m \in Nat, NEW n \in Nat, NEW p \in [1..m -> 1..n],
           NEW N \in Nat, Len(golden.rows) = N, Len(generated.rows) = N
    PROVE  ComparesAll(golden, generated, p, ordered, quantize, N, m)
  <1> DEFINE s == [r \in 1..N |-> [k \in 1..m |-> Canonical(golden.rows[r][k], quantize)]]
             u == [r \in 1..N |-> [k \in 1..m |-> Canonical(generated.rows[r][p[k]], quantize)]]
             T == {s[r] : r \in 1..N} \cup {u[r] : r \in 1..N}
             all == CompareRows(golden, generated, p, ordered, quantize)
             met == \E o \in RowOrders(golden, ordered) : \A r \in 1..N, i \in 1..m :
                        Canonical(golden.rows[r][i], quantize) = Canonical(generated.rows[o[r]][p[i]], quantize)
  <1>1. all = Overlap(s, u, ordered)
    <2>1. DOMAIN p = 1..m /\ Rows(golden) = 1..N /\ Rows(generated) = 1..N
      BY DEF Rows
    <2> DEFINE id == [i \in DOMAIN p |-> i]
    <2>2. DOMAIN id = 1..m /\ \A k \in 1..m : id[k] = k
      BY <2>1
    <2> HIDE DEF id
    <2>3. Project(golden, id, quantize) = s
      BY <2>1, <2>2 DEF Project
    <2>4. Project(generated, p, quantize) = u
      BY <2>1 DEF Project
    <2> HIDE DEF s, u
    <2> QED BY <2>3, <2>4 DEF CompareRows, id
  <1>2. s \in [1..N -> T] /\ u \in [1..N -> T]
    OBVIOUS
  <1>3. RowOrders(golden, ordered) = Orders(N, ordered)
    BY DEF RowOrders, Orders, Rows
  <1>4. ASSUME NEW r \in 1..N, NEW q \in 1..N
        PROVE  s[r] = u[q] <=> \A i \in 1..m :
                   Canonical(golden.rows[r][i], quantize) = Canonical(generated.rows[q][p[i]], quantize)
    <2>1. s[r] = [k \in 1..m |-> Canonical(golden.rows[r][k], quantize)]
      OBVIOUS
    <2>2. u[q] = [k \in 1..m |-> Canonical(generated.rows[q][p[k]], quantize)]
      OBVIOUS
    <2> HIDE DEF s, u
    <2> QED BY <2>1, <2>2
  <1>5. ASSUME NEW o \in Orders(N, ordered)
        PROVE  (\A r \in 1..N : s[r] = u[o[r]]) <=> \A r \in 1..N, i \in 1..m :
                 Canonical(golden.rows[r][i], quantize) = Canonical(generated.rows[o[r]][p[i]], quantize)
    <2>1. \A r \in 1..N : o[r] \in 1..N
      BY DEF Orders
    <2> DEFINE same(r, q) == \A i \in 1..m :
                 Canonical(golden.rows[r][i], quantize) = Canonical(generated.rows[q][p[i]], quantize)
    <2>2. \A r \in 1..N : s[r] = u[o[r]] <=> same(r, o[r])
      <3> HIDE DEF s, u
      <3> QED BY <1>4, <2>1
    <2>3. (\A r \in 1..N : s[r] = u[o[r]]) <=> \A r \in 1..N : same(r, o[r])
      <3> HIDE DEF s, u, same
      <3> QED BY <2>2
    <2> HIDE DEF s, u
    <2> QED BY <2>3
  <1>6. Rearranged(N, s, u, ordered) <=> met
    <2> DEFINE by(o) == \A r \in 1..N : s[r] = u[o[r]]
               as(o) == \A r \in 1..N, i \in 1..m :
                   Canonical(golden.rows[r][i], quantize) = Canonical(generated.rows[o[r]][p[i]], quantize)
    <2>1. \A o \in Orders(N, ordered) : by(o) <=> as(o)
      <3> HIDE DEF s, u
      <3> QED BY <1>5
    <2>2. Rearranged(N, s, u, ordered) <=> \E o \in Orders(N, ordered) : by(o)
      <3> HIDE DEF s, u
      <3> QED BY DEF Rearranged
    <2>3. met <=> \E o \in Orders(N, ordered) : as(o)
      BY <1>3
    <2> HIDE DEF by, as, met
    <2> QED BY <2>1, <2>2, <2>3
  <1>7. SharesAllOf(N, s, u, ordered)
    <2> HIDE DEF s, u, T
    <2> QED BY <1>2, OverlapIsWhole, ZenonT(40)
  <1> HIDE DEF s, u, T, all, met
  <1>8. all \in Nat /\ all <= N /\ ((all = N) <=> met)
    BY <1>1, <1>6, <1>7 DEF SharesAllOf
  <1> QED BY <1>8 DEF all, met, ComparesAll

\* Both stages together pair columns one to one.
LEMMA StageOneMatches ==
    ASSUME NEW golden, NEW generated, NEW ordered \in BOOLEAN, NEW quantize,
           NEW m \in Nat, m = Len(golden.names), NEW n \in Nat, n = Len(generated.names)
    PROVE  /\ StageOne(golden, generated, ordered, quantize) \in MatchedOf(golden, generated, ordered, quantize)
           /\ StageOne(golden, generated, ordered, quantize) \in Pairings(m, n)
  <1> DEFINE byName == PairEqualVectors(golden, generated, ordered, quantize, TRUE)
             byOrder == PairEqualVectors(golden, generated, ordered, quantize, FALSE)
  <1>1. byName \in MatchedOf(golden, generated, ordered, quantize)
    BY EqualsArePaired DEF EqualsPaired
  <1>2. byOrder \in MatchedOf(golden, generated, ordered, quantize)
    BY EqualsArePaired DEF EqualsPaired
  <1>3. StageOne(golden, generated, ordered, quantize) \in {byName, byOrder}
    BY DEF StageOne
  <1> HIDE DEF byName, byOrder
  <1>4. MatchedOf(golden, generated, ordered, quantize) \subseteq Pairings(m, n)
    BY DEF MatchedOf, Matched
  <1> QED BY <1>1, <1>2, <1>3, <1>4

\* The two stages together give a pairing.
LEMMA ColumnsArePaired ==
    ASSUME NEW golden, NEW generated, NEW ordered \in BOOLEAN, NEW quantize,
           NEW m \in Nat, m = Len(golden.names), NEW n \in Nat, n = Len(generated.names),
           NEW N \in Nat, Len(golden.rows) = N, Len(generated.rows) = N
    PROVE  PairColumns(golden, generated, ordered, quantize) \in Pairings(m, n)
  <1>1. StageOne(golden, generated, ordered, quantize) \in Pairings(m, n)
    BY StageOneMatches
  <1>2. BestKeeps(golden, generated, ordered, quantize, Pairings(m, n), m)
    <2>1. ASSUME NEW p \in Pairings(m, n), NEW i \in 1..m
          PROVE  BestEffort(golden, generated, p, i, ordered, quantize) \in Pairings(m, n)
      BY BestEffortKeeps
    <2> QED BY <2>1 DEF BestKeeps
  <1> QED BY <1>1, <1>2, PairColumnsIn

SameByRows(golden, generated, p, ordered, quantize) ==
    SameUnder(golden, generated, p, ordered, quantize)
      <=> CompareRows(golden, generated, p, ordered, quantize) = Len(golden.rows)

\* A placing makes the rows the same rows when all of them compare equal.
LEMMA SameUnderIs ==
    ASSUME NEW golden, NEW generated, NEW ordered \in BOOLEAN, NEW quantize,
           NEW m \in Nat, m = Len(golden.names), NEW n \in Nat, n = Len(generated.names),
           NEW N \in Nat, Len(golden.rows) = N, Len(generated.rows) = N, ~Ragged(golden), ~Ragged(generated),
           NEW p \in [1..m -> 1..n]
    PROVE  SameByRows(golden, generated, p, ordered, quantize)
  <1> DEFINE met == \E o \in RowOrders(golden, ordered) : \A r \in 1..N, i \in 1..m :
                      Canonical(golden.rows[r][i], quantize) = Canonical(generated.rows[o[r]][p[i]], quantize)
             all == CompareRows(golden, generated, p, ordered, quantize)
  <1>1. ComparesAll(golden, generated, p, ordered, quantize, N, m)
    BY CompareIsSame
  <1>2. (all = N) <=> met
    BY <1>1 DEF ComparesAll
  <1>3. Rows(golden) = 1..N /\ ColumnsOf(golden) = 1..m
    BY DEF Rows, ColumnsOf
  <1>4. SameUnder(golden, generated, p, ordered, quantize) <=> met
    <2>1. SameUnder(golden, generated, p, ordered, quantize) <=>
            \E o \in RowOrders(golden, ordered) : \A r \in Rows(golden), i \in ColumnsOf(golden) :
               Canonical(golden.rows[r][i], quantize) = Canonical(generated.rows[o[r]][p[i]], quantize)
      <3>1. Len(golden.rows) = Len(generated.rows) /\ ~Ragged(golden) /\ ~Ragged(generated)
        OBVIOUS
      <3> QED BY <3>1, Zenon DEF SameUnder
    <2> QED BY <1>3, <2>1, SMTT(40)
  <1> HIDE DEF all, met
  <1> QED BY <1>2, <1>4 DEF all, SameByRows

ScoreIs(golden, generated, match, ordered, bounds) ==
    LET loose == match = "values"
        pairing == PairColumns(golden, generated, ordered, loose)
    IN  Passes(Judge(golden, generated, match, ordered, bounds)) <=>
          /\ golden.rows # <<>> /\ Len(golden.rows) = Len(generated.rows)
          /\ ~Ragged(golden) /\ ~Ragged(generated)
          /\ DOMAIN pairing = ColumnsOf(golden)
          /\ Len(generated.names) > Len(golden.names) => loose
          /\ CompareRows(golden, generated, pairing, ordered, loose) = Len(golden.rows)

\* When `exact` and `values` pass.
LEMMA PassIs ==
    ASSUME NEW Names, NEW Cells, NEW golden \in Results(Names, Cells), NEW generated \in Results(Names, Cells),
           NEW match \in {"exact", "values"}, NEW ordered, NEW bounds
    PROVE  ScoreIs(golden, generated, match, ordered, bounds)
  <1> DEFINE loose == match = "values"
             pairing == PairColumns(golden, generated, ordered, loose)
             rows == CompareRows(golden, generated, pairing, ordered, loose)
             score == ScoreValues(golden, generated, ordered, loose)
             judged == Judge(golden, generated, match, ordered, bounds)
  <1>1. golden.rows \in Seq(Seq(Cells)) /\ generated.rows \in Seq(Seq(Cells))
        /\ Len(golden.names) \in Nat /\ Len(generated.names) \in Nat
    BY DEF Results
  <1>2. Len(golden.rows) \in Nat /\ Len(generated.rows) \in Nat
        /\ (golden.rows = <<>> <=> Len(golden.rows) = 0) /\ (generated.rows = <<>> <=> Len(generated.rows) = 0)
    BY <1>1
  <1>3. CASE golden.rows = <<>> /\ generated.rows = <<>>
    <2>1. judged = Unscored
      BY <1>3 DEF Judge
    <2>2. ~Passes(Unscored)
      BY DEF Unscored, Error, Passes
    <2> HIDE DEF judged
    <2>3. ~Passes(judged)
      BY <2>1, <2>2
    <2> QED BY <1>3, <2>3 DEF judged, ScoreIs
  <1>4. CASE ~(golden.rows = <<>> /\ generated.rows = <<>>)
    <2>1. judged = score
      BY <1>4 DEF Judge
    <2>2. ~Passes(Wrong) /\ ~Passes(Error) /\ (Passes(Scored(rows, Len(golden.rows))) <=> rows = Len(golden.rows))
      BY DEF Wrong, Error, Passes, Scored
    <2> DEFINE narrow == \/ DOMAIN pairing # ColumnsOf(golden)
                         \/ ~loose /\ Len(generated.names) > Len(golden.names)
    <2>3. /\ Len(golden.rows) # Len(generated.rows) => score = Wrong
          /\ Len(golden.rows) = Len(generated.rows) /\ (Ragged(golden) \/ Ragged(generated)) => score = Error
          /\ Len(golden.rows) = Len(generated.rows) /\ ~Ragged(golden) /\ ~Ragged(generated) =>
               score = IF narrow THEN Wrong ELSE Scored(rows, Len(golden.rows))
      BY DEF ScoreValues
    <2> HIDE DEF score, rows, judged
    <2>4. Passes(judged) <=> /\ Len(golden.rows) = Len(generated.rows)
                             /\ ~Ragged(golden) /\ ~Ragged(generated)
                             /\ ~narrow /\ rows = Len(golden.rows)
      BY <2>1, <2>2, <2>3
    <2>5. Len(golden.rows) = Len(generated.rows) => golden.rows # <<>>
      BY <1>2, <1>4
    <2> HIDE DEF pairing, loose
    <2>6. narrow <=> ~(DOMAIN pairing = ColumnsOf(golden) /\ (Len(generated.names) > Len(golden.names) => loose))
      OBVIOUS
    <2> HIDE DEF narrow
    <2> QED BY <2>4, <2>5, <2>6 DEF judged, rows, pairing, loose, ScoreIs
  <1> QED BY <1>3, <1>4

\* A pass at `exact` or `values` is only given to an answer whose rows are
\* the key's under some placing of the columns (in their order, when the
\* order is part of the answer), and `exact` to one with no column more.
THEOREM PassIsOfTheKeysRows ==
    ASSUME NEW Names, NEW Cells, NEW golden \in Results(Names, Cells), NEW generated \in Results(Names, Cells),
           NEW match \in {"exact", "values"}, NEW ordered \in BOOLEAN, NEW bounds,
           Passes(Judge(golden, generated, match, ordered, bounds))
    PROVE  /\ \E f \in Placings(golden, generated) : SameUnder(golden, generated, f, ordered, match = "values")
           /\ Len(generated.names) > Len(golden.names) => match = "values"
  <1> DEFINE loose == match = "values"
             m == Len(golden.names)
             n == Len(generated.names)
             N == Len(golden.rows)
             f == PairColumns(golden, generated, ordered, loose)
  <1>1. m \in Nat /\ n \in Nat /\ N \in Nat
    BY DEF Results
  <1>2. /\ Len(generated.rows) = N /\ ~Ragged(golden) /\ ~Ragged(generated)
        /\ DOMAIN f = ColumnsOf(golden)
        /\ n > m => loose
        /\ CompareRows(golden, generated, f, ordered, loose) = N
    BY PassIs DEF ScoreIs
  <1>3. ColumnsOf(golden) = 1..m /\ ColumnsOf(generated) = 1..n
    BY DEF ColumnsOf
  <1> HIDE DEF m, n, N, loose, f
  <1>4. f \in Pairings(m, n)
    BY <1>1, <1>2, ColumnsArePaired DEF m, n, N, f
  <1>5. f \in [1..m -> 1..n] /\ \A i, j \in 1..m : f[i] = f[j] => i = j
    BY <1>2, <1>3, <1>4 DEF Pairings
  <1>6. f \in Placings(golden, generated)
    BY <1>3, <1>5 DEF Placings
  <1>7. SameUnder(golden, generated, f, ordered, loose)
    <2>1. SameByRows(golden, generated, f, ordered, loose)
      BY <1>1, <1>2, <1>5, SameUnderIs DEF m, n, N
    <2> QED BY <1>2, <2>1 DEF SameByRows, N
  <1> QED BY <1>2, <1>6, <1>7 DEF loose, m, n

Permutes(o, n, s, u) ==
    /\ o \in [1..n -> 1..n] /\ \A r, q \in 1..n : o[r] = o[q] => r = q
    /\ \A k \in 1..n : s[k] = u[o[k]]
    /\ n \in Nat /\ \E T : s \in [1..n -> T] /\ u \in [1..n -> T]

\* The same list in another order counts the same.
LEMMA RearrangedCounts ==
    ASSUME NEW n, NEW s, NEW u, NEW o, Permutes(o, n, s, u)
    PROVE  Counter(s) = Counter(u)
  <1>0. /\ o \in [1..n -> 1..n] /\ \A r, q \in 1..n : o[r] = o[q] => r = q
        /\ \A k \in 1..n : s[k] = u[o[k]]
        /\ n \in Nat
    BY DEF Permutes
  <1> PICK T : s \in [1..n -> T] /\ u \in [1..n -> T]
    BY DEF Permutes
  <1>1. \A l \in 1..n : \E k \in 1..n : o[k] = l
    <2>1. o \in Injection(1..n, 1..n)
      BY <1>0 DEF Injection, IsInjective
    <2>2. o \in Surjection(1..n, 1..n)
      BY <1>0, <2>1, PlacesAreFinite, FS_Injection
    <2> QED BY <2>2 DEF Surjection
  <1>2. ToSet(s) = ToSet(u)
    <2>1. DOMAIN s = 1..n /\ DOMAIN u = 1..n
      OBVIOUS
    <2>2. \A k \in 1..n : s[k] \in ToSet(u)
      BY <1>0, <2>1 DEF ToSet
    <2>3. \A l \in 1..n : u[l] \in ToSet(s)
      BY <1>0, <1>1, <2>1 DEF ToSet
    <2> QED BY <2>1, <2>2, <2>3 DEF ToSet
  <1>3. ASSUME NEW x PROVE Cardinality(PlacesOf(s, x)) = Cardinality(PlacesOf(u, x))
    <2> DEFINE P == PlacesOf(s, x)
               Q == PlacesOf(u, x)
               f == [k \in P |-> o[k]]
    <2>1. P = {k \in 1..n : s[k] = x} /\ Q = {k \in 1..n : u[k] = x}
      BY DEF PlacesOf
    <2>2. f \in [P -> Q] /\ \A a, b \in P : f[a] = f[b] => a = b
      BY <1>0, <2>1
    <2>3. \A l \in Q : \E k \in P : f[k] = l
      <3>1. ASSUME NEW l \in Q PROVE \E k \in P : f[k] = l
        <4>1. PICK k \in 1..n : o[k] = l
          BY <1>1, <2>1
        <4>2. k \in P
          BY <1>0, <2>1, <4>1
        <4> QED BY <4>1, <4>2
      <3> QED BY <3>1
    <2> HIDE DEF f, P, Q
    <2>4. f \in Bijection(P, Q)
      BY <2>2, <2>3 DEF Bijection, Injection, IsInjective, Surjection
    <2>5. IsFiniteSet(P)
      BY <1>0, PlacesAreFinite DEF P
    <2>6. ExistsBijection(P, Q)
      BY <2>4 DEF ExistsBijection
    <2> QED BY <2>5, <2>6, FS_Bijection DEF P, Q
  <1>4. Counter(s) = [x \in ToSet(s) |-> Cardinality(PlacesOf(s, x))]
        /\ Counter(u) = [x \in ToSet(u) |-> Cardinality(PlacesOf(u, x))]
    BY DEF Counter, PlacesOf
  <1> QED BY <1>2, <1>3, <1>4

\* A placing that makes the rows the same rows is of columns that hold the
\* same.
LEMMA SameIsPlaced ==
    ASSUME NEW golden, NEW generated, NEW ordered \in BOOLEAN, NEW quantize,
           NEW m \in Nat, m = Len(golden.names), NEW n \in Nat, n = Len(generated.names),
           NEW N \in Nat, Len(golden.rows) = N, Len(generated.rows) = N,
           NEW f \in Placings(golden, generated), SameUnder(golden, generated, f, ordered, quantize)
    PROVE  f \in PlacedOf(golden, generated, ordered, quantize)
  <1>1. Rows(golden) = 1..N /\ ColumnsOf(golden) = 1..m /\ ColumnsOf(generated) = 1..n
    BY DEF Rows, ColumnsOf
  <1>2. f \in [1..m -> 1..n] /\ \A i, j \in 1..m : f[i] = f[j] => i = j
    BY <1>1 DEF Placings
  <1>3. PICK o \in RowOrders(golden, ordered) : \A r \in Rows(golden), i \in ColumnsOf(golden) :
          Canonical(golden.rows[r][i], quantize) = Canonical(generated.rows[o[r]][f[i]], quantize)
    BY Zenon DEF SameUnder
  <1>4. /\ o \in [1..N -> 1..N]
        /\ ordered => \A r \in 1..N : o[r] = r
        /\ ~ordered => \A r, q \in 1..N : o[r] = o[q] => r = q
    BY <1>1 DEF RowOrders
  <1>5. ASSUME NEW i \in 1..m
        PROVE  Keys(generated, ordered, quantize)[f[i]] = Keys(golden, ordered, quantize)[i]
    <2> DEFINE v == Vector(golden, i, quantize)
               w == Vector(generated, f[i], quantize)
    <2>1. Keys(golden, ordered, quantize)[i] = Key(v, ordered) /\ Keys(generated, ordered, quantize)[f[i]] = Key(w, ordered)
      BY <1>1, <1>2 DEF Keys
    <2>2. v = [r \in 1..N |-> Canonical(golden.rows[r][i], quantize)]
          /\ w = [r \in 1..N |-> Canonical(generated.rows[r][f[i]], quantize)]
      BY DEF Vector, Rows
    <2>3. \A k \in 1..N : v[k] = w[o[k]]
      <3>1. ASSUME NEW k \in 1..N PROVE v[k] = w[o[k]]
        <4>1. o[k] \in 1..N
          BY <1>4
        <4>2. v[k] = Canonical(golden.rows[k][i], quantize)
          BY <2>2
        <4>3. w[o[k]] = Canonical(generated.rows[o[k]][f[i]], quantize)
          BY <2>2, <4>1
        <4> QED BY <1>1, <1>3, <4>2, <4>3
      <3> QED BY <3>1
    <2>4. PICK T : v \in [1..N -> T] /\ w \in [1..N -> T]
      BY VectorIs
    <2> HIDE DEF v, w
    <2>5. CASE ordered
      <3>1. \A k \in 1..N : v[k] = w[k]
        BY <1>4, <2>3, <2>5
      <3>2. v = w
        BY <2>4, <3>1
      <3> QED BY <2>1, <3>2
    <2>6. CASE ~ordered
      <3>1. Counter(v) = Counter(w)
        <4>1. o \in [1..N -> 1..N] /\ \A r, q \in 1..N : o[r] = o[q] => r = q
          BY <1>4, <2>6
        <4>2. Permutes(o, N, v, w)
          BY <2>3, <2>4, <4>1 DEF Permutes
        <4> QED BY <4>2, RearrangedCounts
      <3> QED BY <2>1, <2>6, <3>1 DEF Key
    <2> QED BY <2>5, <2>6
  <1> QED BY <1>2, <1>5 DEF PlacedOf, Placed

StageOnePairsAll(golden, generated, ordered, quantize, m) ==
    LET p == StageOne(golden, generated, ordered, quantize)
    IN  /\ DOMAIN p = 1..m /\ p \in MatchedOf(golden, generated, ordered, quantize)
        /\ PairColumns(golden, generated, ordered, quantize) = p

\* Then stage one pairs every column, and stage two has none left.
LEMMA StageOneIsAll ==
    ASSUME NEW golden, NEW generated, NEW ordered \in BOOLEAN, NEW quantize,
           NEW m \in Nat, m = Len(golden.names), NEW n \in Nat, n = Len(generated.names),
           PlacedOf(golden, generated, ordered, quantize) # {}
    PROVE  StageOnePairsAll(golden, generated, ordered, quantize, m)
  <1> DEFINE byName == PairEqualVectors(golden, generated, ordered, quantize, TRUE)
             byOrder == PairEqualVectors(golden, generated, ordered, quantize, FALSE)
             p == StageOne(golden, generated, ordered, quantize)
  <1>1. DOMAIN byName = 1..m
    <2>1. EqualsPaired(golden, generated, ordered, quantize, TRUE, m)
      BY EqualsArePaired
    <2> QED BY <2>1 DEF EqualsPaired
  <1>2. DOMAIN byOrder = 1..m
    <2>1. EqualsPaired(golden, generated, ordered, quantize, FALSE, m)
      BY EqualsArePaired
    <2> QED BY <2>1 DEF EqualsPaired
  <1>3. p \in {byName, byOrder}
    BY DEF StageOne
  <1> HIDE DEF byName, byOrder
  <1>4. DOMAIN p = 1..m
    BY <1>1, <1>2, <1>3
  <1>5. p \in MatchedOf(golden, generated, ordered, quantize)
    BY StageOneMatches
  <1>6. ASSUME NEW i \in 1..m PROVE BestEffort(golden, generated, p, i, ordered, quantize) = p
    <2> HIDE DEF p
    <2> QED BY <1>4 DEF BestEffort
  <1>7. PairColumns(golden, generated, ordered, quantize) \in {p}
    <2>1. BestKeeps(golden, generated, ordered, quantize, {p}, m)
      <3> HIDE DEF p
      <3> QED BY <1>6 DEF BestKeeps
    <2> QED BY <2>1, PairColumnsIn
  <1> QED BY <1>4, <1>5, <1>7 DEF StageOnePairsAll

\* When the order counts, columns that hold the same are interchangeable.
LEMMA MatchedInOrder ==
    ASSUME NEW golden, NEW generated, NEW quantize, NEW ordered \in BOOLEAN, ordered,
           NEW m \in Nat, m = Len(golden.names), NEW n \in Nat, n = Len(generated.names),
           NEW N \in Nat, Len(golden.rows) = N, Len(generated.rows) = N, ~Ragged(golden), ~Ragged(generated),
           NEW p \in MatchedOf(golden, generated, ordered, quantize), DOMAIN p = 1..m
    PROVE  SameUnder(golden, generated, p, ordered, quantize)
  <1>1. Rows(golden) = 1..N /\ Rows(generated) = 1..N /\ ColumnsOf(golden) = 1..m /\ ColumnsOf(generated) = 1..n
    BY DEF Rows, ColumnsOf
  <1>2. p \in Pairings(m, n)
        /\ \A i \in 1..m : Keys(generated, ordered, quantize)[p[i]] = Keys(golden, ordered, quantize)[i]
    BY DEF MatchedOf, Matched
  <1>3. p \in [1..m -> 1..n]
    BY <1>2, PairingIs
  <1> DEFINE o == [r \in 1..N |-> r]
  <1>4. o \in RowOrders(golden, ordered)
    BY <1>1 DEF RowOrders
  <1>5. ASSUME NEW r \in 1..N, NEW i \in 1..m
        PROVE  Canonical(golden.rows[r][i], quantize) = Canonical(generated.rows[o[r]][p[i]], quantize)
    <2>1. Vector(generated, p[i], quantize) = Vector(golden, i, quantize)
      BY <1>1, <1>2, <1>3 DEF Keys, Key
    <2>2. Vector(golden, i, quantize)[r] = Canonical(golden.rows[r][i], quantize)
      BY <1>1 DEF Vector
    <2>3. Vector(generated, p[i], quantize)[r] = Canonical(generated.rows[r][p[i]], quantize)
      BY <1>1 DEF Vector
    <2> QED BY <2>1, <2>2, <2>3
  <1> HIDE DEF o
  <1>6. \E x \in RowOrders(golden, ordered) : \A r \in Rows(golden), i \in ColumnsOf(golden) :
          Canonical(golden.rows[r][i], quantize) = Canonical(generated.rows[x[r]][p[i]], quantize)
    BY <1>1, <1>4, <1>5, ZenonT(40)
  <1> QED BY <1>6, Zenon DEF SameUnder

NamesSay(golden, generated, f) ==
    /\ \A i \in ColumnsOf(golden) : generated.names[f[i]] = golden.names[i]
    /\ IsInjective(generated.names)

\* Where the names say the placing, the pass over the names finds it.
LEMMA FoundByName ==
    ASSUME NEW golden, NEW generated, NEW quantize, NEW ordered \in BOOLEAN,
           NEW m \in Nat, m = Len(golden.names), NEW n \in Nat, n = Len(generated.names),
           NEW f \in PlacedOf(golden, generated, ordered, quantize),
           DOMAIN generated.names = 1..n, NamesSay(golden, generated, f)
    PROVE  PairEqualVectors(golden, generated, ordered, quantize, TRUE) = f
  <1> DEFINE kg == Keys(golden, ordered, quantize)
             kn == Keys(generated, ordered, quantize)
             named == NamedAs(golden, generated, ordered, quantize)
             equal == EqualTo(golden, generated, ordered, quantize)
  <1>1. f \in [1..m -> 1..n] /\ (\A i, j \in 1..m : f[i] = f[j] => i = j) /\ \A i \in 1..m : kn[f[i]] = kg[i]
    BY DEF PlacedOf, Placed
  <1>2. ASSUME NEW i \in 1..m PROVE named[i] = {f[i]}
    <2>1. equal[i] = AlikeTo(n, kn, kg[i])
      BY EqualIsAlike
    <2>2. named[i] = {j \in equal[i] : generated.names[j] = golden.names[i]}
      BY DEF NamedAs, ColumnsOf
    <2>3. f[i] \in equal[i] /\ equal[i] \subseteq 1..n
      <3> HIDE DEF equal, kn, kg
      <3> QED BY <1>1, <2>1 DEF AlikeTo
    <2>4. generated.names[f[i]] = golden.names[i]
      BY DEF ColumnsOf, NamesSay
    <2>5. \A j, k \in 1..n : generated.names[j] = generated.names[k] => j = k
      BY DEF IsInjective, NamesSay
    <2> HIDE DEF equal, named
    <2> QED BY <1>1, <2>2, <2>3, <2>4, <2>5
  <1> HIDE DEF named, equal, kg, kn
  <1>3. FirstFree(m, n, f, named)
    BY <1>1, <1>2 DEF FirstFree
  <1>4. TakeInOrder(golden, Nothing, named) = f
    BY <1>3, TakesPlacing
  <1>5. DOMAIN f = 1..m
    BY <1>1
  <1>6. TakeInOrder(golden, f, equal) = f
    BY <1>5, TakesNoMore
  <1>7. PairEqualVectors(golden, generated, ordered, quantize, TRUE) =
          TakeInOrder(golden, TakeInOrder(golden, Nothing, named), equal)
    BY PairEqualVectorsIs DEF named, equal
  <1> QED BY <1>4, <1>6, <1>7

\* Where every column is in its place, the pass in their order finds it.
LEMMA FoundInPlace ==
    ASSUME NEW golden, NEW generated, NEW quantize, NEW ordered \in BOOLEAN,
           NEW m \in Nat, m = Len(golden.names), NEW n \in Nat, n = Len(generated.names),
           NEW f \in PlacedOf(golden, generated, ordered, quantize),
           \A i \in 1..m : f[i] = i
    PROVE  PairEqualVectors(golden, generated, ordered, quantize, FALSE) = f
  <1> DEFINE kg == Keys(golden, ordered, quantize)
             kn == Keys(generated, ordered, quantize)
             equal == EqualTo(golden, generated, ordered, quantize)
  <1>1. f \in [1..m -> 1..n] /\ (\A i, j \in 1..m : f[i] = f[j] => i = j) /\ \A i \in 1..m : kn[f[i]] = kg[i]
    BY DEF PlacedOf, Placed
  <1>2. ASSUME NEW i \in 1..m PROVE f[i] \in equal[i] /\ equal[i] \subseteq 1..n
    <2>1. equal[i] = AlikeTo(n, kn, kg[i])
      BY EqualIsAlike
    <2> HIDE DEF equal, kn, kg
    <2> QED BY <1>1, <2>1 DEF AlikeTo
  <1> HIDE DEF equal, kg, kn
  <1>3. ASSUME NEW i \in 1..m, NEW k \in equal[i], \A a \in 1..(i - 1) : f[a] # k PROVE f[i] <= k
    <2>1. \A a \in 1..(i - 1) : a \in 1..m /\ f[a] = a
      OBVIOUS
    <2>2. k \notin 1..(i - 1) /\ k \in 1..n
      BY <1>2, <1>3, <2>1
    <2> QED BY <2>2
  <1>4. FirstFree(m, n, f, equal)
    BY <1>1, <1>2, <1>3 DEF FirstFree
  <1>5. TakeInOrder(golden, Nothing, equal) = f
    BY <1>4, TakesPlacing
  <1>6. PairEqualVectors(golden, generated, ordered, quantize, FALSE) = TakeInOrder(golden, Nothing, equal)
    BY PairEqualVectorsIs DEF equal
  <1> QED BY <1>5, <1>6

\* Where no two columns hold the same, there is one placing to find.
LEMMA FoundByValue ==
    ASSUME NEW golden, NEW generated, NEW quantize, NEW ordered \in BOOLEAN,
           NEW m \in Nat, m = Len(golden.names), NEW n \in Nat, n = Len(generated.names),
           NEW f \in PlacedOf(golden, generated, ordered, quantize),
           NEW p \in MatchedOf(golden, generated, ordered, quantize), DOMAIN p = 1..m,
           \A i, j \in 1..n : Keys(generated, ordered, quantize)[i] = Keys(generated, ordered, quantize)[j] => i = j
    PROVE  p = f
  <1> DEFINE kg == Keys(golden, ordered, quantize)
             kn == Keys(generated, ordered, quantize)
  <1>1. f \in [1..m -> 1..n] /\ \A i \in 1..m : kn[f[i]] = kg[i]
    BY DEF PlacedOf, Placed
  <1>2. p \in Pairings(m, n) /\ \A i \in 1..m : kn[p[i]] = kg[i]
    BY DEF MatchedOf, Matched
  <1>3. p \in [1..m -> 1..n]
    BY <1>2, PairingIs
  <1>0. \A i, j \in 1..n : kn[i] = kn[j] => i = j
    OBVIOUS
  <1> HIDE DEF kg, kn
  <1>4. ASSUME NEW i \in 1..m PROVE p[i] = f[i]
    <2>1. p[i] \in 1..n /\ f[i] \in 1..n /\ kn[p[i]] = kn[f[i]]
      BY <1>1, <1>2, <1>3
    <2> QED BY <1>0, <2>1
  <1> QED BY <1>1, <1>3, <1>4

\* Of two counts, one of them whole, the larger is whole.
LEMMA LargerIsAll ==
    ASSUME NEW N \in Nat, NEW a \in Nat, NEW b \in Nat, a <= N, b <= N, a = N \/ b = N
    PROVE  IF b > a THEN b = N ELSE a = N
  OBVIOUS

\* Stage one finds a placing that makes the rows the same rows.
LEMMA StageOneFinds ==
    ASSUME NEW golden, NEW generated, NEW ordered \in BOOLEAN, NEW quantize,
           NEW m \in Nat, m = Len(golden.names), NEW n \in Nat, n = Len(generated.names),
           DOMAIN generated.names = 1..n,
           NEW N \in Nat, Len(golden.rows) = N, Len(generated.rows) = N, ~Ragged(golden), ~Ragged(generated),
           NEW f \in Placings(golden, generated), SameUnder(golden, generated, f, ordered, quantize),
           Findable(golden, generated, f, ordered, quantize)
    PROVE  LET p == StageOne(golden, generated, ordered, quantize)
           IN  /\ DOMAIN p = 1..m /\ PairColumns(golden, generated, ordered, quantize) = p
               /\ CompareRows(golden, generated, p, ordered, quantize) = N
  <1> DEFINE p == StageOne(golden, generated, ordered, quantize)
             byName == PairEqualVectors(golden, generated, ordered, quantize, TRUE)
             byOrder == PairEqualVectors(golden, generated, ordered, quantize, FALSE)
             rows(q) == CompareRows(golden, generated, q, ordered, quantize)
  <1>1. f \in PlacedOf(golden, generated, ordered, quantize)
    BY SameIsPlaced
  <1>2. DOMAIN p = 1..m /\ PairColumns(golden, generated, ordered, quantize) = p
        /\ p \in MatchedOf(golden, generated, ordered, quantize)
    <2>1. StageOnePairsAll(golden, generated, ordered, quantize, m)
      BY <1>1, StageOneIsAll
    <2> QED BY <2>1 DEF StageOnePairsAll
  <1>4. ColumnsOf(golden) = 1..m /\ ColumnsOf(generated) = 1..n
    BY DEF ColumnsOf
  <1>5. ASSUME NEW q \in MatchedOf(golden, generated, ordered, quantize), DOMAIN q = 1..m
        PROVE  /\ q \in [1..m -> 1..n] /\ rows(q) \in Nat /\ rows(q) <= N
               /\ SameUnder(golden, generated, q, ordered, quantize) => rows(q) = N
    <2>1. q \in Pairings(m, n)
      BY <1>5 DEF MatchedOf, Matched
    <2>2. q \in [1..m -> 1..n]
      BY <1>5, <2>1, PairingIs
    <2>3. ComparesAll(golden, generated, q, ordered, quantize, N, m)
      BY <2>2, CompareIsSame
    <2>4. SameByRows(golden, generated, q, ordered, quantize)
      BY <2>2, SameUnderIs
    <2> QED BY <2>2, <2>3, <2>4 DEF ComparesAll, SameByRows
  <1>6. CASE ordered
    <2>1. SameUnder(golden, generated, p, ordered, quantize)
      BY <1>2, <1>6, MatchedInOrder
    <2> HIDE DEF p, rows
    <2>2. rows(p) = N
      BY <1>2, <1>5, <2>1
    <2> QED BY <1>2, <2>2 DEF p, rows
  <1>7. CASE ~ordered
    <2>1. byName \in MatchedOf(golden, generated, ordered, quantize) /\ DOMAIN byName = 1..m
      <3>1. EqualsPaired(golden, generated, ordered, quantize, TRUE, m)
        BY EqualsArePaired
      <3> QED BY <1>1, <3>1 DEF EqualsPaired
    <2>2. byOrder \in MatchedOf(golden, generated, ordered, quantize) /\ DOMAIN byOrder = 1..m
      <3>1. EqualsPaired(golden, generated, ordered, quantize, FALSE, m)
        BY EqualsArePaired
      <3> QED BY <1>1, <3>1 DEF EqualsPaired
    <2>3. f \in {byName, byOrder}
      <3>1. \/ NamesSay(golden, generated, f)
            \/ \A i, j \in ColumnsOf(generated) :
                 Counter(Vector(generated, i, quantize)) = Counter(Vector(generated, j, quantize)) => i = j
            \/ \A i \in ColumnsOf(golden) : f[i] = i
        BY <1>7 DEF Findable, NamesSay
      <3>2. CASE NamesSay(golden, generated, f)
        <4>1. byName = f
          BY <1>1, <3>2, FoundByName
        <4> QED BY <4>1
      <3>3. CASE \A i, j \in ColumnsOf(generated) :
                   Counter(Vector(generated, i, quantize)) = Counter(Vector(generated, j, quantize)) => i = j
        <4>1. \A i, j \in 1..n : Keys(generated, ordered, quantize)[i] = Keys(generated, ordered, quantize)[j] => i = j
          BY <1>4, <1>7, <3>3 DEF Keys, Key
        <4>2. byName = f
          <5> HIDE DEF byName
          <5> QED BY <1>1, <2>1, <4>1, FoundByValue
        <4> QED BY <4>2
      <3>4. CASE \A i \in ColumnsOf(golden) : f[i] = i
        <4>1. byOrder = f
          BY <1>1, <1>4, <3>4, FoundInPlace
        <4> QED BY <4>1
      <3> QED BY <3>1, <3>2, <3>3, <3>4
    <2>4. ordered = FALSE
      BY <1>7
    <2> DEFINE a == rows(byName)
               b == rows(byOrder)
    <2> HIDE DEF rows, byName, byOrder
    <2>5. a \in Nat /\ a <= N /\ b \in Nat /\ b <= N /\ (a = N \/ b = N)
      BY <1>5, <2>1, <2>2, <2>3
    <2>6. a = CompareRows(golden, generated, byName, FALSE, quantize) /\ b = CompareRows(golden, generated, byOrder, FALSE, quantize)
      BY <2>4 DEF rows
    <2> HIDE DEF a, b
    <2>7. IF b > a THEN b = N ELSE a = N
      BY <2>5, LargerIsAll
    <2>8. CompareRows(golden, generated, p, FALSE, quantize) = N
      <3>1. p = IF ~ordered /\ CompareRows(golden, generated, byOrder, FALSE, quantize)
                                > CompareRows(golden, generated, byName, FALSE, quantize)
                THEN byOrder ELSE byName
        BY Zenon DEF StageOne, byName, byOrder
      <3> HIDE DEF p
      <3>2. p = IF b > a THEN byOrder ELSE byName
        BY <1>7, <2>6, <3>1
      <3>3. CASE b > a
        <4>1. p = byOrder /\ b = N
          BY <2>7, <3>2, <3>3
        <4> QED BY <2>6, <4>1, Zenon
      <3>4. CASE ~(b > a)
        <4>1. p = byName /\ a = N
          BY <2>7, <3>2, <3>4
        <4> QED BY <2>6, <4>1, Zenon
      <3> QED BY <3>3, <3>4
    <2> QED BY <1>2, <2>4, <2>8
  <1> QED BY <1>6, <1>7

\* The key's own answer, with its columns placed anywhere and its rows in any
\* order (in order, when the order is part of the answer), passes wherever
\* the placing can be found by value, and has a column more only at `values`.
THEOREM TheKeysRowsPass ==
    ASSUME NEW Names, NEW Cells, NEW golden \in Results(Names, Cells), NEW generated \in Results(Names, Cells),
           NEW match \in {"exact", "values"}, NEW ordered \in BOOLEAN, NEW bounds,
           golden.rows # <<>>, Len(generated.names) > Len(golden.names) => match = "values",
           NEW f \in Placings(golden, generated), SameUnder(golden, generated, f, ordered, match = "values"),
           Findable(golden, generated, f, ordered, match = "values")
    PROVE  Passes(Judge(golden, generated, match, ordered, bounds))
  <1> DEFINE loose == match = "values"
             m == Len(golden.names)
             n == Len(generated.names)
             N == Len(golden.rows)
             p == StageOne(golden, generated, ordered, loose)
  <1>1. m \in Nat /\ n \in Nat /\ N \in Nat /\ DOMAIN generated.names = 1..n
    BY DEF Results
  <1>2. Len(generated.rows) = N /\ ~Ragged(golden) /\ ~Ragged(generated)
    BY DEF SameUnder
  <1>3. DOMAIN p = 1..m /\ PairColumns(golden, generated, ordered, loose) = p
        /\ CompareRows(golden, generated, p, ordered, loose) = N
    BY <1>1, <1>2, StageOneFinds
  <1>4. ColumnsOf(golden) = 1..m
    BY DEF ColumnsOf
  <1>5. ScoreIs(golden, generated, match, ordered, bounds)
    BY PassIs
  <1> HIDE DEF p
  <1> QED BY <1>2, <1>3, <1>4, <1>5 DEF ScoreIs

\* Cells of one kind.
OfAKind(c, d) == (c = Null <=> d = Null) /\ TypeOf[c] = TypeOf[d] /\ (c \in DOMAIN Number <=> d \in DOMAIN Number)

\* Cells that compare equal are of a kind.
LEMMA SameIsOfAKind ==
    ASSUME NEW Cells, BucketsAreOfAKind(Cells), NEW c \in Cells, NEW d \in Cells, NEW quantize \in BOOLEAN,
           Canonical(c, quantize) = Canonical(d, quantize)
    PROVE  OfAKind(c, d)
  <1>1. CASE quantize
    BY <1>1 DEF Canonical, BucketsAreOfAKind, OfAKind
  <1>2. CASE ~quantize
    BY <1>2 DEF Canonical, OfAKind
  <1> QED BY <1>1, <1>2

\* The rows of one are the rows of the other, column by column.
InPlace(golden, generated, quantize) ==
    /\ Len(golden.names) = Len(generated.names) /\ Len(golden.rows) = Len(generated.rows)
    /\ \A r \in Rows(golden) : \E q \in Rows(golden) : \A i \in ColumnsOf(golden) :
          Canonical(golden.rows[r][i], quantize) = Canonical(generated.rows[q][i], quantize)
    /\ \A q \in Rows(golden) : \E r \in Rows(golden) : \A i \in ColumnsOf(golden) :
          Canonical(golden.rows[r][i], quantize) = Canonical(generated.rows[q][i], quantize)

\* Rows that are the same with every column in its place.
LEMMA SameIsInPlace ==
    ASSUME NEW Names, NEW Cells, NEW golden \in Results(Names, Cells), NEW generated \in Results(Names, Cells),
           NEW ordered \in BOOLEAN, NEW quantize, ~(Len(generated.names) > Len(golden.names)),
           NEW f \in Placings(golden, generated), SameUnder(golden, generated, f, ordered, quantize),
           \A i \in ColumnsOf(golden) : f[i] = i
    PROVE  InPlace(golden, generated, quantize)
  <1> DEFINE m == Len(golden.names)
             n == Len(generated.names)
             N == Len(golden.rows)
  <1>1. m \in Nat /\ n \in Nat /\ N \in Nat
    BY DEF Results
  <1>2. ColumnsOf(golden) = 1..m /\ ColumnsOf(generated) = 1..n /\ Rows(golden) = 1..N
    BY DEF ColumnsOf, Rows
  <1>3. f \in [1..m -> 1..n] /\ \A i \in 1..m : f[i] = i
    BY <1>2 DEF Placings
  <1>4. ~(n > m)
    OBVIOUS
  <1> HIDE DEF m, n, N
  <1>5. m = n
    <2>1. m > 0 => m \in 1..m /\ m \in 1..n
      BY <1>1, <1>3
    <2> QED BY <1>1, <1>4, <2>1
  <1>6. Len(generated.rows) = N
    BY DEF SameUnder, N
  <1>7. PICK o \in RowOrders(golden, ordered) : \A r \in Rows(golden), i \in ColumnsOf(golden) :
          Canonical(golden.rows[r][i], quantize) = Canonical(generated.rows[o[r]][f[i]], quantize)
    BY Zenon DEF SameUnder
  <1>8. o \in [1..N -> 1..N] /\ \A r, q \in 1..N : o[r] = o[q] => r = q
    BY <1>2 DEF RowOrders
  <1>9. \A q \in 1..N : \E r \in 1..N : o[r] = q
    <2>1. o \in Injection(1..N, 1..N)
      BY <1>8 DEF Injection, IsInjective
    <2>2. IsFiniteSet(1..N)
      <3>1. 1 \in Int /\ N \in Int
        BY <1>1
      <3> QED BY <3>1, FS_Interval
    <2>3. o \in Surjection(1..N, 1..N)
      BY <2>1, <2>2, FS_Injection
    <2> QED BY <2>3 DEF Surjection
  <1>10. ASSUME NEW r \in 1..N, NEW i \in 1..m
         PROVE  Canonical(golden.rows[r][i], quantize) = Canonical(generated.rows[o[r]][i], quantize)
    BY <1>2, <1>3, <1>7
  <1>11. ASSUME NEW r \in 1..N
         PROVE  \E q \in 1..N : \A i \in 1..m :
                   Canonical(golden.rows[r][i], quantize) = Canonical(generated.rows[q][i], quantize)
    <2>1. o[r] \in 1..N
      BY <1>8
    <2> QED BY <1>10, <2>1
  <1>12. ASSUME NEW q \in 1..N
         PROVE  \E r \in 1..N : \A i \in 1..m :
                   Canonical(golden.rows[r][i], quantize) = Canonical(generated.rows[q][i], quantize)
    <2>1. PICK r \in 1..N : o[r] = q
      BY <1>9
    <2> QED BY <1>10, <2>1
  <1> QED BY <1>2, <1>5, <1>6, <1>11, <1>12 DEF InPlace, m, n, N

\* A cell of a result that is not ragged.
LEMMA CellIs ==
    ASSUME NEW Names, NEW Cells, NEW t \in Results(Names, Cells), ~Ragged(t), NEW r \in Rows(t), NEW i \in ColumnsOf(t)
    PROVE  t.rows[r][i] \in Cells /\ Len(t.rows[r]) = Len(t.names)
  <1>1. t.rows \in Seq(Seq(Cells))
    BY DEF Results
  <1>2. r \in 1..Len(t.rows) /\ t.rows[r] \in Seq(Cells)
    BY <1>1 DEF Rows
  <1>3. Len(t.rows[r]) = Len(t.names)
    BY DEF Ragged
  <1>4. i \in 1..Len(t.rows[r])
    BY <1>3 DEF ColumnsOf
  <1> QED BY <1>2, <1>3, <1>4

\* Types are those of the rows, so the shape is the key's.
LEMMA ShapeIsKept ==
    ASSUME NEW Names, NEW Cells, NEW golden \in Results(Names, Cells), NEW generated \in Results(Names, Cells),
           BucketsAreOfAKind(Cells), NEW ordered, NEW quantize \in BOOLEAN, NEW band,
           ~Ragged(golden), ~Ragged(generated), golden.rows # <<>>,
           InPlace(golden, generated, quantize)
    PROVE  Passes(Judge(golden, generated, "shape", ordered, band))
  <1>1. /\ Len(golden.names) = Len(generated.names) /\ Len(golden.rows) = Len(generated.rows)
        /\ \A r \in Rows(golden) : \E q \in Rows(golden) : \A i \in ColumnsOf(golden) :
              Canonical(golden.rows[r][i], quantize) = Canonical(generated.rows[q][i], quantize)
        /\ \A q \in Rows(golden) : \E r \in Rows(golden) : \A i \in ColumnsOf(golden) :
              Canonical(golden.rows[r][i], quantize) = Canonical(generated.rows[q][i], quantize)
    BY DEF InPlace
  <1>2. Rows(generated) = Rows(golden) /\ ColumnsOf(generated) = ColumnsOf(golden)
    BY <1>1 DEF Rows, ColumnsOf
  <1>3. ASSUME NEW t, NEW i
        PROVE  ColumnTypes(t, i) = {TypeOf[t.rows[r][i]] : r \in {x \in Rows(t) : t.rows[x][i] # Null}}
    <2>1. ToSet(Vector(t, i, FALSE)) = {t.rows[r][i] : r \in Rows(t)}
      BY DEF ToSet, Vector, Canonical
    <2> QED BY <2>1 DEF ColumnTypes
  <1>4. ASSUME NEW r \in Rows(golden), NEW q \in Rows(golden), NEW i \in ColumnsOf(golden),
               Canonical(golden.rows[r][i], quantize) = Canonical(generated.rows[q][i], quantize)
        PROVE  OfAKind(golden.rows[r][i], generated.rows[q][i])
    <2>1. golden.rows[r][i] \in Cells
      BY CellIs
    <2>2. generated.rows[q][i] \in Cells
      BY <1>2, CellIs
    <2> QED BY <1>4, <2>1, <2>2, SameIsOfAKind
  <1>5. ASSUME NEW i \in ColumnsOf(golden) PROVE ColumnTypes(golden, i) = ColumnTypes(generated, i)
    <2>1. \A r \in Rows(golden) : \E q \in Rows(golden) : OfAKind(golden.rows[r][i], generated.rows[q][i])
      BY <1>1, <1>4
    <2>2. \A q \in Rows(golden) : \E r \in Rows(golden) : OfAKind(golden.rows[r][i], generated.rows[q][i])
      BY <1>1, <1>4
    <2>3. ColumnTypes(golden, i) = {TypeOf[golden.rows[r][i]] : r \in {x \in Rows(golden) : golden.rows[x][i] # Null}}
      BY <1>3
    <2>4. ColumnTypes(generated, i) =
            {TypeOf[generated.rows[r][i]] : r \in {x \in Rows(golden) : generated.rows[x][i] # Null}}
      BY <1>2, <1>3
    <2>5. ASSUME NEW r \in Rows(golden), golden.rows[r][i] # Null
          PROVE  TypeOf[golden.rows[r][i]] \in ColumnTypes(generated, i)
      <3>1. PICK q \in Rows(golden) : OfAKind(golden.rows[r][i], generated.rows[q][i])
        BY <2>1
      <3> QED BY <2>4, <2>5, <3>1 DEF OfAKind
    <2>6. ASSUME NEW q \in Rows(golden), generated.rows[q][i] # Null
          PROVE  TypeOf[generated.rows[q][i]] \in ColumnTypes(golden, i)
      <3>1. PICK r \in Rows(golden) : OfAKind(golden.rows[r][i], generated.rows[q][i])
        BY <2>2
      <3> QED BY <2>3, <2>6, <3>1 DEF OfAKind
    <2> QED BY <2>3, <2>4, <2>5, <2>6
  <1>6. ScoreShape(golden, generated) = Right
    BY <1>1, <1>5 DEF ScoreShape
  <1>7. Judge(golden, generated, "shape", ordered, band) = ScoreShape(golden, generated)
    BY DEF Judge
  <1> QED BY <1>6, <1>7 DEF Right, Scored, Passes

\* One number, and what a band asks of a result that has rows.
OneNumber(t) ==
    /\ Len(t.rows) = 1 /\ Len(t.names) = 1
    /\ Len(t.rows[1]) = 1 /\ t.rows[1][1] \in DOMAIN Number
Fits(t, b) ==
    /\ b.values # None => OneNumber(t) \/ b.rows # None
    /\ b.values # None /\ OneNumber(t) => Number[t.rows[1][1]] \in b.values
    /\ b.rows # None => Len(t.rows) \in b.rows

\* What a band lets through.
LEMMA BoundsAre ==
    ASSUME NEW golden, NEW t, NEW ordered, NEW b, t.rows # <<>>
    PROVE  Passes(Judge(golden, t, "bounded", ordered, b)) <=> Fits(t, b)
  <1> DEFINE score == ScoreBounds(t, b)
             off == \/ b.values # None /\ OneNumber(t) /\ Number[t.rows[1][1]] \notin b.values
                    \/ b.rows # None /\ Len(t.rows) \notin b.rows
             blind == b.values # None /\ ~OneNumber(t) /\ b.rows = None
  <1>1. Judge(golden, t, "bounded", ordered, b) = score
    BY DEF Judge
  <1>2. (blind => score = Error) /\ (~blind => score = IF off THEN Wrong ELSE Right)
    BY DEF ScoreBounds, OneNumber
  <1>3. ~Passes(Wrong) /\ ~Passes(Error) /\ Passes(Right)
    BY DEF Wrong, Right, Error, Scored, Passes
  <1>4. Fits(t, b) <=> ~blind /\ ~off
    BY DEF Fits
  <1> HIDE DEF score, off, blind
  <1> QED BY <1>1, <1>2, <1>3, <1>4

\* A band the key fits is fit by the same rows, but where it bounds the one
\* number that a bucket may have moved.
LEMMA BandIsKept ==
    ASSUME NEW Names, NEW Cells, NEW golden \in Results(Names, Cells), NEW generated \in Results(Names, Cells),
           BucketsAreOfAKind(Cells), NEW ordered, NEW quantize \in BOOLEAN, NEW band,
           ~Ragged(golden), ~Ragged(generated), golden.rows # <<>>,
           InPlace(golden, generated, quantize),
           OneNumber(golden) /\ OneNumber(generated) => ~quantize,
           Fits(golden, band)
    PROVE  Fits(generated, band)
  <1>1. /\ Len(golden.names) = Len(generated.names) /\ Len(golden.rows) = Len(generated.rows)
        /\ \A r \in Rows(golden) : \E q \in Rows(golden) : \A i \in ColumnsOf(golden) :
              Canonical(golden.rows[r][i], quantize) = Canonical(generated.rows[q][i], quantize)
    BY DEF InPlace
  <1>2. ASSUME Len(golden.rows) = 1, Len(golden.names) = 1
        PROVE  /\ Len(golden.rows[1]) = 1 /\ Len(generated.rows[1]) = 1
               /\ Canonical(golden.rows[1][1], quantize) = Canonical(generated.rows[1][1], quantize)
               /\ golden.rows[1][1] \in DOMAIN Number <=> generated.rows[1][1] \in DOMAIN Number
    <2>1. Rows(golden) = {1} /\ ColumnsOf(golden) = {1} /\ Rows(generated) = {1} /\ ColumnsOf(generated) = {1}
      BY <1>1, <1>2 DEF Rows, ColumnsOf
    <2>2. Canonical(golden.rows[1][1], quantize) = Canonical(generated.rows[1][1], quantize)
      BY <1>1, <2>1
    <2>3. golden.rows[1][1] \in Cells /\ Len(golden.rows[1]) = 1
      <3>1. 1 \in Rows(golden) /\ 1 \in ColumnsOf(golden)
        BY <2>1
      <3>2. golden.rows[1][1] \in Cells /\ Len(golden.rows[1]) = Len(golden.names)
        BY <3>1, CellIs
      <3> QED BY <1>2, <3>2
    <2>4. generated.rows[1][1] \in Cells /\ Len(generated.rows[1]) = 1
      <3>1. 1 \in Rows(generated) /\ 1 \in ColumnsOf(generated)
        BY <2>1
      <3>2. generated.rows[1][1] \in Cells /\ Len(generated.rows[1]) = Len(generated.names)
        BY <3>1, CellIs
      <3> QED BY <1>1, <1>2, <3>2
    <2>5. OfAKind(golden.rows[1][1], generated.rows[1][1])
      BY <2>2, <2>3, <2>4, SameIsOfAKind
    <2> QED BY <2>2, <2>3, <2>4, <2>5 DEF OfAKind
  <1>3. OneNumber(golden) <=> OneNumber(generated)
    BY <1>1, <1>2 DEF OneNumber
  <1>4. OneNumber(golden) => golden.rows[1][1] = generated.rows[1][1]
    <2>1. SUFFICES ASSUME OneNumber(golden) PROVE golden.rows[1][1] = generated.rows[1][1]
      OBVIOUS
    <2>2. ~quantize
      BY <1>3, <2>1
    <2>3. Len(golden.rows) = 1 /\ Len(golden.names) = 1
      BY <2>1 DEF OneNumber
    <2> QED BY <1>2, <2>2, <2>3 DEF Canonical
  <1> QED BY <1>1, <1>3, <1>4 DEF Fits

\* When a result passes, of any two results and
\* any bands, whatever the cells are, as long as a bucket is of a kind.
THEOREM AnyPassIsTheKeys ==
    ASSUME NEW Names, NEW Cells, BucketsAreOfAKind(Cells), NEW bands,
           NEW golden \in Results(Names, Cells), NEW generated \in Results(Names, Cells)
    PROVE  PassesAreTheKeys(golden, generated, bands)
  <1> DEFINE wide == Len(generated.names) > Len(golden.names)
             loose(match) == match = "values"
             same(match, ordered) ==
               {f \in Placings(golden, generated) : SameUnder(golden, generated, f, ordered, loose(match))}
             score(match, ordered) == Judge(golden, generated, match, ordered, [rows |-> None, values |-> None])
  <1>1. ASSUME NEW match \in {"exact", "values"}, NEW ordered \in BOOLEAN, Passes(score(match, ordered))
        PROVE  same(match, ordered) # {} /\ (wide => loose(match))
    BY <1>1, PassIsOfTheKeysRows
  <1>2. ASSUME NEW match \in {"exact", "values"}, NEW ordered \in BOOLEAN,
               golden.rows # <<>>, wide => loose(match),
               NEW f \in same(match, ordered), Findable(golden, generated, f, ordered, loose(match))
        PROVE  Passes(score(match, ordered))
    BY <1>2, TheKeysRowsPass
  <1>3. ASSUME NEW match \in {"exact", "values"}, NEW ordered \in BOOLEAN,
               golden.rows # <<>>, ~wide, NEW f \in same(match, ordered), \A i \in ColumnsOf(golden) : f[i] = i,
               NEW band \in bands
        PROVE  /\ Passes(Judge(golden, generated, "shape", ordered, band))
               /\ Passes(Judge(golden, generated, "nonempty", ordered, band))
               /\ /\ Passes(Judge(golden, golden, "bounded", ordered, band))
                  /\ {golden.rows[1], generated.rows[1]} \in SUBSET {<<c>> : c \in DOMAIN Number} => ~loose(match)
                  => Passes(Judge(golden, generated, "bounded", ordered, band))
    <2>1. ~Ragged(golden) /\ ~Ragged(generated) /\ Len(golden.rows) = Len(generated.rows)
      BY <1>3 DEF SameUnder
    <2>2. InPlace(golden, generated, loose(match))
      BY <1>3, SameIsInPlace
    <2>3. golden.rows \in Seq(Seq(Cells)) /\ generated.rows \in Seq(Seq(Cells))
      BY DEF Results
    <2>4. generated.rows # <<>>
      BY <1>3, <2>1, <2>3
    <2>5. Passes(Judge(golden, generated, "shape", ordered, band))
      BY <1>3, <2>1, <2>2, ShapeIsKept
    <2>6. Passes(Judge(golden, generated, "nonempty", ordered, band))
      BY <2>4 DEF Judge, Right, Scored, Passes
    <2>7. ASSUME Passes(Judge(golden, golden, "bounded", ordered, band)),
                 {golden.rows[1], generated.rows[1]} \in SUBSET {<<c>> : c \in DOMAIN Number} => ~loose(match)
          PROVE  Passes(Judge(golden, generated, "bounded", ordered, band))
      <3>1. Fits(golden, band)
        BY <1>3, <2>7, BoundsAre
      <3>2. ASSUME NEW t \in Results(Names, Cells), OneNumber(t) PROVE t.rows[1] \in {<<c>> : c \in DOMAIN Number}
        <4>1. t.rows[1] \in Seq(Cells) /\ Len(t.rows[1]) = 1 /\ t.rows[1][1] \in DOMAIN Number
          BY <3>2 DEF OneNumber, Results
        <4>2. t.rows[1] = <<t.rows[1][1]>>
          BY <4>1
        <4> QED BY <4>1, <4>2
      <3>3. OneNumber(golden) /\ OneNumber(generated) => ~loose(match)
        BY <2>7, <3>2
      <3>4. Fits(generated, band)
        BY <1>3, <2>1, <2>2, <3>1, <3>3, BandIsKept
      <3> QED BY <2>4, <3>4, BoundsAre
    <2> QED BY <2>5, <2>6, <2>7
  <1> QED BY <1>1, <1>2, <1>3 DEF PassesAreTheKeys

\* The score of any results over cells of which a bucket is of a kind.
THEOREM PassesAreOfTheKeysAnswer == ScoreSpec => []PassIsTheKeysAnswer
  <1> DEFINE Answered ==
               /\ goldenResult \in Goldens
               /\ generatedResult # None => generatedResult \in GeneratedFor(goldenResult)
  <1>1. ScoreInit => Answered
    BY DEF ScoreInit
  <1>2. Answered /\ [ScoreNext]_<<goldenResult, generatedResult>> => Answered'
    BY DEF ScoreNext
  <1>3. ASSUME Answered PROVE PassIsTheKeysAnswer
    <2>1. CASE generatedResult = None
      BY <2>1 DEF PassIsTheKeysAnswer
    <2>2. CASE generatedResult # None
      <3>1. /\ goldenResult \in Results(ColumnNames, DOMAIN RoundsTo)
            /\ generatedResult \in Results(ColumnNames, DOMAIN RoundsTo)
        BY <1>3, <2>2, ResultsAssumption
      <3>2. PassesAreTheKeys(goldenResult, generatedResult, Bands)
        BY <3>1, CellsAssumption, AnyPassIsTheKeys
      <3> QED BY <3>2 DEF PassIsTheKeysAnswer
    <2> QED BY <2>1, <2>2
  <1> QED BY <1>1, <1>2, <1>3, PTL DEF ScoreSpec

=============================================================================
