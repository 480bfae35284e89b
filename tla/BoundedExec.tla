---------------------------- MODULE BoundedExec ----------------------------
(***************************************************************************)
(* The two time bounds around one statement, in one process.               *)
(*                                                                         *)
(* _execute_bounded runs executor.execute on a daemon worker thread and    *)
(* waits for it only so long; a worker it stops waiting for keeps a slot   *)
(* of the process-wide count _abandoned_workers until it returns by        *)
(* itself.  Inside the worker the built-in engines arm a watchdog          *)
(* (_deadline), a timer thread that flags the statement as expired and     *)
(* then cancels it on its connection.                                      *)
(*                                                                         *)
(* Three kinds of thread interleave: the caller, its worker, its timer.    *)
(* The sections under _abandoned_lock contain no blocking call and are     *)
(* one step each; _deadline's own lock is held across a cancel that may    *)
(* never return, so holding it is a state of the timer.                    *)
(***************************************************************************)
EXTENDS Naturals, FiniteSets

CONSTANTS
    Calls,        \* the calls that reach the chokepoint, each made once
    Watched,      \* those on a built-in engine with a cancellable connection
    MaxAbandoned, \* _MAX_ABANDONED_WORKERS
    HostThreads   \* threads the host's limiter lends to calls at one time

ASSUME CallsAssumption == IsFiniteSet(Calls) /\ Watched \subseteq Calls
ASSUME BoundsAssumption ==
    MaxAbandoned \in Nat \ {0} /\ HostThreads \in Nat \ {0}

VARIABLES
    abandoned, \* _abandoned_workers
    caller,    \* where each caller's thread stands in _execute_bounded
    worker,    \* where each worker thread stands
    outcome,   \* outcome["result"] or outcome["error"], by what it is
    gaveUp,    \* outcome["abandoned"]
    answer,    \* what _execute_bounded returned or raised
    timer,     \* the watchdog's timer thread
    fired,     \* the Event _deadline yields
    disarmed   \* _deadline's flag

execVars == <<abandoned, caller, worker, outcome, gaveUp, answer,
          timer, fired, disarmed>>

\* What the worker can leave behind.  "limit" is _ResourceLimit raised by an
\* engine whose watchdog fired; "error" is any other exception.
Outcomes == {"result", "error", "limit"}
\* "outer" is _OuterBoundExpired and "saturated" is _ExecutorSaturated.
Answers == Outcomes \cup {"outer", "saturated"}

CallerStates == {"idle", "cleared", "joining", "joined", "answered"}
WorkerStates ==
    {"unstarted", "connecting", "statement", "disarming", "settling", "exited"}
TimerStates == {"off", "armed", "cancelling", "spent"}

ExecInit ==
    /\ abandoned = 0
    /\ caller   = [c \in Calls |-> "idle"]
    /\ worker   = [c \in Calls |-> "unstarted"]
    /\ outcome  = [c \in Calls |-> "none"]
    /\ gaveUp   = [c \in Calls |-> FALSE]
    /\ answer   = [c \in Calls |-> "none"]
    /\ timer    = [c \in Calls |-> "off"]
    /\ fired    = [c \in Calls |-> FALSE]
    /\ disarmed = [c \in Calls |-> FALSE]

\* A call whose caller is between the cap check and its answer.
InFlight == {c \in Calls : caller[c] \in {"cleared", "joining", "joined"}}

-----------------------------------------------------------------------------
(* The caller's thread.                                                    *)

\* Mutant of Enter: the cap compared with the wrong operator.
EnterOffByOne(c) ==
    /\ caller[c] = "idle"
    /\ Cardinality(InFlight) < HostThreads
    /\ abandoned <= MaxAbandoned
    /\ caller' = [caller EXCEPT ![c] = "cleared"]
    /\ UNCHANGED <<abandoned, worker, outcome, gaveUp, answer,
                   timer, fired, disarmed>>

\* The cap check, before any worker is started.  The host has a thread free.
Enter(c) ==
    /\ caller[c] = "idle"
    /\ Cardinality(InFlight) < HostThreads
    /\ IF abandoned >= MaxAbandoned
       THEN /\ caller' = [caller EXCEPT ![c] = "answered"]
            /\ answer' = [answer EXCEPT ![c] = "saturated"]
       ELSE /\ caller' = [caller EXCEPT ![c] = "cleared"]
            /\ UNCHANGED answer
    /\ UNCHANGED <<abandoned, worker, outcome, gaveUp, timer, fired, disarmed>>

StartWorker(c) ==
    /\ caller[c] = "cleared"
    /\ caller' = [caller EXCEPT ![c] = "joining"]
    /\ worker' = [worker EXCEPT ![c] = "connecting"]
    /\ UNCHANGED <<abandoned, outcome, gaveUp, answer, timer, fired, disarmed>>

\* Mutant of JoinReturns: join() called without a timeout.
JoinUnbounded(c) ==
    /\ caller[c] = "joining" /\ worker[c] = "exited"
    /\ caller' = [caller EXCEPT ![c] = "joined"]
    /\ UNCHANGED <<abandoned, worker, outcome, gaveUp, answer,
                   timer, fired, disarmed>>

\* Thread.join returns because the worker exited or because the outer bound
\* elapsed; the code does not ask which.
JoinReturns(c) ==
    /\ caller[c] = "joining"
    /\ caller' = [caller EXCEPT ![c] = "joined"]
    /\ UNCHANGED <<abandoned, worker, outcome, gaveUp, answer,
                   timer, fired, disarmed>>

\* Mutant of CallerSettles: the slot is taken but the worker is not told.
CallerSettlesSilently(c) ==
    /\ caller[c] = "joined"
    /\ caller' = [caller EXCEPT ![c] = "answered"]
    /\ answer' = [answer EXCEPT ![c] =
                    IF worker[c] = "exited" THEN outcome[c] ELSE "outer"]
    /\ abandoned' = IF worker[c] = "exited" THEN abandoned ELSE abandoned + 1
    /\ UNCHANGED <<worker, outcome, gaveUp, timer, fired, disarmed>>

\* Under _abandoned_lock: take the outcome, or give the worker up.
CallerSettles(c) ==
    /\ caller[c] = "joined"
    /\ caller' = [caller EXCEPT ![c] = "answered"]
    /\ IF worker[c] = "exited"
       THEN /\ answer' = [answer EXCEPT ![c] = outcome[c]]
            /\ UNCHANGED <<abandoned, gaveUp>>
       ELSE /\ answer' = [answer EXCEPT ![c] = "outer"]
            /\ gaveUp' = [gaveUp EXCEPT ![c] = TRUE]
            /\ abandoned' = abandoned + 1
    /\ UNCHANGED <<worker, outcome, timer, fired, disarmed>>

-----------------------------------------------------------------------------
(* The worker's thread.                                                    *)

\* Before the statement: a missing driver, a failed connect.
ConnectFails(c) ==
    /\ worker[c] = "connecting"
    /\ worker'  = [worker EXCEPT ![c] = "settling"]
    /\ outcome' = [outcome EXCEPT ![c] = "error"]
    /\ UNCHANGED <<abandoned, caller, gaveUp, answer, timer, fired, disarmed>>

\* The statement starts; on a watched engine inside _deadline's block.
SendStatement(c) ==
    /\ worker[c] = "connecting"
    /\ worker' = [worker EXCEPT ![c] = "statement"]
    /\ timer'  = [timer EXCEPT ![c] = IF c \in Watched THEN "armed" ELSE "off"]
    /\ UNCHANGED <<abandoned, caller, outcome, gaveUp, answer, fired, disarmed>>

\* An executor with no watchdog comes back with whatever it has.
UnwatchedReturns(c) ==
    /\ worker[c] = "statement"
    /\ c \notin Watched
    /\ \E o \in {"result", "error"} : outcome' = [outcome EXCEPT ![c] = o]
    /\ worker' = [worker EXCEPT ![c] = "settling"]
    /\ UNCHANGED <<abandoned, caller, gaveUp, answer, timer, fired, disarmed>>

StatementSucceeds(c) ==
    /\ worker[c] = "statement"
    /\ c \in Watched
    /\ worker'  = [worker EXCEPT ![c] = "disarming"]
    /\ outcome' = [outcome EXCEPT ![c] = "result"]
    /\ UNCHANGED <<abandoned, caller, gaveUp, answer, timer, fired, disarmed>>

\* A driver error is classified by the flag while the watchdog is still armed.
StatementFails(c) ==
    /\ worker[c] = "statement"
    /\ c \in Watched
    /\ worker'  = [worker EXCEPT ![c] = "disarming"]
    /\ outcome' = [outcome EXCEPT ![c] = IF fired[c] THEN "limit" ELSE "error"]
    /\ UNCHANGED <<abandoned, caller, gaveUp, answer, timer, fired, disarmed>>

\* Mutant of Disarm: the Event is not read again after the block.
DisarmWithoutReread(c) ==
    /\ worker[c] = "disarming" /\ timer[c] # "cancelling"
    /\ worker'   = [worker EXCEPT ![c] = "settling"]
    /\ disarmed' = [disarmed EXCEPT ![c] = TRUE]
    /\ UNCHANGED <<abandoned, caller, outcome, gaveUp, answer, timer, fired>>

\* Leaving the block: wait for a cancel in progress, claim the flag, then
\* read the Event once more before a result is allowed out.  The engine gives
\* its connection up in the same stretch.
Disarm(c) ==
    /\ worker[c] = "disarming"
    /\ timer[c] # "cancelling"
    /\ worker'   = [worker EXCEPT ![c] = "settling"]
    /\ disarmed' = [disarmed EXCEPT ![c] = TRUE]
    /\ outcome'  = [outcome EXCEPT ![c] =
                      IF @ = "result" /\ fired[c] THEN "limit" ELSE @]
    /\ UNCHANGED <<abandoned, caller, gaveUp, answer, timer, fired>>

\* Mutant of WorkerSettles: the slot is never given back.
WorkerNeverReleases(c) ==
    /\ worker[c] = "settling"
    /\ worker' = [worker EXCEPT ![c] = "exited"]
    /\ UNCHANGED <<abandoned, caller, outcome, gaveUp, answer,
                   timer, fired, disarmed>>

\* The finally of the worker, under _abandoned_lock.
WorkerSettles(c) ==
    /\ worker[c] = "settling"
    /\ worker' = [worker EXCEPT ![c] = "exited"]
    /\ abandoned' = IF gaveUp[c] THEN abandoned - 1 ELSE abandoned
    /\ UNCHANGED <<caller, outcome, gaveUp, answer, timer, fired, disarmed>>

-----------------------------------------------------------------------------
(* The watchdog's timer thread.                                            *)

\* Mutant of Fire: a fire that lost the race to the disarm cancels all the same.
FireRegardless(c) ==
    /\ timer[c] = "armed"
    /\ timer' = [timer EXCEPT ![c] = "cancelling"]
    /\ fired' = [fired EXCEPT ![c] = TRUE]
    /\ UNCHANGED <<abandoned, caller, worker, outcome, gaveUp, answer, disarmed>>

\* The budget elapsed.  fire takes the lock; a fire that lost the race to the
\* disarm does nothing, one that won flags the statement and starts to cancel.
Fire(c) ==
    /\ timer[c] = "armed"
    /\ IF disarmed[c]
       THEN timer' = [timer EXCEPT ![c] = "spent"] /\ UNCHANGED fired
       ELSE /\ timer' = [timer EXCEPT ![c] = "cancelling"]
            /\ fired' = [fired EXCEPT ![c] = TRUE]
    /\ UNCHANGED <<abandoned, caller, worker, outcome, gaveUp, answer, disarmed>>

\* cancel() returned or raised; a cancel that hangs never takes this step.
CancelReturns(c) ==
    /\ timer[c] = "cancelling"
    /\ timer' = [timer EXCEPT ![c] = "spent"]
    /\ UNCHANGED <<abandoned, caller, worker, outcome, gaveUp, answer,
                   fired, disarmed>>

-----------------------------------------------------------------------------
CallerStep(c) ==
    Enter(c) \/ StartWorker(c) \/ JoinReturns(c) \/ CallerSettles(c)
WorkerStep(c) ==
    \/ ConnectFails(c) \/ SendStatement(c) \/ UnwatchedReturns(c)
    \/ StatementSucceeds(c) \/ StatementFails(c)
    \/ Disarm(c) \/ WorkerSettles(c)
TimerStep(c) == Fire(c) \/ CancelReturns(c)

\* Every call is answered and every thread it started has ended.
Quiescent ==
    /\ \A c \in Calls : /\ caller[c] = "answered"
                        /\ worker[c] \in {"unstarted", "exited"}
                        /\ timer[c] \in {"off", "spent"}
    /\ UNCHANGED execVars

ExecNext ==
    \/ \E c \in Calls : CallerStep(c) \/ WorkerStep(c) \/ TimerStep(c)
    \/ Quiescent

ExecSpec == ExecInit /\ [][ExecNext]_execVars

\* Once a call has entered, its own thread is scheduled and its join times out;
\* nothing is assumed of the executor, of the cancel, or of a call that has
\* not arrived.
CallerFairness ==
    \A c \in Calls : WF_execVars(StartWorker(c) \/ JoinReturns(c) \/ CallerSettles(c))
CallerSpec == ExecSpec /\ CallerFairness

\* Statements and cancels return: true of most databases, not of all.
WorkReturns == \A c \in Calls : WF_execVars(WorkerStep(c)) /\ WF_execVars(CancelReturns(c))

-----------------------------------------------------------------------------
ExecTypeOK ==
    /\ abandoned \in Nat
    /\ caller   \in [Calls -> CallerStates]
    /\ worker   \in [Calls -> WorkerStates]
    /\ outcome  \in [Calls -> Outcomes \cup {"none"}]
    /\ gaveUp   \in [Calls -> BOOLEAN]
    /\ answer   \in [Calls -> Answers \cup {"none"}]
    /\ timer    \in [Calls -> TimerStates]
    /\ fired    \in [Calls -> BOOLEAN]
    /\ disarmed \in [Calls -> BOOLEAN]

\* Workers somebody stopped waiting for and that have not come back.
Abandoned == {c \in Calls : gaveUp[c] /\ worker[c] # "exited"}

\* The counter the cap is enforced with is exactly the number of workers that
\* are given up and still out: neither the race between a join that expires
\* and a worker that finishes, nor any order of the two lock sections, can
\* take a slot twice or leak one (the accounting _execute_bounded's finally
\* block is about).
SlotAccounting == abandoned = Cardinality(Abandoned)

\* What the cap does guarantee.  It is checked on entry and counted at expiry,
\* so callers admitted together may all expire, and the cap itself, which the
\* comment on _MAX_ABANDONED_WORKERS promises, does not hold: the count stays
\* below the cap plus the calls the host can have in flight.
OverrunBound == abandoned + Cardinality(InFlight) < MaxAbandoned + HostThreads

\* The refusal a caller reads says what happened.  "cancelled" only when the
\* watchdog fired; rows only when it did not; "saturated" only for a statement
\* that never started; "abandoned" exactly when a slot was taken for it.
AnswersAreTrue ==
    \A c \in Calls :
        /\ answer[c] = "limit" => fired[c]
        /\ answer[c] = "result" => ~fired[c]
        /\ answer[c] = "saturated" => worker[c] = "unstarted"
        /\ answer[c] = "outer" <=> gaveUp[c]

\* A cancel is only ever under way while its own statement holds the
\* connection: past the block the connection may already be serving another
\* statement, which a late cancel would kill.
NoLateCancel ==
    \A c \in Calls : timer[c] = "cancelling" => worker[c] \in {"statement", "disarming"}

\* No executor escapes the bound: once past the cap check a caller gets an
\* answer even when the executor and the cancel both hang for ever.
EveryCallAnswered ==
    \A c \in Calls : caller[c] = "cleared" ~> caller[c] = "answered"

\* If statements and cancels do return, a saturated process recovers: the
\* slots come back (the finally block of _execute_bounded's worker).
SaturationEnds ==
    WorkReturns => ((abandoned >= MaxAbandoned) ~> (abandoned < MaxAbandoned))
=============================================================================
