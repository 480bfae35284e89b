------------------------------ MODULE CallLogs ------------------------------
(* A call and what its logs keep of it: the guarded call (GuardedCall), the   *)
(* row any call leaves (ToolCallRow), and the conversations the rows of       *)
(* several calls are put in (Conversations).  They share nothing: `what`      *)
(* says which of them moves.                                                  *)
EXTENDS GuardedCall, Integers

CONSTANTS
    RowRules, RowKinds, Sources,    \* what a row may name: rules, kinds, datasources
    NumCalls, Callers, Nobody, Threads, NoThread, Idle, Skew, MaxClock

ASSUME LogsAssumption ==
    /\ "none" \notin RowRules \cup RowKinds
    /\ NumCalls \in Nat /\ Idle \in Nat /\ Skew \in Nat /\ MaxClock \in Nat
    /\ \A caller \in Callers : caller = <<caller[1], caller[2]>> /\ caller[1] # Nobody

VARIABLES what, clock, signedIn, rows, recorded, blurred

Recording == INSTANCE ToolCallRow WITH Rules <- RowRules, Kinds <- RowKinds
Log == INSTANCE Conversations WITH call <- recorded
logVars == <<clock, signedIn, rows, recorded, blurred>>

CallsInit ==
    \/ Init /\ Log!Init /\ signedIn = TRUE /\ rows = {} /\ what = <<"guarded">>
    \/ /\ site = [hosted |-> TRUE, injected |-> TRUE, guards |-> TRUE]
       /\ store = TRUE /\ disk = TRUE /\ enforced = TRUE
       /\ call = [c \in Calls |-> Fresh]
       /\ Log!Init
       /\ \/ what = <<"conversation">>
          \/ /\ signedIn = TRUE /\ rows = {}
             /\ \/ \E inherited \in Recording!Inheritable, h \in Recording!Handlings :
                      what = <<"row", inherited, h>>
                \/ \E body \in Recording!Outcomes \cup Recording!Replies, raised \in BOOLEAN,
                      stated \in Recording!Statements : what = <<"stated", body, raised, stated>>

CallsNext ==
    \/ what = <<"guarded">> /\ Next /\ UNCHANGED <<what, logVars>>
    \/ what = <<"conversation">> /\ Log!Next /\ UNCHANGED <<what, vars>>

CallsSpec == CallsInit /\ [][CallsNext]_<<what, vars, logVars>>

(* A row tells the outcome of its own call and never contradicts itself       *)
(* (record_tool_call).                                                        *)
RowTellsTheCall ==
    /\ what[1] = "row" => Recording!TransportRowIsTheCalls(what[2], what[3])
    /\ what[1] = "stated" => Recording!NoStatementContradicts(what[2], what[3], what[4])

(* A conversation is one person's, in one organisation, without a pause       *)
(* (_conversation_id_for, list_sessions).                                     *)
ConversationsHold == Log!ConversationsHold
=============================================================================
