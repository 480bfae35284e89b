--------------------------- MODULE Conversations ---------------------------
(***************************************************************************)
(* Which conversation a recorded tool call belongs to.  The server decides *)
(* it when it writes the row: it reads the newest row of the caller in the *)
(* organisation and takes over its conversation unless there was a pause   *)
(* (_conversation_id_for).  Calls of one caller run in parallel, on        *)
(* instances whose clocks differ, and nothing locks: each reads, and       *)
(* writes its own row later.  The activity view groups the rows.           *)
(***************************************************************************)
EXTENDS Integers, FiniteSets

CONSTANTS
    NumCalls,        \* calls are numbered as they arrive
    Callers,         \* pairs of a person and an organisation
    Nobody,          \* the actor of a call nobody signed in for
    Threads, NoThread,   \* what clients report, where they do
    Idle,            \* CONVERSATION_IDLE_MINUTES
    Skew,            \* how far an instance's clock may be behind
    MaxClock

Numbers == 1..NumCalls
Earlier == 0         \* a row from before the column existed
Unstamped == -1

VARIABLES
    clock,
    signedIn,   \* callers are known by name; presence auth records no actor
    rows,       \* tool_calls
    call,
    blurred     \* callers whose calls overlapped or were lost, or met a row that orders badly

vars == <<clock, signedIn, rows, call, blurred>>

At(pc) == {c \in Numbers : call[c].pc = pc}
Row(c) == [id |-> c, caller |-> call[c].caller, actor |-> call[c].actor, thread |-> call[c].thread,
           ts |-> call[c].ts, conversation |-> call[c].conversation]

Actor(caller) == IF signedIn THEN caller[1] ELSE Nobody

Init ==
    /\ clock = 0 /\ blurred = {} /\ signedIn \in BOOLEAN
    /\ call = [c \in Numbers |-> [pc |-> "idle"]]
    /\ \/ rows = {}
       \/ \E caller \in Callers, thread \in Threads \cup {NoThread} :
            rows = {[id |-> Earlier, caller |-> caller, actor |-> Actor(caller), thread |-> thread,
                     ts |-> 0, conversation |-> Unstamped]}

Tick == clock < MaxClock /\ clock' = clock + 1 /\ UNCHANGED <<signedIn, rows, call, blurred>>

\* The record is made, with its timestamp (record_tool_call).
Stamp(c) ==
    /\ call[c].pc = "idle" /\ \A d \in 1..c - 1 : call[d].pc # "idle"
    /\ \E caller \in Callers, thread \in Threads, ts \in (clock - Skew)..clock :
           /\ ts >= 0
           /\ call' = [call EXCEPT ![c] = [pc |-> "stamped", caller |-> caller, actor |-> Actor(caller),
                                           thread |-> thread, ts |-> ts]]
           /\ blurred' = IF \/ \E d \in At("stamped") \cup At("placed") : call[d].caller = caller
                            \/ \E r \in rows : /\ r.caller = caller
                                               /\ r.ts > ts \/ (r.ts = ts /\ r.conversation = Unstamped)
                         THEN blurred \cup {caller} ELSE blurred
    /\ UNCHANGED <<clock, signedIn, rows>>

\* A gap that goes backwards is unknown (_minutes_between).
Unknown == -1
MinutesBetween(earlier, later) == IF later < earlier THEN Unknown ELSE later - earlier

\* A bug: whatever the organisation.
NewestAnywhere(c) ==
    LET own == {r \in rows : r.actor = call[c].actor}
    IN  {r \in own : \A s \in own : s.ts <= r.ts}

\* The rows the lookup may return first: the newest of the actor in the
\* organisation, any of them where the timestamps tie.
Newest(c) ==
    LET own == {r \in rows : r.caller[2] = call[c].caller[2] /\ r.actor = call[c].actor}
    IN  {r \in own : \A s \in own : s.ts <= r.ts}

ConversationIdFor(c, previous) ==
    LET gap == MinutesBetween(previous.ts, call[c].ts)
    IN  IF previous.conversation = Unstamped \/ gap = Unknown \/ gap > Idle
        THEN c ELSE previous.conversation

Place(c, conversation) ==
    /\ call[c].pc = "stamped"
    /\ call' = [call EXCEPT ![c] = [pc |-> "placed", caller |-> call[c].caller, actor |-> call[c].actor,
                   thread |-> call[c].thread, ts |-> call[c].ts, conversation |-> conversation]]
    /\ UNCHANGED <<clock, signedIn, rows>>

\* The lookup, on the Store the row is written through: no actor continues
\* nothing, and a read that fails costs the grouping only.
Lookup(c) ==
    /\ call[c].pc = "stamped"
    /\ \/ /\ call[c].actor = Nobody \/ Newest(c) = {}
          /\ Place(c, c) /\ UNCHANGED blurred
       \/ /\ call[c].actor # Nobody
          /\ \E previous \in Newest(c) : Place(c, ConversationIdFor(c, previous))
          /\ UNCHANGED blurred
       \/ /\ call[c].actor # Nobody
          /\ Place(c, c) /\ blurred' = blurred \cup {call[c].caller}

\* The INSERT and its commit, or its failure.
Insert(c) ==
    /\ call[c].pc = "placed"
    /\ \/ rows' = rows \cup {Row(c)} /\ UNCHANGED blurred
       \/ rows' = rows /\ blurred' = blurred \cup {call[c].caller}
    /\ call' = [call EXCEPT ![c] = [pc |-> "done"]]
    /\ UNCHANGED <<clock, signedIn>>

Next == Tick \/ \E c \in Numbers : Stamp(c) \/ Lookup(c) \/ Insert(c)

Spec == Init /\ [][Next]_vars

-----------------------------------------------------------------------------
(* list_sessions                                                           *)

\* A bug: grouped as the model reports it, where it does.
SessionKeyAsReported(r) ==
    IF r.thread # NoThread THEN <<"thread", r.thread>>
    ELSE IF r.conversation # Unstamped THEN <<"conversation", r.conversation>>
    ELSE <<"call", r.id>>

SessionKey(r) ==
    IF r.conversation # Unstamped THEN <<"conversation", r.conversation>>
    ELSE IF r.thread # NoThread THEN <<"thread", r.actor, r.thread>>
    ELSE <<"call", r.id>>

Sessions(org) ==
    LET shown == {r \in rows : r.caller[2] = org}
    IN  {{r \in shown : SessionKey(r) = key} : key \in {SessionKey(r) : r \in shown}}

-----------------------------------------------------------------------------
\* No pause longer than Idle lies between two rows of the set.
NoPauseWithin(set) ==
    \A r \in set : \/ \A s \in set : r.ts <= s.ts
                   \/ \E s \in set : s.ts < r.ts /\ r.ts - s.ts <= Idle

\* A conversation on the activity view is of one person, who signed in, and
\* has no pause in it, however calls of theirs overlap and clocks differ; no
\* two organisations share one; and calls one after another with no pause
\* between them are in one conversation (021_tool_calls_conversation.sql).
ConversationsHold ==
    /\ \A r, s \in rows : r.conversation = s.conversation /\ r # s /\ r.conversation # Unstamped =>
         r.caller = s.caller /\ signedIn
    /\ \A org \in {caller[2] : caller \in Callers} : \A session \in Sessions(org) :
         (\A r \in session : r.conversation # Unstamped) =>
             NoPauseWithin(session) /\ Cardinality({r.caller : r \in session}) = 1
    /\ \A r, s \in rows :
         /\ r.caller = s.caller /\ r.caller \notin blurred /\ signedIn
         /\ Unstamped \notin {r.conversation, s.conversation}
         /\ NoPauseWithin({x \in rows : x.caller = r.caller /\ r.ts <= x.ts /\ x.ts <= s.ts})
         => r.ts > s.ts \/ r.conversation = s.conversation
=============================================================================
