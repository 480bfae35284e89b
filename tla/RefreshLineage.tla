--------------------------- MODULE RefreshLineage --------------------------
(***************************************************************************)
(* What the refresh-token table promises, whatever the storage mode: a     *)
(* lineage (family) is opened by one login, has one usable token at a      *)
(* time, replaces it only by a fresh one, never brings an old token back,  *)
(* and once closed stays closed.                                           *)
(***************************************************************************)
CONSTANTS Families, Tokens, Unopened, Closed

VARIABLES
    current, \* each lineage's usable token, or Unopened, or Closed
    past     \* every token ever handed out

lineageVars == <<current, past>>

Init == current = [f \in Families |-> Unopened] /\ past = {}

Open(f, t) ==
    /\ t \notin past
    /\ past' = past \cup {t}
    /\ current[f] = Unopened
    /\ current' = [current EXCEPT ![f] = t]

Renew(f, t) ==
    /\ t \notin past
    /\ past' = past \cup {t}
    /\ current[f] \in past
    /\ current' = [current EXCEPT ![f] = t]

\* One statement may close several lineages: all of a principal's at once.
CloseSome ==
    /\ UNCHANGED past
    /\ \E gone \in SUBSET {f \in Families : current[f] \in past} :
         current' = [f \in Families |-> IF f \in gone THEN Closed ELSE current[f]]

Next ==
    \/ \E f \in Families, t \in Tokens : Open(f, t) \/ Renew(f, t)
    \/ CloseSome

Spec == Init /\ [][Next]_lineageVars
=============================================================================
