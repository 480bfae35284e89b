----------------------------- MODULE MCReadings ------------------------------
(* What is worked out from a model at once, each against a reference: the     *)
(* trap report of a statement (TrapReport, whose steps build the statement),  *)
(* the model a load serves (ServedModel), the score of an answer (Comparator) *)
(* and the reply to a schema call (SchemaReply).  A behavior is about one of  *)
(* them, and the others rest.                                                 *)
EXTENDS MCTrapReport, MCServedModel, MCComparator, MCSchemaReply

VARIABLE reading    \* which of the four a behavior is about

NoStatement ==
    /\ model = CHOOSE m \in Models : TRUE
    /\ bound = [t \in Tables |-> Absent]
    /\ grain = [t \in Tables |-> CHOOSE g \in Grains : TRUE]
    /\ joins = {} /\ elsewhere = {} /\ aggs = {}
NothingLoaded == onDisk = Cross /\ lostItems = {}
NothingScored == goldenResult = None /\ generatedResult = None
NothingAsked == modelServed = Unnamed /\ request = Unnamed

loadVars == <<onDisk, lostItems>>
scoreVars == <<goldenResult, generatedResult>>
askVars == <<modelServed, request>>

ReadInit ==
    \/ reading = "statement" /\ TrapInit /\ NothingLoaded /\ NothingScored /\ NothingAsked
    \/ reading = "load" /\ NoStatement /\ ServedInit /\ NothingScored /\ NothingAsked
    \/ reading = "score" /\ NoStatement /\ NothingLoaded /\ ScoreInit /\ NothingAsked
    \/ reading = "call" /\ NoStatement /\ NothingLoaded /\ NothingScored /\ AskInit

ReadNext ==
    /\ \/ reading = "statement" /\ TrapNext /\ UNCHANGED <<loadVars, scoreVars, askVars>>
       \/ reading = "load" /\ LoseItem /\ UNCHANGED <<trapVars, scoreVars, askVars>>
       \/ reading = "score" /\ ScoreNext /\ UNCHANGED <<trapVars, loadVars, askVars>>
       \/ reading = "call" /\ AskNext /\ UNCHANGED <<trapVars, loadVars, scoreVars>>
    /\ UNCHANGED reading

ReadSpec == ReadInit /\ [][ReadNext]_<<trapVars, loadVars, scoreVars, askVars, reading>>

=============================================================================
