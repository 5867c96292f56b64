--------------------------- MODULE MCOrchestrator ---------------------------
(***************************************************************************)
(* Small instances of Orchestrator for TLC.                                *)
(***************************************************************************)
EXTENDS Orchestrator

CONSTANTS e1, e2, e3, e4, splitter, merger

(* Two similar activities, a goal similar to one of them and an activity   *)
(* without text.                                                           *)
FourEntries == {e1, e2, e3, e4}
ThreeStored == {e1, e2, e3}
TypeOf == [e \in EntryIds |-> IF e = e3 THEN "goal" ELSE "activity"]
OccurredAt == [e \in EntryIds |-> IF e = e1 THEN 2 ELSE 1]
SimilarPairs == {<<e1, e2>>, <<e2, e3>>} \cap (EntryIds \X EntryIds)

(* One caller splits an activity, one merges what it lists, by two filters.*)
KindOf == [r \in Callers |-> IF r = splitter THEN "split" ELSE "aggregate"]
FiltersOf ==
  [r \in Callers |-> IF r = splitter THEN {{e1}} ELSE {{e1, e2, e4}, {e2, e3}}]

Good == [type |-> "activity", valid |-> TRUE]
Bad  == [type |-> "activity", valid |-> FALSE]
SplitAnswers == {<< >>, <<Good, Good>>, <<Good, Bad>>}

=============================================================================
