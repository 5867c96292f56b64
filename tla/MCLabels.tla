------------------------------ MODULE MCLabels ------------------------------
(***************************************************************************)
(* A small instance of Labels, and with it of EntryStore, for TLC.         *)
(***************************************************************************)
EXTENDS Labels, TLC

CONSTANTS n1, n2, n3, e1, e2, r1, r2

(* Ids are only compared with each other, so runs may permute them.        *)
Symmetry == Permutations(EntryIds) \cup Permutations(EdgeIds)

(* A goal and an activity that share a source_ref, the event of the latter *)
(* in the future at time 0; and a goal without status, which is refused.   *)
LabelledDrafts ==
  {[type |-> "goal", status |-> "open", ref |-> r1, occurred |-> Null],
   [type |-> "activity", status |-> Null, ref |-> r1, occurred |-> 1],
   [type |-> "goal", status |-> Null, ref |-> Null, occurred |-> Null]}

(* None, one that repeats the type of an activity, and two bad lists.      *)
Requests == {<< >>, <<"activity">>, <<"goal">>, <<"activity", "activity">>}

=============================================================================
