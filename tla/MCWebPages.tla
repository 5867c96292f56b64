----------------------------- MODULE MCWebPages -----------------------------
(***************************************************************************)
(* A small instance of WebPages for TLC.                                   *)
(***************************************************************************)
EXTENDS WebPages, TLC

CONSTANTS n1, n2, n3, e1, e2

(* Ids are only compared with each other, so runs may permute them.        *)
Symmetry == Permutations(EntryIds) \cup Permutations(EdgeIds)

(* A goal from the web form, and an activity that a batch dates at the     *)
(* instant it writes the first version.                                    *)
PageDrafts ==
  {[type |-> "goal", status |-> "open", ref |-> Null, occurred |-> Null],
   [type |-> "activity", status |-> Null, ref |-> Null, occurred |-> Null]}

=============================================================================
