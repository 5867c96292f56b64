---------------------------- MODULE MCEntryStore ----------------------------
(***************************************************************************)
(* Small instances of EntryStore for TLC.                                  *)
(***************************************************************************)
EXTENDS EntryStore, TLC

CONSTANTS n1, n2, n3, e1, e2, r1, r2

(* Ids are only compared with each other, so runs may permute them.        *)
Symmetry == Permutations(EntryIds) \cup Permutations({e1, e2})

(* Submissions with a source_ref or without, with an event time or without;*)
(* given at time 0, event time 1 lies in the future.                       *)
HistoryDrafts ==
  {[type |-> "goal", status |-> "open", ref |-> r1, occurred |-> Null],
   [type |-> "activity", status |-> Null, ref |-> r2, occurred |-> 1],
   [type |-> "activity", status |-> Null, ref |-> Null, occurred |-> Null],
   [type |-> "activity", status |-> "archived", ref |-> r1, occurred |-> 0]}

(* The same manual content, submitted as often as one likes.               *)
ManualDrafts ==
  {[type |-> "decision", status |-> Null, ref |-> r1, occurred |-> Null]}

=============================================================================
