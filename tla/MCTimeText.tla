----------------------------- MODULE MCTimeText -----------------------------
(***************************************************************************)
(* A small instance of TimeText for TLC.                                   *)
(***************************************************************************)
EXTENDS TimeText, TLC

CONSTANTS n1, n2, e1

(* A goal and an activity.                                                 *)
TextDrafts ==
  {[type |-> "goal", status |-> "open", ref |-> Null, occurred |-> Null],
   [type |-> "activity", status |-> Null, ref |-> Null, occurred |-> 0]}

=============================================================================
