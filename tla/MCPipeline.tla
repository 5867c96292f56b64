----------------------------- MODULE MCPipeline -----------------------------
(***************************************************************************)
(* Small instances of Pipeline for TLC.                                    *)
(***************************************************************************)
EXTENDS Pipeline, TLC

CONSTANTS n1, n2, n3, n4, e1, r1, r2, r3, h1, h2, h3, c1, c2, b1, b2

Symmetry == Permutations(EntryIds) \cup Permutations(ChangeIds) \cup Permutations(Batches)

OneSegment == {[repo |-> "R", ref |-> r1]}

TwoSegments == {[repo |-> "R", ref |-> r1], [repo |-> "R", ref |-> r2]}

(* A commit, its rewrite with another author time and a merge; the clock of*)
(* these runs never shows the time of one.                                 *)
RewrittenCommits ==
  {[sha |-> h1, repo |-> "R", patch |-> "p", author |-> 3],
   [sha |-> h2, repo |-> "R", patch |-> "p", author |-> 2],
   [sha |-> h3, repo |-> "R", patch |-> Null, author |-> 3]}

Rewrite == {k \in RewrittenCommits : k.patch # Null}

(* The activities of the segments, without and with a goal for them.       *)
SegmentDrafts == {Activity(s, k.author) : s \in Segments, k \in Commits}

GoalAndSegmentDrafts ==
  SegmentDrafts \cup
  {[type |-> "goal", status |-> "open", ref |-> r3, occurred |-> Null]}

=============================================================================
