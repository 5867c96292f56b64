----------------------------- MODULE MCNodeEdit -----------------------------
(* Small instances of NodeEdit for TLC.                                    *)
EXTENDS NodeEdit, TLC

CONSTANTS n1, n2, n3, n4, c1, c2

Symmetry == Permutations(NodeIds) \cup Permutations(Clients)

=============================================================================
