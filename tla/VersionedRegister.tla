------------------------- MODULE VersionedRegister --------------------------
(***************************************************************************)
(* What the optimistic lock on node edits promises                         *)
(* (handlers_node_write.go:137, nodes.go:158): every node is a register    *)
(* with a version.  Whoever looks at it holds a ticket for the version it  *)
(* showed; a write needs a ticket for the current version, and outdates    *)
(* every ticket there is.                                                  *)
(***************************************************************************)
EXTENDS Naturals

CONSTANTS Keys, Clients, None

VARIABLES register,  \* key -> version, for the keys that exist
          ticket     \* client -> None, or a key and the version seen

vars == <<register, ticket>>

Init ==
  /\ register = << >>
  /\ ticket = [c \in Clients |-> None]

Create(k) ==
  /\ k \notin DOMAIN register
  /\ register' = [x \in DOMAIN register \cup {k} |-> IF x = k THEN 1 ELSE register[x]]
  /\ UNCHANGED ticket

Look(c, k) ==
  /\ k \in DOMAIN register
  /\ ticket' = [ticket EXCEPT ![c] = [key |-> k, version |-> register[k]]]
  /\ UNCHANGED register

Write(c) ==
  /\ ticket[c] # None
  /\ ticket[c].key \in DOMAIN register
  /\ register[ticket[c].key] = ticket[c].version
  /\ register' = [register EXCEPT ![ticket[c].key] = @ + 1]
  /\ UNCHANGED ticket

Next ==
  \/ \E k \in Keys : Create(k)
  \/ \E c \in Clients, k \in Keys : Look(c, k)
  \/ \E c \in Clients : Write(c)

Spec == Init /\ [][Next]_vars

=============================================================================
