-------------------------- MODULE EntryStoreProofs --------------------------
(***************************************************************************)
(* Theorems about EntryStore, for every set of ids, every set of drafts    *)
(* and every clock bound.                                                  *)
(***************************************************************************)
EXTENDS EntryStore, NatLemmas, TLAPS

-----------------------------------------------------------------------------
(* The inductive invariant.                                                *)

(* What is on its way into a table has the shape of a first version, and   *)
(* nothing is stamped later than now.                                      *)
PendingShape ==
  /\ \A n \in DOMAIN inserting :
       /\ inserting[n].logical = n
       /\ inserting[n].version = 1
       /\ inserting[n].current
       /\ inserting[n].next = Null
       /\ inserting[n].ingested <= clock
  /\ \A d \in detaching : edge[d.edge].ingested <= d.at /\ d.at <= clock

(* A logical_id is the id of the first version of its chain.               *)
Roots ==
  \A i \in DOMAIN entry :
    /\ entry[i].ingested <= clock
    /\ entry[i].logical \in DOMAIN entry
    /\ entry[entry[i].logical].logical = entry[i].logical

(* Within a chain the versions are in the order they were written, and     *)
(* only the last can be live.                                              *)
ChainOrder ==
  \A i, j \in DOMAIN entry :
    entry[i].logical = entry[j].logical =>
      /\ entry[i].version = entry[j].version => i = j
      /\ entry[i].version < entry[j].version =>
           ~entry[i].current /\ entry[i].ingested <= entry[j].ingested

(* is_current and superseded_by say the same thing.                        *)
Successors ==
  \A i \in DOMAIN entry :
    /\ entry[i].current <=> entry[i].next = Null
    /\ ~entry[i].current =>
         /\ entry[i].next \in DOMAIN entry
         /\ entry[entry[i].next].logical = entry[i].logical
         /\ entry[entry[i].next].version = entry[i].version + 1

LiveHeads ==
  \A i \in DOMAIN entry :
    \E j \in DOMAIN entry : entry[j].current /\ entry[j].logical = entry[i].logical

(* Two links between the same entities lie one after the other in time.    *)
Before(e, f) == edge[e].detached # Null /\ edge[e].detached <= edge[f].ingested

Links ==
  /\ \A e \in DOMAIN edge :
       /\ \A end \in {edge[e].from, edge[e].to} :
            end \in DOMAIN entry /\ entry[end].logical = end
       /\ edge[e].ingested <= clock
       /\ edge[e].live <=> edge[e].detached = Null
       /\ ~edge[e].live => edge[e].ingested <= edge[e].detached
                           /\ edge[e].detached <= clock
  /\ \A e, f \in DOMAIN edge :
       edge[e].from = edge[f].from /\ edge[e].to = edge[f].to
         => e = f \/ Before(e, f) \/ Before(f, e)

IInv ==
  /\ TypeOK
  /\ FtsMirrorsLive
  /\ PendingShape
  /\ Roots
  /\ ChainOrder
  /\ Successors
  /\ LiveHeads
  /\ Links

-----------------------------------------------------------------------------
(* What a step does to the entries: it inserts one, supersedes one, or     *)
(* leaves them alone.                                                      *)

(* A first version n enters the table and the search index.                *)
Inserted(n) ==
  /\ n \in EntryIds \ DOMAIN entry
  /\ DOMAIN entry' = DOMAIN entry \cup {n}
  /\ \A i \in DOMAIN entry : entry'[i] = entry[i]
  /\ entry' \in [DOMAIN entry' -> Row]
  /\ ValidEntry(entry'[n])
  /\ entry'[n].logical = n
  /\ entry'[n].version = 1
  /\ entry'[n].current
  /\ entry'[n].next = Null
  /\ entry'[n].ingested <= clock
  /\ entry'[n].ingested = clock \/ n \in DOMAIN inserting
  /\ fts' = fts \cup {n}
  /\ clock' = clock

(* The live version old is retired in favour of n.                         *)
Superseded(old, n) ==
  /\ old \in Live
  /\ n \in EntryIds \ DOMAIN entry
  /\ DOMAIN entry' = DOMAIN entry \cup {n}
  /\ \A i \in DOMAIN entry \ {old} : entry'[i] = entry[i]
  /\ entry'[old] = [entry[old] EXCEPT !.current = FALSE, !.next = n]
  /\ entry' \in [DOMAIN entry' -> Row]
  /\ ValidEntry(entry'[n])
  /\ entry'[n].logical = entry[old].logical
  /\ entry'[n].version = entry[old].version + 1
  /\ entry'[n].current
  /\ entry'[n].next = Null
  /\ entry'[n].ingested = clock
  /\ fts' = (fts \ {old}) \cup {n}
  /\ clock' = clock

EntriesKept == entry' = entry /\ fts' = fts /\ clock <= clock'

EntryStep ==
  \/ \E n \in EntryIds : Inserted(n)
  \/ \E old, n \in EntryIds : Superseded(old, n)
  \/ EntriesKept

(* A valid draft becomes a well-formed row.                                *)
LEMMA NewRowFacts ==
  ASSUME TypeOK, NEW n \in EntryIds, NEW d \in Draft, ValidEntry(d)
  PROVE  LET r == NewRow(n, d, clock)
         IN  /\ r \in Row /\ ValidEntry(r)
             /\ r.logical = n /\ r.version = 1 /\ r.current /\ r.next = Null
             /\ r.ingested = clock
BY NullAssumption, TimeAssumption DEF TypeOK, NewRow, Row, Draft, Times, ValidEntry

(* A valid draft turns a live row into a well-formed row of the same       *)
(* chain, one version later.                                               *)
LEMMA ReplacementFacts ==
  ASSUME TypeOK, NEW old \in Live, NEW d \in Draft, ValidEntry(d)
  PROVE  LET r == Replacement(entry[old], d, clock)
         IN  /\ r \in Row /\ ValidEntry(r)
             /\ r.logical = entry[old].logical /\ r.version = entry[old].version + 1
             /\ r.current /\ r.next = Null /\ r.ingested = clock
<1>1. entry[old] \in Row
  BY DEF TypeOK, Live
<1> QED BY <1>1, NullAssumption, TimeAssumption
           DEF TypeOK, Replacement, Row, Draft, Times, ValidEntry

(* supersedeEntryInTxWithExpected supersedes.                              *)
LEMMA SupersedeRowFacts ==
  ASSUME TypeOK, NEW old, NEW expected, NEW n, NEW d \in Draft, ValidEntry(d),
         SupersedeRow(old, expected, n, d), clock' = clock
  PROVE  Superseded(old, n)
<1> DEFINE r == Replacement(entry[old], d, clock)
           flipped == [entry EXCEPT ![old] = Retired(@, n)]
<1>1. old \in Live /\ n \in EntryIds \ DOMAIN entry /\ entry' = Put(flipped, n, r)
      /\ fts' = (fts \ {old}) \cup {n}
  BY DEF SupersedeRow, Target, Taken, Reindex
<1>2. /\ r \in Row /\ ValidEntry(r)
      /\ r.logical = entry[old].logical /\ r.version = entry[old].version + 1
      /\ r.current /\ r.next = Null /\ r.ingested = clock
  BY <1>1, ReplacementFacts
<1>3. /\ DOMAIN entry' = DOMAIN flipped \cup {n}
      /\ entry'[n] = r
      /\ \A x \in DOMAIN flipped \ {n} : entry'[x] = flipped[x]
  <2> HIDE DEF r, flipped
  <2> QED BY <1>1 DEF Put
<1>4. /\ DOMAIN flipped = DOMAIN entry
      /\ flipped[old] = [entry[old] EXCEPT !.current = FALSE, !.next = n]
      /\ \A x \in DOMAIN entry \ {old} : flipped[x] = entry[x]
  BY <1>1 DEF Retired, Live
<1>5. flipped \in [DOMAIN entry -> Row]
  <2>1. entry[old] \in Row /\ entry \in [DOMAIN entry -> Row] /\ old \in DOMAIN entry
    BY <1>1 DEF TypeOK, Live
  <2>2. Retired(entry[old], n) \in Row
    BY <1>1, <2>1 DEF Retired, Row
  <2> QED BY <2>1, <2>2
<1> HIDE DEF r, flipped
<1>6. entry' \in [DOMAIN entry \cup {n} -> Row]
  BY <1>1, <1>2, <1>5 DEF Put
<1> QED BY <1>1, <1>2, <1>3, <1>4, <1>6 DEF Superseded, Live

(* The clock stays in its range.                                           *)
LEMMA ClockStep ==
  ASSUME clock \in Times, [Next]_vars
  PROVE  clock' \in Times
<1>1. CASE Tick
  BY <1>1, TimeAssumption DEF Tick, Times
<1>2. CASE clock' = clock
  BY <1>2
<1>3. ASSUME NEW n \in EntryIds, NEW d \in Drafts, BeginInsert(n, d) \/ MaterializeEntry(n, d)
      PROVE  clock' = clock
  BY <1>3 DEF BeginInsert, MaterializeEntry
<1>4. ASSUME NEW n \in EntryIds, CommitInsert(n) \/ AbortInsert(n)
      PROVE  clock' = clock
  BY <1>4 DEF CommitInsert, AbortInsert
<1>5. ASSUME NEW old, NEW n, NEW d, NEW v, Supersede(old, v, n, d) \/ SetGoalStatus(old, v, n)
      PROVE  clock' = clock
  BY <1>5 DEF Supersede, SetGoalStatus
<1>6. ASSUME NEW a, NEW g, NEW e, AttachToGoal(a, g, e) \/ BeginDetach(e)
             \/ CommitDetach(e) \/ AbortDetach(e)
      PROVE  clock' = clock
  BY <1>6 DEF AttachToGoal, BeginDetach, CommitDetach, AbortDetach
<1>7. CASE UNCHANGED vars
  BY <1>7 DEF vars
<1> QED BY <1>1, <1>2, <1>3, <1>4, <1>5, <1>6, <1>7 DEF Next

(* Every step inserts, supersedes or keeps.                                *)
LEMMA StepKinds ==
  ASSUME TypeOK, PendingShape, [Next]_vars
  PROVE  EntryStep
<1>1. ASSUME NEW n \in EntryIds, NEW d \in Drafts, MaterializeEntry(n, d)
      PROVE  Inserted(n)
  <2>1. d \in Draft /\ ValidEntry(d)
    BY <1>1, DraftAssumption DEF MaterializeEntry, ValidEntry
  <2>2. n \in EntryIds \ DOMAIN entry /\ entry' = Put(entry, n, NewRow(n, d, clock))
        /\ fts' = fts \cup {n} /\ clock' = clock
    BY <1>1 DEF MaterializeEntry, Taken
  <2>3. clock <= clock
    BY TimeAssumption DEF TypeOK, Times
  <2> DEFINE r == NewRow(n, d, clock)
  <2>4. /\ r \in Row /\ ValidEntry(r) /\ r.logical = n /\ r.version = 1
        /\ r.current /\ r.next = Null /\ r.ingested = clock
    BY <2>1, NewRowFacts
  <2> HIDE DEF r
  <2>5. entry'[n] = r /\ entry' \in [DOMAIN entry \cup {n} -> Row]
        /\ \A i \in DOMAIN entry : entry'[i] = entry[i]
    BY <2>2, <2>4 DEF Put, TypeOK, r
  <2> QED BY <2>1, <2>2, <2>3, <2>4, <2>5 DEF Inserted
<1>2. ASSUME NEW n \in EntryIds, CommitInsert(n)
      PROVE  Inserted(n)
  <2>1. n \in DOMAIN inserting /\ n \in EntryIds \ DOMAIN entry
        /\ entry' = Put(entry, n, inserting[n])
        /\ fts' = fts \cup {n} /\ clock' = clock
    BY <1>2 DEF CommitInsert, TypeOK
  <2>2. inserting[n] \in Row /\ ValidEntry(inserting[n])
    BY <2>1 DEF TypeOK
  <2>3. entry'[n] = inserting[n] /\ entry' \in [DOMAIN entry \cup {n} -> Row]
        /\ \A i \in DOMAIN entry : entry'[i] = entry[i]
    BY <2>1, <2>2 DEF Put, TypeOK
  <2> QED BY <2>1, <2>2, <2>3 DEF Inserted, PendingShape
<1>3. ASSUME NEW old \in EntryIds, NEW n \in EntryIds, NEW d \in Drafts, NEW v,
             Supersede(old, v, n, d)
      PROVE  Superseded(old, n)
  <2>1. d \in Draft /\ ValidEntry(d) /\ SupersedeRow(old, v, n, d) /\ clock' = clock
    BY <1>3, DraftAssumption DEF Supersede
  <2> QED BY <2>1, SupersedeRowFacts
<1>4. ASSUME NEW g \in EntryIds, NEW n \in EntryIds, NEW status, SetGoalStatus(g, status, n)
      PROVE  Superseded(g, n)
  <2> DEFINE d == [type |-> "goal", status |-> status,
                   ref |-> entry[g].ref, occurred |-> entry[g].occurred]
  <2>1. g \in Live /\ status \in GoalStatuses /\ SupersedeRow(g, 0, n, d) /\ clock' = clock
    BY <1>4 DEF SetGoalStatus
  <2>2. entry[g] \in Row
    BY <2>1 DEF TypeOK, Live
  <2>3. d \in Draft /\ ValidEntry(d)
    BY <2>1, <2>2 DEF Draft, Row, ValidEntry, Types
  <2> HIDE DEF d
  <2> QED BY <2>1, <2>3, SupersedeRowFacts
<1>5. clock \in Nat
  BY TimeAssumption DEF TypeOK, Times
<1>6. ASSUME NEW n \in EntryIds, NEW d \in Drafts, BeginInsert(n, d) PROVE EntriesKept
  BY <1>5, <1>6 DEF BeginInsert, EntriesKept
<1>7. ASSUME NEW n \in EntryIds, AbortInsert(n) PROVE EntriesKept
  BY <1>5, <1>7 DEF AbortInsert, EntriesKept
<1>8. ASSUME NEW a \in EntryIds, NEW g \in EntryIds, NEW e \in EdgeIds, AttachToGoal(a, g, e)
      PROVE  EntriesKept
  BY <1>5, <1>8 DEF AttachToGoal, EntriesKept
<1>9. ASSUME NEW e \in EdgeIds, BeginDetach(e) PROVE EntriesKept
  BY <1>5, <1>9 DEF BeginDetach, EntriesKept
<1>10. ASSUME NEW d \in detaching, CommitDetach(d) \/ AbortDetach(d) PROVE EntriesKept
  BY <1>5, <1>10 DEF CommitDetach, AbortDetach, EntriesKept
<1>11. CASE Tick
  BY <1>5, <1>11 DEF Tick, EntriesKept, EntryStep
<1>12. CASE UNCHANGED vars
  BY <1>5, <1>12 DEF vars, EntriesKept, EntryStep
<1> QED
  BY <1>1, <1>2, <1>3, <1>4, <1>6, <1>7, <1>8, <1>9, <1>10, <1>11, <1>12
     DEF Next, EntryStep

-----------------------------------------------------------------------------
(* The parts about entries are preserved.                                  *)

(* Every step leaves the entries table and its search index well typed.    *)
LEMMA EntryTables ==
  ASSUME TypeOK, FtsMirrorsLive, EntryStep
  PROVE  /\ DOMAIN entry \subseteq DOMAIN entry'
         /\ DOMAIN entry' \subseteq EntryIds
         /\ entry' \in [DOMAIN entry' -> Row]
         /\ \A i \in DOMAIN entry' : ValidEntry(entry'[i])
         /\ fts' \subseteq EntryIds
         /\ FtsMirrorsLive'
<1>1. CASE EntriesKept
  BY <1>1 DEF EntriesKept, TypeOK, FtsMirrorsLive, Live
<1>2. ASSUME NEW n \in EntryIds, Inserted(n)
      PROVE  /\ \A i \in DOMAIN entry' : ValidEntry(entry'[i])
             /\ FtsMirrorsLive'
  BY <1>2 DEF Inserted, TypeOK, FtsMirrorsLive, Live
<1>3. ASSUME NEW old \in EntryIds, NEW n \in EntryIds, Superseded(old, n)
      PROVE  /\ \A i \in DOMAIN entry' : ValidEntry(entry'[i])
             /\ FtsMirrorsLive'
  <2>1. entry[old] \in Row
    BY <1>3 DEF Superseded, Live, TypeOK
  <2>2. entry'[old].type = entry[old].type /\ entry'[old].status = entry[old].status
        /\ ~entry'[old].current
    BY <1>3, <2>1 DEF Superseded, Row
  <2>3. \A i \in DOMAIN entry' : ValidEntry(entry'[i])
    <3>1. ValidEntry(entry[old]) /\ old \in DOMAIN entry
      BY <1>3 DEF Superseded, Live, TypeOK
    <3>2. ValidEntry(entry'[old])
      BY <2>2, <3>1 DEF ValidEntry
    <3>3. \A i \in DOMAIN entry \ {old} : ValidEntry(entry'[i])
      BY <1>3 DEF Superseded, TypeOK
    <3> QED BY <1>3, <3>2, <3>3 DEF Superseded
  <2>4. FtsMirrorsLive'
    BY <1>3, <2>2 DEF Superseded, FtsMirrorsLive, Live
  <2> QED BY <2>3, <2>4
<1>4. ASSUME NEW n \in EntryIds, NEW old \in EntryIds, Inserted(n) \/ Superseded(old, n)
      PROVE  /\ DOMAIN entry \subseteq DOMAIN entry'
             /\ DOMAIN entry' \subseteq EntryIds
             /\ entry' \in [DOMAIN entry' -> Row]
             /\ fts' \subseteq EntryIds
  BY <1>4 DEF Inserted, Superseded, TypeOK
<1> QED BY <1>1, <1>2, <1>3, <1>4 DEF EntryStep

(* Roots, order, successors and live heads survive whatever a step does to *)
(* the entries table.                                                      *)
LEMMA ChainsPreserved ==
  ASSUME TypeOK, TypeOK', Roots, ChainOrder, Successors, LiveHeads, EntryStep
  PROVE  Roots' /\ ChainOrder' /\ Successors' /\ LiveHeads'
<1>0. /\ \A i \in DOMAIN entry : entry[i] \in Row
      /\ \A i \in DOMAIN entry' : entry'[i] \in Row
      /\ clock \in Nat /\ clock' \in Nat
      /\ DOMAIN entry \subseteq EntryIds
  BY TimeAssumption DEF TypeOK, Times
<1>1. CASE EntriesKept
  <2>1. entry' = entry /\ clock <= clock'
    BY <1>1 DEF EntriesKept
  <2>2. Roots'
    BY <1>0, <2>1 DEF Roots, Row
  <2>3. ChainOrder' /\ Successors' /\ LiveHeads'
    BY <2>1 DEF ChainOrder, Successors, LiveHeads
  <2> QED BY <2>2, <2>3
<1>2. ASSUME NEW n \in EntryIds, Inserted(n)
      PROVE  Roots' /\ ChainOrder' /\ Successors' /\ LiveHeads'
  <2>1. /\ n \notin DOMAIN entry /\ DOMAIN entry' = DOMAIN entry \cup {n}
        /\ \A i \in DOMAIN entry : entry'[i] = entry[i]
        /\ entry'[n].logical = n /\ entry'[n].current /\ entry'[n].next = Null
        /\ entry'[n].ingested <= clock /\ clock' = clock
    BY <1>2 DEF Inserted
  <2>2. \A i \in DOMAIN entry : entry[i].logical # n
    BY <2>1 DEF Roots
  <2>3. Roots'
    BY <2>1 DEF Roots
  <2>4. ChainOrder'
    BY <1>0, <2>1, <2>2 DEF ChainOrder, Row
  <2>5. Successors'
    BY <2>1 DEF Successors
  <2>6. LiveHeads'
    BY <2>1 DEF LiveHeads
  <2> QED BY <2>3, <2>4, <2>5, <2>6
<1>3. ASSUME NEW old \in EntryIds, NEW n \in EntryIds, Superseded(old, n)
      PROVE  Roots' /\ ChainOrder' /\ Successors' /\ LiveHeads'
  <2>1. /\ old \in DOMAIN entry /\ entry[old].current
        /\ n \notin DOMAIN entry /\ DOMAIN entry' = DOMAIN entry \cup {n}
        /\ \A i \in DOMAIN entry \ {old} : entry'[i] = entry[i]
        /\ entry'[n].logical = entry[old].logical
        /\ entry'[n].version = entry[old].version + 1
        /\ entry'[n].current /\ entry'[n].next = Null
        /\ entry'[n].ingested = clock /\ clock' = clock
    BY <1>3 DEF Superseded, Live
  <2>2. /\ entry'[old].logical = entry[old].logical
        /\ entry'[old].version = entry[old].version
        /\ entry'[old].ingested = entry[old].ingested
        /\ ~entry'[old].current /\ entry'[old].next = n
    BY <1>0, <1>3, <2>1 DEF Superseded, Row
  <2>3. Roots'
    BY <1>0, <2>1, <2>2 DEF Roots, Row
  <2>4. \A i \in DOMAIN entry :
          /\ entry'[i].logical = entry[i].logical
          /\ entry'[i].version = entry[i].version
          /\ entry'[i].ingested = entry[i].ingested
          /\ ~entry[i].current => ~entry'[i].current
    BY <2>1, <2>2
  <2>5. \A i \in DOMAIN entry \ {old} : entry[i].logical = entry[old].logical =>
          entry[i].version < entry[old].version /\ ~entry[i].current
    BY <1>0, <2>1 DEF ChainOrder, Row
  <2>6. ChainOrder'
    <3> SUFFICES ASSUME NEW i \in DOMAIN entry', NEW j \in DOMAIN entry',
                        entry'[i].logical = entry'[j].logical
                 PROVE  /\ entry'[i].version = entry'[j].version => i = j
                        /\ entry'[i].version < entry'[j].version =>
                             ~entry'[i].current /\ entry'[i].ingested <= entry'[j].ingested
      BY DEF ChainOrder
    <3>1. CASE i \in DOMAIN entry /\ j \in DOMAIN entry
      BY <2>4, <3>1 DEF ChainOrder
    <3>2. CASE i \in DOMAIN entry /\ j = n
      <4>1. entry[i].version <= entry[old].version /\ ~entry'[i].current
        BY <1>0, <2>1, <2>2, <2>4, <2>5, <3>2 DEF Row
      <4>2. entry'[i].ingested <= entry'[n].ingested
        BY <2>1, <2>4, <3>2 DEF Roots
      <4> QED BY <1>0, <2>1, <2>4, <3>2, <4>1, <4>2 DEF Row
    <3>3. CASE i = n /\ j \in DOMAIN entry
      <4>1. entry[j].version <= entry[old].version
        BY <1>0, <2>1, <2>4, <2>5, <3>3 DEF Row
      <4> QED BY <1>0, <2>1, <2>4, <3>3, <4>1 DEF Row
    <3>4. CASE i = n /\ j = n
      BY <1>0, <2>1, <3>4 DEF Row
    <3> QED BY <2>1, <3>1, <3>2, <3>3, <3>4
  <2>7. Successors'
    <3> SUFFICES ASSUME NEW i \in DOMAIN entry'
                 PROVE  /\ entry'[i].current <=> entry'[i].next = Null
                        /\ ~entry'[i].current =>
                             /\ entry'[i].next \in DOMAIN entry'
                             /\ entry'[entry'[i].next].logical = entry'[i].logical
                             /\ entry'[entry'[i].next].version = entry'[i].version + 1
      BY DEF Successors
    <3>1. CASE i = n
      BY <2>1, <3>1
    <3>2. CASE i = old
      BY <2>1, <2>2, <3>2, NullAssumption
    <3>3. CASE i \in DOMAIN entry \ {old}
      BY <2>1, <2>4, <3>3 DEF Successors
    <3> QED BY <2>1, <3>1, <3>2, <3>3
  <2>8. LiveHeads'
    BY <2>1, <2>2, <2>4 DEF LiveHeads
  <2> QED BY <2>3, <2>6, <2>7, <2>8
<1> QED BY <1>1, <1>2, <1>3 DEF EntryStep

(* Nothing a step does changes the chain of a row that is there.           *)
LEMMA LogicalKept ==
  ASSUME TypeOK, EntryStep
  PROVE  /\ \A i \in DOMAIN entry :
              i \in DOMAIN entry' /\ entry'[i].logical = entry[i].logical
         /\ clock <= clock'
<1>1. CASE EntriesKept
  BY <1>1 DEF EntriesKept
<1>2. clock \in Nat
  BY TimeAssumption DEF TypeOK, Times
<1>3. ASSUME NEW n \in EntryIds, Inserted(n)
      PROVE  /\ \A i \in DOMAIN entry :
                  i \in DOMAIN entry' /\ entry'[i].logical = entry[i].logical
             /\ clock <= clock'
  BY <1>2, <1>3 DEF Inserted
<1>4. ASSUME NEW old \in EntryIds, NEW n \in EntryIds, Superseded(old, n)
      PROVE  /\ \A i \in DOMAIN entry :
                  i \in DOMAIN entry' /\ entry'[i].logical = entry[i].logical
             /\ clock <= clock'
  <2>1. entry[old] \in Row
    BY <1>4 DEF Superseded, Live, TypeOK
  <2>2. entry'[old].logical = entry[old].logical
    BY <1>4, <2>1 DEF Superseded, Row
  <2>3. \A i \in DOMAIN entry \ {old} : entry'[i] = entry[i]
    BY <1>4 DEF Superseded
  <2>4. DOMAIN entry \subseteq DOMAIN entry' /\ clock' = clock
    BY <1>4 DEF Superseded
  <2> QED BY <1>2, <2>2, <2>3, <2>4
<1> QED BY <1>1, <1>3, <1>4 DEF EntryStep

-----------------------------------------------------------------------------
(* What a step does to the links: it creates one between two live chains,  *)
(* retires one, or leaves them alone.                                      *)

Linked(e) ==
  /\ e \in EdgeIds \ DOMAIN edge
  /\ DOMAIN edge' = DOMAIN edge \cup {e}
  /\ \A f \in DOMAIN edge : edge'[f] = edge[f]
  /\ edge' \in [DOMAIN edge' -> Link]
  /\ \E a, g \in DOMAIN entry :
       /\ edge'[e].from = entry[a].logical /\ edge'[e].to = entry[g].logical
       /\ LiveLinks(entry[a].logical, entry[g].logical) = {}
  /\ edge'[e].ingested = clock /\ edge'[e].live /\ edge'[e].detached = Null
  /\ detaching' = detaching /\ clock' = clock

Unlinked(d) ==
  /\ d \in detaching
  /\ edge[d.edge].live
  /\ edge' = [edge EXCEPT ![d.edge].live = FALSE, ![d.edge].detached = d.at]
  /\ detaching' = detaching \ {d} /\ clock' = clock

LinksKept ==
  /\ edge' = edge
  /\ \A d \in detaching' \ detaching :
       d.edge \in DOMAIN edge /\ d.at = clock
  /\ detaching' \subseteq [edge : DOMAIN edge, at : Times]

LinkStep ==
  \/ \E e \in EdgeIds : Linked(e)
  \/ \E d \in detaching : Unlinked(d)
  \/ LinksKept

(* Every step links, unlinks or keeps the edges.                           *)
LEMMA LinkStepKinds ==
  ASSUME TypeOK, [Next]_vars
  PROVE  LinkStep
<1> USE DEF LinkStep
<1>1. ASSUME NEW a \in EntryIds, NEW g \in EntryIds, NEW e \in EdgeIds,
             AttachToGoal(a, g, e)
      PROVE  Linked(e) \/ LinksKept
  <2>1. CASE edge' = edge
    BY <1>1, <2>1 DEF AttachToGoal, LinksKept, TypeOK
  <2>2. CASE edge' # edge
    <3> DEFINE r == [from |-> entry[a].logical, to |-> entry[g].logical,
                     ingested |-> clock, live |-> TRUE, detached |-> Null]
    <3>1. /\ a \in DOMAIN entry /\ g \in DOMAIN entry
          /\ e \in EdgeIds \ DOMAIN edge
          /\ LiveLinks(entry[a].logical, entry[g].logical) = {}
          /\ edge' = Put(edge, e, r)
          /\ detaching' = detaching /\ clock' = clock
      BY <1>1, <2>2 DEF AttachToGoal, Live
    <3>2. entry[a] \in Row /\ entry[g] \in Row /\ clock \in Nat
      BY <3>1, TimeAssumption DEF TypeOK, Times
    <3>3. r \in Link
      BY <3>2 DEF Link, Row
    <3>4. r.from = entry[a].logical /\ r.to = entry[g].logical /\ r.ingested = clock
          /\ r.live /\ r.detached = Null
      OBVIOUS
    <3> HIDE DEF r
    <3>5. /\ edge' \in [DOMAIN edge \cup {e} -> Link]
          /\ edge'[e] = r
          /\ \A f \in DOMAIN edge : edge'[f] = edge[f]
      BY <3>1, <3>3 DEF Put, TypeOK
    <3> QED BY <3>1, <3>4, <3>5 DEF Linked
  <2> QED BY <2>1, <2>2
<1>2. ASSUME NEW d \in detaching, CommitDetach(d) \/ AbortDetach(d)
      PROVE  Unlinked(d) \/ LinksKept
  BY <1>2 DEF CommitDetach, AbortDetach, Unlinked, LinksKept, TypeOK
<1>3. ASSUME NEW e \in EdgeIds, BeginDetach(e) PROVE LinksKept
  BY <1>3 DEF BeginDetach, LinksKept, TypeOK
<1>4. ASSUME edge' = edge, detaching' = detaching PROVE LinksKept
  BY <1>4 DEF LinksKept, TypeOK
<1>5. ASSUME NEW n \in EntryIds, NEW d \in Drafts, BeginInsert(n, d) \/ MaterializeEntry(n, d)
      PROVE  LinksKept
  BY <1>4, <1>5 DEF BeginInsert, MaterializeEntry
<1>6. ASSUME NEW n \in EntryIds, CommitInsert(n) \/ AbortInsert(n) PROVE LinksKept
  BY <1>4, <1>6 DEF CommitInsert, AbortInsert
<1>7. ASSUME NEW old \in EntryIds, NEW n \in EntryIds, NEW d \in Drafts, NEW v,
             Supersede(old, v, n, d)
      PROVE  LinksKept
  BY <1>4, <1>7 DEF Supersede
<1>8. ASSUME NEW g \in EntryIds, NEW n \in EntryIds, NEW s, SetGoalStatus(g, s, n)
      PROVE  LinksKept
  BY <1>4, <1>8 DEF SetGoalStatus
<1>9. CASE Tick
  BY <1>4, <1>9 DEF Tick
<1>10. CASE UNCHANGED vars
  BY <1>4, <1>10 DEF vars
<1> QED
  BY <1>1, <1>2, <1>3, <1>5, <1>6, <1>7, <1>8, <1>9, <1>10 DEF Next

(* Every step leaves the edges table well typed.                           *)
LEMMA EdgeTables ==
  ASSUME TypeOK, LinkStep
  PROVE  /\ DOMAIN edge \subseteq DOMAIN edge'
         /\ DOMAIN edge' \subseteq EdgeIds
         /\ edge' \in [DOMAIN edge' -> Link]
         /\ detaching' \subseteq [edge : DOMAIN edge', at : Times]
         /\ \A e \in DOMAIN edge : /\ edge'[e].from = edge[e].from
                                   /\ edge'[e].to = edge[e].to
                                   /\ edge'[e].ingested = edge[e].ingested
<1>1. CASE LinksKept
  BY <1>1 DEF LinksKept, TypeOK
<1>2. ASSUME NEW e \in EdgeIds, Linked(e)
      PROVE  /\ DOMAIN edge \subseteq DOMAIN edge'
             /\ DOMAIN edge' \subseteq EdgeIds
             /\ edge' \in [DOMAIN edge' -> Link]
             /\ detaching' \subseteq [edge : DOMAIN edge', at : Times]
             /\ \A f \in DOMAIN edge : edge'[f] = edge[f]
  BY <1>2 DEF Linked, TypeOK
<1>3. ASSUME NEW d \in detaching, Unlinked(d)
      PROVE  /\ DOMAIN edge' = DOMAIN edge
             /\ DOMAIN edge' \subseteq EdgeIds
             /\ edge' \in [DOMAIN edge' -> Link]
             /\ detaching' \subseteq [edge : DOMAIN edge', at : Times]
             /\ \A e \in DOMAIN edge : /\ edge'[e].from = edge[e].from
                                       /\ edge'[e].to = edge[e].to
                                       /\ edge'[e].ingested = edge[e].ingested
  <2>1. d.edge \in DOMAIN edge /\ d.at \in Nat /\ edge[d.edge] \in Link
        /\ edge \in [DOMAIN edge -> Link] /\ DOMAIN edge \subseteq EdgeIds
    BY <1>3, TimeAssumption DEF TypeOK, Times
  <2>2. /\ edge' = [edge EXCEPT ![d.edge] = [@ EXCEPT !.live = FALSE, !.detached = d.at]]
    BY <1>3 DEF Unlinked
  <2>3. [edge[d.edge] EXCEPT !.live = FALSE, !.detached = d.at] \in Link
    BY <2>1 DEF Link
  <2>4. edge' \in [DOMAIN edge -> Link]
    BY <2>1, <2>2, <2>3
  <2>5. \A e \in DOMAIN edge : /\ edge'[e].from = edge[e].from
                               /\ edge'[e].to = edge[e].to
                               /\ edge'[e].ingested = edge[e].ingested
    BY <2>1, <2>2 DEF Link
  <2>6. detaching' \subseteq [edge : DOMAIN edge, at : Times]
    BY <1>3 DEF Unlinked, TypeOK
  <2> QED BY <2>1, <2>4, <2>5, <2>6
<1> QED BY <1>1, <1>2, <1>3 DEF LinkStep

(* Every step keeps the ends of edges on roots and two links of the same   *)
(* ends apart in time.                                                     *)
LEMMA LinksPreserved ==
  ASSUME TypeOK, TypeOK', PendingShape, Roots, Links, EntryStep, LinkStep
  PROVE  Links'
<1>0. /\ clock \in Nat /\ clock' \in Nat /\ clock <= clock'
      /\ \A e \in DOMAIN edge : edge[e] \in Link
      /\ \A e \in DOMAIN edge' : edge'[e] \in Link
  BY LogicalKept, TimeAssumption DEF TypeOK, Times
<1>1. \A i \in DOMAIN entry : i \in DOMAIN entry' /\ entry'[i].logical = entry[i].logical
  BY LogicalKept
<1>2. CASE LinksKept
  <2>1. edge' = edge
    BY <1>2 DEF LinksKept
  <2>2. \A e \in DOMAIN edge : \A end \in {edge[e].from, edge[e].to} :
          end \in DOMAIN entry' /\ entry'[end].logical = end
    BY <1>1 DEF Links
  <2>3. \A e \in DOMAIN edge :
          /\ edge[e].ingested <= clock'
          /\ ~edge[e].live => edge[e].detached <= clock'
    BY <1>0 DEF Links, Link
  <2> QED BY <2>1, <2>2, <2>3 DEF Links, Before
<1>3. ASSUME NEW e \in EdgeIds, Linked(e)
      PROVE  Links'
  <2>1. /\ e \notin DOMAIN edge /\ DOMAIN edge' = DOMAIN edge \cup {e}
        /\ \A f \in DOMAIN edge : edge'[f] = edge[f]
        /\ edge'[e].ingested = clock /\ edge'[e].live /\ edge'[e].detached = Null
        /\ clock' = clock
    BY <1>3 DEF Linked
  <2>2. PICK a \in DOMAIN entry, g \in DOMAIN entry :
          /\ edge'[e].from = entry[a].logical /\ edge'[e].to = entry[g].logical
          /\ LiveLinks(entry[a].logical, entry[g].logical) = {}
    BY <1>3 DEF Linked
  <2>3. \A f \in DOMAIN edge' : \A end \in {edge'[f].from, edge'[f].to} :
          end \in DOMAIN entry' /\ entry'[end].logical = end
    <3>1. \A end \in {edge'[e].from, edge'[e].to} :
            end \in DOMAIN entry /\ entry[end].logical = end
      BY <2>2 DEF Roots
    <3>2. \A f \in DOMAIN edge : \A end \in {edge[f].from, edge[f].to} :
            end \in DOMAIN entry /\ entry[end].logical = end
      BY DEF Links
    <3>3. \A f \in DOMAIN edge' : \A end \in {edge'[f].from, edge'[f].to} :
            end \in DOMAIN entry /\ entry[end].logical = end
      BY <2>1, <3>1, <3>2
    <3> QED BY <1>1, <3>3
  <2>4. \A f \in DOMAIN edge' :
          /\ edge'[f].ingested <= clock'
          /\ edge'[f].live <=> edge'[f].detached = Null
          /\ ~edge'[f].live => edge'[f].ingested <= edge'[f].detached
                               /\ edge'[f].detached <= clock'
    BY <1>0, <2>1 DEF Links
  <2>5. \A f \in DOMAIN edge :
          edge[f].from = edge'[e].from /\ edge[f].to = edge'[e].to
            => edge[f].detached # Null /\ edge[f].detached <= clock
    BY <2>2 DEF LiveLinks, Links
  <2>6. \A f, h \in DOMAIN edge' :
          edge'[f].from = edge'[h].from /\ edge'[f].to = edge'[h].to
            => f = h \/ Before(f, h)' \/ Before(h, f)'
    BY <2>1, <2>5 DEF Links, Before
  <2> QED BY <2>3, <2>4, <2>6 DEF Links
<1>4. ASSUME NEW d \in detaching, Unlinked(d)
      PROVE  Links'
  <2>1. /\ d.edge \in DOMAIN edge /\ d.at \in Nat /\ d.at <= clock
        /\ edge[d.edge].ingested <= d.at /\ edge[d.edge].live
        /\ clock' = clock
    BY <1>4, TimeAssumption DEF Unlinked, PendingShape, TypeOK, Times
  <2>2. /\ DOMAIN edge' = DOMAIN edge
        /\ \A f \in DOMAIN edge \ {d.edge} : edge'[f] = edge[f]
        /\ ~edge'[d.edge].live /\ edge'[d.edge].detached = d.at
        /\ \A f \in DOMAIN edge : /\ edge'[f].from = edge[f].from
                                  /\ edge'[f].to = edge[f].to
                                  /\ edge'[f].ingested = edge[f].ingested
    BY <1>0, <1>4, <2>1 DEF Unlinked, Link
  <2>3. \A f \in DOMAIN edge' : \A end \in {edge'[f].from, edge'[f].to} :
          end \in DOMAIN entry' /\ entry'[end].logical = end
    BY <1>1, <2>2 DEF Links
  <2>4. \A f \in DOMAIN edge' :
          /\ edge'[f].ingested <= clock'
          /\ edge'[f].live <=> edge'[f].detached = Null
          /\ ~edge'[f].live => edge'[f].ingested <= edge'[f].detached
                               /\ edge'[f].detached <= clock'
    BY <2>1, <2>2, NullAssumption DEF Links
  <2>5. edge[d.edge].detached = Null
    BY <2>1 DEF Links
  <2>6. \A f, h \in DOMAIN edge : Before(f, h) => Before(f, h)'
    BY <2>2, <2>5 DEF Before
  <2>7. \A f, h \in DOMAIN edge' :
          edge'[f].from = edge'[h].from /\ edge'[f].to = edge'[h].to
            => f = h \/ Before(f, h)' \/ Before(h, f)'
    BY <2>2, <2>6 DEF Links
  <2> QED BY <2>3, <2>4, <2>7 DEF Links
<1> QED BY <1>2, <1>3, <1>4 DEF LinkStep

-----------------------------------------------------------------------------
(* In-flight inserts: one begins, one ends, or they stay.                  *)

Pending(n) ==
  /\ inserting[n].logical = n
  /\ inserting[n].version = 1
  /\ inserting[n].current
  /\ inserting[n].next = Null
  /\ inserting[n].ingested <= clock

InsertsTyped ==
  /\ DOMAIN inserting \subseteq EntryIds \ DOMAIN entry
  /\ inserting \in [DOMAIN inserting -> Row]
  /\ \A n \in DOMAIN inserting : ValidEntry(inserting[n]) /\ Pending(n)

(* Every step keeps the calls of InsertEntry under way well formed and     *)
(* their ids unused.                                                       *)
LEMMA InsertsPreserved ==
  ASSUME TypeOK, PendingShape, EntryStep, [Next]_vars
  PROVE  InsertsTyped'
<1>0. InsertsTyped
  BY DEF TypeOK, PendingShape, InsertsTyped, Pending
<1>1. clock \in Nat /\ clock' \in Nat /\ clock <= clock'
      /\ \A n \in DOMAIN inserting : inserting[n].ingested \in Nat
  <2>1. clock' \in Nat
    BY ClockStep, TimeAssumption DEF Times, TypeOK
  <2> QED BY <2>1, LogicalKept, TimeAssumption DEF TypeOK, Times, Row
<1>2. ASSUME NEW n \in EntryIds, NEW d \in Drafts, BeginInsert(n, d)
      PROVE  InsertsTyped'
  <2> DEFINE r == NewRow(n, d, clock)
  <2>1. /\ n \in EntryIds /\ n \notin DOMAIN entry /\ n \notin DOMAIN inserting
        /\ inserting' = Put(inserting, n, r)
        /\ entry' = entry /\ clock' = clock
    BY <1>2 DEF BeginInsert, Taken
  <2>2. /\ r \in Row /\ ValidEntry(r) /\ r.logical = n /\ r.version = 1
        /\ r.current /\ r.next = Null /\ r.ingested = clock
    BY <1>2, DraftAssumption, NewRowFacts DEF BeginInsert
  <2> HIDE DEF r
  <2>3. /\ inserting' \in [DOMAIN inserting \cup {n} -> Row]
        /\ inserting'[n] = r
        /\ \A m \in DOMAIN inserting : inserting'[m] = inserting[m]
    BY <2>1, <2>2 DEF Put, TypeOK
  <2> QED BY <1>0, <1>1, <2>1, <2>2, <2>3 DEF InsertsTyped, Pending
<1>3. ASSUME NEW n \in EntryIds, CommitInsert(n)
      PROVE  InsertsTyped'
  <2>1. /\ DOMAIN inserting' = DOMAIN inserting \ {n}
        /\ inserting' \in [DOMAIN inserting \ {n} -> Row]
        /\ \A m \in DOMAIN inserting' : inserting'[m] = inserting[m]
    BY <1>0, <1>3 DEF CommitInsert, InsertsTyped, Restrict
  <2>2. DOMAIN entry' = DOMAIN entry \cup {n} /\ clock' = clock
    BY <1>3 DEF CommitInsert, Put
  <2> QED BY <1>0, <2>1, <2>2 DEF InsertsTyped, Pending
<1>4. ASSUME NEW n \in EntryIds, AbortInsert(n)
      PROVE  InsertsTyped'
  <2>1. /\ DOMAIN inserting' = DOMAIN inserting \ {n}
        /\ inserting' \in [DOMAIN inserting \ {n} -> Row]
        /\ \A m \in DOMAIN inserting' : inserting'[m] = inserting[m]
    BY <1>0, <1>4 DEF AbortInsert, InsertsTyped, Restrict
  <2>2. entry' = entry /\ clock' = clock
    BY <1>4 DEF AbortInsert
  <2> QED BY <1>0, <2>1, <2>2 DEF InsertsTyped, Pending
<1>5. ASSUME inserting' = inserting, \A n \in DOMAIN inserting : n \notin DOMAIN entry'
      PROVE  InsertsTyped'
  BY <1>0, <1>1, <1>5 DEF InsertsTyped, Pending
<1>6. ASSUME NEW n \in EntryIds, NEW d \in Drafts, MaterializeEntry(n, d)
      PROVE  InsertsTyped'
  BY <1>5, <1>6, <1>0 DEF MaterializeEntry, Taken, Put, InsertsTyped
<1>7. ASSUME NEW old, NEW expected, NEW n, NEW d, SupersedeRow(old, expected, n, d),
             inserting' = inserting
      PROVE  InsertsTyped'
  BY <1>5, <1>7, <1>0 DEF SupersedeRow, Taken, Put, InsertsTyped
<1>8. ASSUME NEW old \in EntryIds, NEW n \in EntryIds, NEW d \in Drafts, NEW v,
             Supersede(old, v, n, d)
      PROVE  InsertsTyped'
  BY <1>7, <1>8 DEF Supersede
<1>9. ASSUME NEW g \in EntryIds, NEW n \in EntryIds, NEW s, SetGoalStatus(g, s, n)
      PROVE  InsertsTyped'
  BY <1>7, <1>9 DEF SetGoalStatus
<1>10. ASSUME inserting' = inserting, entry' = entry
       PROVE  InsertsTyped'
  BY <1>0, <1>5, <1>10 DEF InsertsTyped
<1>11. ASSUME NEW a \in EntryIds, NEW g \in EntryIds, NEW e \in EdgeIds,
              AttachToGoal(a, g, e) \/ BeginDetach(e)
       PROVE  InsertsTyped'
  BY <1>10, <1>11 DEF AttachToGoal, BeginDetach
<1>12. ASSUME NEW d \in detaching, CommitDetach(d) \/ AbortDetach(d)
       PROVE  InsertsTyped'
  BY <1>10, <1>12 DEF CommitDetach, AbortDetach
<1>13. CASE Tick \/ UNCHANGED vars
  BY <1>10, <1>13 DEF Tick, vars
<1>14. ASSUME NEW e \in EdgeIds, BeginDetach(e)
       PROVE  InsertsTyped'
  BY <1>10, <1>14 DEF BeginDetach
<1> QED
  BY <1>2, <1>3, <1>4, <1>6, <1>8, <1>9, <1>11, <1>12, <1>13, <1>14 DEF Next

(* Every step keeps the calls of DetachFromGoal under way well formed.     *)
LEMMA DetachesPreserved ==
  ASSUME TypeOK, TypeOK', PendingShape, Links, EntryStep, LinkStep
  PROVE  \A d \in detaching' : edge'[d.edge].ingested <= d.at /\ d.at <= clock'
<1>1. /\ clock \in Nat /\ clock' \in Nat /\ clock <= clock'
      /\ \A d \in detaching : d.at \in Nat /\ d.edge \in DOMAIN edge
  BY LogicalKept, TimeAssumption DEF TypeOK, Times
<1>2. \A d \in detaching : edge'[d.edge].ingested <= d.at /\ d.at <= clock'
  BY <1>1, EdgeTables DEF PendingShape
<1>3. CASE LinksKept
  <2>1. \A d \in detaching' \ detaching : edge'[d.edge].ingested <= d.at /\ d.at <= clock'
    BY <1>1, <1>3 DEF LinksKept, Links
  <2> QED BY <1>2, <2>1
<1>4. ASSUME NEW e \in EdgeIds, Linked(e) PROVE detaching' \subseteq detaching
  BY <1>4 DEF Linked
<1>5. ASSUME NEW d \in detaching, Unlinked(d) PROVE detaching' \subseteq detaching
  BY <1>5 DEF Unlinked
<1> QED BY <1>2, <1>3, <1>4, <1>5 DEF LinkStep

-----------------------------------------------------------------------------
(* Source refs.                                                            *)

(* The alias table only grows, and what it anchors stays.                  *)
AliasTyped ==
  /\ DOMAIN alias \subseteq SourceRefs
  /\ alias \in [DOMAIN alias -> DOMAIN entry]

(* Aliases are added and never changed, and point at rows that exist.      *)
LEMMA AliasStep ==
  ASSUME TypeOK, EntryStep, [Next]_vars
  PROVE  /\ AliasTyped'
         /\ \A r \in DOMAIN alias : r \in DOMAIN alias' /\ alias'[r] = alias[r]
<1> DEFINE Good == /\ AliasTyped'
                   /\ \A r \in DOMAIN alias : r \in DOMAIN alias' /\ alias'[r] = alias[r]
<1>1. DOMAIN entry \subseteq DOMAIN entry'
  BY LogicalKept
<1>2. ASSUME alias' = alias PROVE Good
  BY <1>1, <1>2 DEF TypeOK, AliasTyped
<1>3. ASSUME NEW n \in EntryIds, CommitInsert(n) PROVE Good
  <2>1. n \in DOMAIN inserting /\ n \in DOMAIN entry' /\ InsertAlias(inserting[n].ref, n)
    BY <1>3 DEF CommitInsert, Put
  <2>2. inserting[n].ref \in SourceRefs \cup {Null}
    BY <2>1 DEF TypeOK, Row
  <2> DEFINE r == inserting[n].ref
  <2> HIDE DEF r
  <2>3. CASE alias' = alias
    BY <1>2, <2>3
  <2>4. CASE r # Null /\ r \notin DOMAIN alias /\ alias' = Put(alias, r, n)
    <3>1. alias' \in [DOMAIN alias \cup {r} -> DOMAIN entry'] /\ r \in SourceRefs
      BY <1>1, <2>1, <2>2, <2>4 DEF Put, TypeOK, r
    <3>2. \A s \in DOMAIN alias : s \in DOMAIN alias' /\ alias'[s] = alias[s]
      BY <2>4 DEF Put
    <3> QED BY <3>1, <3>2 DEF AliasTyped, TypeOK
  <2> QED BY <2>1, <2>3, <2>4 DEF InsertAlias, r
<1>4. ASSUME NEW n \in EntryIds, NEW d \in Drafts, BeginInsert(n, d) \/ MaterializeEntry(n, d)
      PROVE  alias' = alias
  BY <1>4 DEF BeginInsert, MaterializeEntry
<1>5. ASSUME NEW n \in EntryIds, AbortInsert(n)
      PROVE  alias' = alias
  BY <1>5 DEF AbortInsert
<1>6. ASSUME NEW old, NEW n, NEW d, NEW v, Supersede(old, v, n, d) \/ SetGoalStatus(old, v, n)
      PROVE  alias' = alias
  BY <1>6 DEF Supersede, SetGoalStatus
<1>7. ASSUME NEW a, NEW g, NEW e, AttachToGoal(a, g, e) \/ BeginDetach(e)
             \/ CommitDetach(e) \/ AbortDetach(e)
      PROVE  alias' = alias
  BY <1>7 DEF AttachToGoal, BeginDetach, CommitDetach, AbortDetach
<1>8. ASSUME Tick \/ UNCHANGED vars PROVE alias' = alias
  BY <1>8 DEF Tick, vars
<1> HIDE DEF Good
<1>9. alias' = alias \/ \E n \in EntryIds : CommitInsert(n)
  BY <1>4, <1>5, <1>6, <1>7, <1>8 DEF Next
<1> QED BY <1>2, <1>3, <1>9 DEF Good

-----------------------------------------------------------------------------
(* The invariant holds.                                                    *)

(* TypeOK is preserved, given the invariant.                               *)
LEMMA TypePreserved ==
  ASSUME IInv, [Next]_vars
  PROVE  TypeOK' /\ FtsMirrorsLive'
<1>1. EntryStep /\ LinkStep
  BY StepKinds, LinkStepKinds DEF IInv
<1>2. clock' \in Times
  BY ClockStep DEF IInv, TypeOK
<1>3. /\ DOMAIN entry' \subseteq EntryIds
      /\ entry' \in [DOMAIN entry' -> Row]
      /\ \A i \in DOMAIN entry' : ValidEntry(entry'[i])
      /\ fts' \subseteq EntryIds
      /\ FtsMirrorsLive'
  BY <1>1, EntryTables DEF IInv
<1>4. AliasTyped'
  BY <1>1, AliasStep DEF IInv
<1>5. /\ DOMAIN edge' \subseteq EdgeIds
      /\ edge' \in [DOMAIN edge' -> Link]
      /\ detaching' \subseteq [edge : DOMAIN edge', at : Times]
  BY <1>1, EdgeTables DEF IInv
<1>6. InsertsTyped'
  BY <1>1, InsertsPreserved DEF IInv
<1>7. /\ DOMAIN inserting' \subseteq EntryIds \ DOMAIN entry'
      /\ inserting' \in [DOMAIN inserting' -> Row]
      /\ \A n \in DOMAIN inserting' : ValidEntry(inserting'[n])
  BY <1>6 DEF InsertsTyped
<1>8. /\ DOMAIN alias' \subseteq SourceRefs
      /\ alias' \in [DOMAIN alias' -> DOMAIN entry']
  BY <1>4 DEF AliasTyped
<1> QED BY <1>2, <1>3, <1>5, <1>7, <1>8 DEF TypeOK

(* The empty database satisfies the invariant.                             *)
LEMMA InvariantInit == Init => IInv
<1> SUFFICES ASSUME Init PROVE IInv
  OBVIOUS
<1>1. /\ DOMAIN entry = {} /\ entry \in [{} -> Row]
      /\ DOMAIN alias = {} /\ alias \in [{} -> DOMAIN entry]
      /\ DOMAIN edge = {} /\ edge \in [{} -> Link]
      /\ DOMAIN inserting = {} /\ inserting \in [{} -> Row]
      /\ fts = {} /\ detaching = {} /\ clock = 0
  BY DEF Init
<1>2. clock \in Times
  BY <1>1, TimeAssumption DEF Times
<1>3. TypeOK
  BY <1>1, <1>2 DEF TypeOK
<1>4. FtsMirrorsLive /\ PendingShape /\ Roots /\ ChainOrder /\ Successors /\ LiveHeads /\ Links
  BY <1>1 DEF FtsMirrorsLive, Live, PendingShape, Roots, ChainOrder, Successors, LiveHeads, Links
<1> QED BY <1>3, <1>4 DEF IInv

(* Every operation preserves the invariant.                                *)
LEMMA InvariantNext == IInv /\ [Next]_vars => IInv'
<1> SUFFICES ASSUME IInv, [Next]_vars PROVE IInv'
  OBVIOUS
<1> USE DEF IInv
<1>1. EntryStep /\ LinkStep
  BY StepKinds, LinkStepKinds
<1>2. TypeOK' /\ FtsMirrorsLive'
  BY TypePreserved
<1>3. Roots' /\ ChainOrder' /\ Successors' /\ LiveHeads'
  BY <1>1, <1>2, ChainsPreserved
<1>4. Links'
  BY <1>1, <1>2, LinksPreserved
<1>5. PendingShape'
  <2>1. \A d \in detaching' : edge'[d.edge].ingested <= d.at /\ d.at <= clock'
    BY <1>1, <1>2, DetachesPreserved
  <2>2. InsertsTyped'
    BY <1>1, InsertsPreserved
  <2> QED BY <2>1, <2>2 DEF PendingShape, InsertsTyped, Pending
<1> QED BY <1>2, <1>3, <1>4, <1>5

(* Every behaviour of the store satisfies the inductive invariant.         *)
THEOREM Invariance == Spec => []IInv
BY InvariantInit, InvariantNext, PTL DEF Spec

(* The tables stay well-formed: TypeOK holds for every instance.           *)
THEOREM TypeCorrect == Spec => []TypeOK
<1>1. IInv => TypeOK
  BY DEF IInv
<1> QED BY <1>1, Invariance, PTL

(* Search finds the live versions and nothing else.                        *)
THEOREM SearchIsLive == Spec => []FtsMirrorsLive
<1>1. IInv => FtsMirrorsLive
  BY DEF IInv
<1> QED BY <1>1, Invariance, PTL

-----------------------------------------------------------------------------
(* What the invariant gives: chains.                                       *)

(* Two live rows of one chain are the same row.                            *)
LEMMA LiveUnique ==
  ASSUME TypeOK, ChainOrder, NEW i \in Live, NEW j \in Live,
         entry[i].logical = entry[j].logical
  PROVE  i = j
<1>1. i \in DOMAIN entry /\ j \in DOMAIN entry /\ entry[i].current /\ entry[j].current
      /\ entry[i].version \in Nat /\ entry[j].version \in Nat
  BY DEF Live, TypeOK, Row
<1>2. /\ ~(entry[i].version < entry[j].version)
      /\ ~(entry[j].version < entry[i].version)
  BY <1>1 DEF ChainOrder
<1>3. entry[i].version = entry[j].version
  BY <1>1, <1>2
<1> QED BY <1>1, <1>3 DEF ChainOrder

(* The invariant gives each chain exactly one live version.                *)
LEMMA LiveOfChain ==
  ASSUME TypeOK, ChainOrder, LiveHeads, NEW i \in DOMAIN entry
  PROVE  \E j \in Live : Live \cap Chain(entry[i].logical) = {j}
<1>1. PICK j \in DOMAIN entry : entry[j].current /\ entry[j].logical = entry[i].logical
  BY DEF LiveHeads
<1>2. j \in Live /\ j \in Chain(entry[i].logical)
  BY <1>1 DEF Live, Chain
<1>3. \A k \in Live \cap Chain(entry[i].logical) : k = j
  BY <1>1, <1>2, LiveUnique DEF Chain
<1> QED BY <1>2, <1>3

(* The same, as the property the runs check.                               *)
LEMMA OneLive == IInv => OneLivePerChain
BY LiveOfChain DEF IInv, OneLivePerChain

(* A chain has exactly one live version, always.                           *)
THEOREM ChainsNeverFork == Spec => []OneLivePerChain
BY OneLive, Invariance, PTL

(* superseded_by leads from every retired version to the next one.         *)
THEOREM HistoryIsLinear == Spec => []HistoryIsAPath
<1>1. IInv => HistoryIsAPath
  BY DEF IInv, HistoryIsAPath, Successors, ChainOrder, Chain, Live
<1> QED BY <1>1, Invariance, PTL

(* No edge dangles: both ends lead to one live entry.                      *)
THEOREM LinksNeverDangle == Spec => []LinksResolve
<1>1. ASSUME IInv PROVE LinksResolve
  <2> SUFFICES ASSUME NEW e \in DOMAIN edge, NEW end \in {edge[e].from, edge[e].to}
               PROVE  \E j \in Live : Live \cap Chain(end) = {j}
    BY DEF LinksResolve
  <2>1. end \in DOMAIN entry /\ entry[end].logical = end
    BY <1>1 DEF IInv, Links
  <2> QED BY <1>1, <2>1, LiveOfChain DEF IInv
<1> QED BY <1>1, Invariance, PTL

-----------------------------------------------------------------------------
(* What the invariant gives: time travel.                                  *)

(* The first instant a retired version is not visible any more is at most  *)
(* the one any later version of its chain was ingested at.                 *)
LEMMA LaterHides ==
  ASSUME IInv, NEW i \in DOMAIN entry, NEW j \in DOMAIN entry,
         entry[i].logical = entry[j].logical, entry[i].version < entry[j].version
  PROVE  /\ entry[i].next # Null /\ entry[i].next \in DOMAIN entry
         /\ entry[entry[i].next].ingested <= entry[j].ingested
<1>1. ~entry[i].current
  BY DEF IInv, ChainOrder
<1> DEFINE k == entry[i].next
<1>2. /\ k # Null /\ k \in DOMAIN entry /\ entry[k].logical = entry[i].logical
      /\ entry[k].version = entry[i].version + 1
  BY <1>1 DEF IInv, Successors
<1>3. entry[i].version \in Nat /\ entry[j].version \in Nat /\ entry[k].version \in Nat
      /\ entry[j].ingested \in Nat /\ entry[k].ingested \in Nat
  BY <1>2 DEF IInv, TypeOK, Row
<1>4. entry[k].version = entry[j].version \/ entry[k].version < entry[j].version
  BY <1>2, <1>3
<1>5. entry[k].ingested <= entry[j].ingested
  BY <1>2, <1>3, <1>4 DEF IInv, ChainOrder
<1> QED BY <1>2, <1>5

(* At most one version of an entity is visible at any instant.             *)
LEMMA OneVersion == ASSUME IInv PROVE OneVersionAsOf
<1> SUFFICES ASSUME NEW t \in Times, NEW i \in EntriesAt(t), NEW j \in EntriesAt(t),
                    entry[i].logical = entry[j].logical
             PROVE  i = j
  BY DEF OneVersionAsOf
<1>1. /\ i \in DOMAIN entry /\ j \in DOMAIN entry
      /\ WasCurrent(i, t) /\ WasCurrent(j, t)
      /\ entry[i].version \in Nat /\ entry[j].version \in Nat /\ t \in Nat
  BY TimeAssumption DEF EntriesAt, IInv, TypeOK, Row, Times
<1>2. ASSUME NEW a \in DOMAIN entry, NEW b \in DOMAIN entry,
             entry[a].logical = entry[b].logical, WasCurrent(a, t), WasCurrent(b, t)
      PROVE  ~(entry[a].version < entry[b].version)
  <2> SUFFICES ASSUME entry[a].version < entry[b].version PROVE FALSE
    OBVIOUS
  <2> DEFINE k == entry[a].next
  <2>1. k # Null /\ k \in DOMAIN entry /\ entry[k].ingested <= entry[b].ingested
    BY <1>2, LaterHides
  <2>2. entry[k].ingested \in Nat /\ entry[b].ingested \in Nat
    BY <2>1 DEF IInv, TypeOK, Row
  <2>3. entry[k].ingested > t /\ entry[b].ingested <= t
    BY <1>2, <2>1 DEF WasCurrent
  <2> HIDE DEF k
  <2> QED BY <1>1, <2>1, <2>2, <2>3
<1>3. entry[i].version = entry[j].version
  BY <1>1, <1>2
<1> QED BY <1>1, <1>3 DEF IInv, ChainOrder

(* The same of every state.                                                *)
THEOREM TimeTravelIsUnambiguous == Spec => []OneVersionAsOf
BY OneVersion, Invariance, PTL

(* queries_temporal.go:15: what the past shows of an entity is the version *)
(* that stood then, the last one ingested by t, or nothing when the event  *)
(* of that version lies after t.  No instant falls between two versions,   *)
(* and none shows a version that had been replaced by then.                *)
Stood(j, t) ==
  /\ entry[j].ingested <= t
  /\ \A k \in Chain(entry[j].logical) :
       entry[k].version > entry[j].version => entry[k].ingested > t

HistoryHasNoGap ==
  \A i \in DOMAIN entry, t \in Times :
    entry[i].ingested <= t =>
      \E j \in Chain(entry[i].logical) :
        /\ Stood(j, t)
        /\ entry[i].version <= entry[j].version
        /\ EntriesAt(t) \cap Chain(entry[i].logical) =
             IF entry[j].occurred <= t THEN {j} ELSE {}

(* The last version ingested by t, counted down from the live one.         *)
LEMMA SomeVersionStood ==
  ASSUME IInv, NEW i \in DOMAIN entry, NEW t \in Times, entry[i].ingested <= t
  PROVE  \E j \in Chain(entry[i].logical) :
           Stood(j, t) /\ entry[i].version <= entry[j].version
<1>1. PICK l \in DOMAIN entry : entry[l].current /\ entry[l].logical = entry[i].logical
  BY DEF IInv, LiveHeads
<1>2. t \in Nat /\ \A k \in DOMAIN entry : entry[k].version \in Nat /\ entry[k].ingested \in Nat
  BY TimeAssumption DEF IInv, TypeOK, Row, Times
<1>3. \A k \in Chain(entry[i].logical) : entry[k].version <= entry[l].version
  BY <1>1, <1>2 DEF IInv, ChainOrder, Chain
<1> DEFINE Past == {k \in Chain(entry[i].logical) :
                      entry[k].ingested <= t /\ entry[i].version <= entry[k].version}
           Ages == {entry[l].version - entry[k].version : k \in Past}
<1>4. i \in Past
  BY <1>2 DEF Chain
<1>5. Ages \in SUBSET Nat /\ Ages # {}
  BY <1>1, <1>2, <1>3, <1>4 DEF Chain
<1>6. PICK m \in Ages : \A n \in Ages : m <= n
  BY <1>5, LeastNat
<1>7. PICK j \in Past : m = entry[l].version - entry[j].version
  OBVIOUS
<1>8. \A k \in Past : entry[k].version <= entry[j].version
  <2> SUFFICES ASSUME NEW k \in Past PROVE entry[k].version <= entry[j].version
    OBVIOUS
  <2>1. entry[l].version - entry[j].version <= entry[l].version - entry[k].version
    BY <1>6, <1>7
  <2>2. k \in DOMAIN entry /\ j \in DOMAIN entry
    BY DEF Chain
  <2> QED BY <1>1, <1>2, <2>1, <2>2
<1>9. ASSUME NEW k \in Chain(entry[j].logical), entry[k].version > entry[j].version
      PROVE  entry[k].ingested > t
  <2>1. k \in DOMAIN entry /\ k \in Chain(entry[i].logical) /\ j \in DOMAIN entry
    BY <1>7 DEF Chain
  <2>2. k \notin Past
    BY <1>2, <1>8, <1>9, <2>1
  <2>3. entry[i].version <= entry[k].version
    BY <1>2, <1>7, <1>9, <2>1
  <2> QED BY <1>2, <2>1, <2>2, <2>3
<1> QED BY <1>7, <1>9 DEF Stood

(* Only the version that stood can be visible.                             *)
LEMMA VisibleStood ==
  ASSUME IInv, NEW t \in Times, NEW j \in DOMAIN entry, NEW k \in DOMAIN entry,
         Stood(j, t), WasCurrent(k, t), entry[k].logical = entry[j].logical
  PROVE  k = j
<1>1. /\ t \in Nat
      /\ \A x \in DOMAIN entry : entry[x].version \in Nat /\ entry[x].ingested \in Nat
  BY TimeAssumption DEF IInv, TypeOK, Row, Times
<1>2. entry[k].ingested <= t
  BY DEF WasCurrent
<1>3. ~(entry[k].version > entry[j].version)
  BY <1>1, <1>2 DEF Stood, Chain
<1>4. ~(entry[k].version < entry[j].version)
  <2> SUFFICES ASSUME entry[k].version < entry[j].version PROVE FALSE
    OBVIOUS
  <2> DEFINE n == entry[k].next
  <2>1. n # Null /\ n \in DOMAIN entry /\ entry[n].ingested <= entry[j].ingested
    BY LaterHides
  <2>2. entry[n].ingested > t /\ entry[j].ingested <= t
    BY <2>1 DEF WasCurrent, Stood
  <2> HIDE DEF n
  <2> QED BY <1>1, <2>1, <2>2
<1>5. entry[k].version = entry[j].version
  BY <1>1, <1>3, <1>4
<1> QED BY <1>5 DEF IInv, ChainOrder

(* It is visible unless its event lies later.                              *)
LEMMA StoodIsVisible ==
  ASSUME IInv, NEW t \in Times, NEW j \in DOMAIN entry, Stood(j, t),
         entry[j].occurred <= t
  PROVE  WasCurrent(j, t)
<1> SUFFICES ASSUME entry[j].next # Null PROVE entry[entry[j].next].ingested > t
  BY DEF WasCurrent, Stood
<1> DEFINE n == entry[j].next
<1>1. /\ n \in DOMAIN entry /\ entry[n].logical = entry[j].logical
      /\ entry[n].version = entry[j].version + 1
  BY DEF IInv, Successors
<1>2. entry[j].version \in Nat /\ entry[n].version > entry[j].version
  BY <1>1 DEF IInv, TypeOK, Row
<1> QED BY <1>1, <1>2 DEF Stood, Chain

(* An entity has a version at every instant since it was first ingested.   *)
THEOREM HistoryIsComplete == Spec => []HistoryHasNoGap
<1>1. ASSUME IInv PROVE HistoryHasNoGap
  <2> SUFFICES ASSUME NEW i \in DOMAIN entry, NEW t \in Times, entry[i].ingested <= t,
                      NEW j \in Chain(entry[i].logical), Stood(j, t)
               PROVE  EntriesAt(t) \cap Chain(entry[i].logical) =
                        IF entry[j].occurred <= t THEN {j} ELSE {}
    BY <1>1, SomeVersionStood DEF HistoryHasNoGap
  <2>1. j \in DOMAIN entry /\ entry[j].logical = entry[i].logical
    BY DEF Chain
  <2>2. \A k \in EntriesAt(t) \cap Chain(entry[i].logical) :
          k = j /\ entry[k].occurred <= t
    <3> SUFFICES ASSUME NEW k \in EntriesAt(t), k \in Chain(entry[i].logical)
                 PROVE  k = j /\ entry[k].occurred <= t
      OBVIOUS
    <3>1. k \in DOMAIN entry /\ WasCurrent(k, t) /\ entry[k].logical = entry[j].logical
      BY <2>1 DEF EntriesAt, Chain
    <3> QED BY <1>1, <2>1, <3>1, VisibleStood DEF WasCurrent
  <2>3. entry[j].occurred <= t => j \in EntriesAt(t)
    BY <1>1, <2>1, StoodIsVisible DEF EntriesAt
  <2> QED BY <2>2, <2>3
<1> QED BY <1>1, Invariance, PTL

(* At most one link between two entities is visible at any instant.        *)
THEOREM LinksAreUnambiguous == Spec => []OneLinkAsOf
<1>1. ASSUME IInv PROVE OneLinkAsOf
  <2> SUFFICES ASSUME NEW t \in Times, NEW e \in EdgesAt(t), NEW f \in EdgesAt(t),
                      edge[e].from = edge[f].from, edge[e].to = edge[f].to
               PROVE  e = f
    BY DEF OneLinkAsOf
  <2>1. /\ e \in DOMAIN edge /\ f \in DOMAIN edge /\ WasLinked(e, t) /\ WasLinked(f, t)
        /\ t \in Nat /\ edge[e] \in Link /\ edge[f] \in Link
    BY <1>1, TimeAssumption DEF EdgesAt, IInv, TypeOK, Times
  <2>2. e = f \/ Before(e, f) \/ Before(f, e)
    BY <1>1, <2>1 DEF IInv, Links
  <2>3. ~Before(e, f) /\ ~Before(f, e)
    BY <2>1 DEF Before, WasLinked, Link
  <2> QED BY <2>2, <2>3
<1> QED BY <1>1, Invariance, PTL

(* The time-travel queries, asked for now, give the current state.         *)
THEOREM NowIsCurrent == Spec => []AsOfNowIsCurrent
<1>1. ASSUME IInv PROVE AsOfNowIsCurrent
  <2>1. clock \in Nat /\ \A i \in DOMAIN entry : entry[i].ingested \in Nat
    BY <1>1, TimeAssumption DEF IInv, TypeOK, Times, Row
  <2>2. ASSUME NEW i \in DOMAIN entry
        PROVE  WasCurrent(i, clock) <=> entry[i].current /\ entry[i].occurred <= clock
    <3>1. entry[i].ingested <= clock
      BY <1>1 DEF IInv, Roots
    <3>2. entry[i].current <=> entry[i].next = Null
      BY <1>1 DEF IInv, Successors
    <3>3. ~entry[i].current => ~(entry[entry[i].next].ingested > clock)
      BY <1>1, <2>1 DEF IInv, Successors, Roots
    <3> QED BY <3>1, <3>2, <3>3 DEF WasCurrent
  <2>3. EntriesAt(clock) = {i \in Live : entry[i].occurred <= clock}
    BY <2>2 DEF EntriesAt, Live
  <2>4. ASSUME NEW e \in DOMAIN edge
        PROVE  WasLinked(e, clock) <=> edge[e].live
    <3>1. edge[e] \in Link
      BY <1>1 DEF IInv, TypeOK
    <3> QED BY <1>1, <2>1, <3>1 DEF IInv, Links, WasLinked, Link
  <2>5. EdgesAt(clock) = {e \in DOMAIN edge : edge[e].live}
    BY <2>4 DEF EdgesAt
  <2>6. ASSUME NEW g \in DOMAIN entry
        PROVE  GoalActivitiesAt(g, clock) = {i \in GoalActivities(g) : entry[i].occurred <= clock}
    BY <2>3, <2>5 DEF GoalActivitiesAt, GoalActivities, LiveLinks
  <2> QED BY <2>3, <2>5, <2>6 DEF AsOfNowIsCurrent
<1> QED BY <1>1, Invariance, PTL

-----------------------------------------------------------------------------
(* What no step does.                                                      *)

(* A step leaves what ListEntriesAt shows for a past instant as it is, but *)
(* for the late commit of an InsertEntry.                                  *)
LEMMA PastEntriesKept ==
  ASSUME IInv, [Next]_vars
  PROVE  PastEntriesStep
<1> SUFFICES ASSUME NEW t \in Times, t < clock
             PROVE  /\ \A i \in EntriesAt(t) :
                         /\ i \in EntriesAt(t)'
                         /\ [entry[i] EXCEPT !.current = TRUE, !.next = Null]
                              = [entry'[i] EXCEPT !.current = TRUE, !.next = Null]
                    /\ \A i \in EntriesAt(t)' \ EntriesAt(t) : i \in DOMAIN inserting
  BY DEF PastEntriesStep
<1>1. EntryStep
  BY StepKinds DEF IInv
<1>2. /\ clock \in Nat /\ t \in Nat
      /\ \A i \in DOMAIN entry : entry[i] \in Row
      /\ \A i \in DOMAIN entry :
           entry[i].next # Null => entry[i].next \in DOMAIN entry
  BY TimeAssumption DEF IInv, TypeOK, Times, Successors
<1>3. CASE EntriesKept
  BY <1>3 DEF EntriesKept, EntriesAt, WasCurrent
<1>4. ASSUME NEW n \in EntryIds, Inserted(n)
      PROVE  /\ \A i \in DOMAIN entry : entry'[i] = entry[i] /\ WasCurrent(i, t)' = WasCurrent(i, t)
             /\ DOMAIN entry' = DOMAIN entry \cup {n}
             /\ WasCurrent(n, t)' => n \in DOMAIN inserting
  <2>1. \A i \in DOMAIN entry : WasCurrent(i, t)' = WasCurrent(i, t)
    BY <1>2, <1>4 DEF Inserted, WasCurrent
  <2>2. WasCurrent(n, t)' => entry'[n].ingested <= t
    BY DEF WasCurrent
  <2>3. WasCurrent(n, t)' => entry'[n].ingested # clock
    BY <1>2, <2>2
  <2> QED BY <1>4, <2>1, <2>3 DEF Inserted
<1>5. ASSUME NEW old \in EntryIds, NEW n \in EntryIds, Superseded(old, n)
      PROVE  /\ \A i \in DOMAIN entry :
                  /\ [entry[i] EXCEPT !.current = TRUE, !.next = Null]
                       = [entry'[i] EXCEPT !.current = TRUE, !.next = Null]
                  /\ WasCurrent(i, t)' = WasCurrent(i, t)
             /\ DOMAIN entry' = DOMAIN entry \cup {n}
             /\ ~WasCurrent(n, t)'
  <2>1. /\ old \in DOMAIN entry /\ entry[old].current /\ entry[old].next = Null
        /\ n \notin DOMAIN entry /\ n # Null
        /\ entry'[n].ingested = clock
        /\ DOMAIN entry' = DOMAIN entry \cup {n}
        /\ \A i \in DOMAIN entry \ {old} : entry'[i] = entry[i]
        /\ entry'[old] = [entry[old] EXCEPT !.current = FALSE, !.next = n]
    BY <1>5, NullAssumption DEF Superseded, Live, IInv, Successors
  <2>2. /\ entry'[old].ingested = entry[old].ingested
        /\ entry'[old].occurred = entry[old].occurred
        /\ entry'[old].next = n
        /\ [entry[old] EXCEPT !.current = TRUE, !.next = Null]
             = [entry'[old] EXCEPT !.current = TRUE, !.next = Null]
    BY <1>2, <2>1, ZenonT(60) DEF Row
  <2>3. WasCurrent(old, t)' = WasCurrent(old, t)
    BY <1>2, <2>1, <2>2 DEF WasCurrent
  <2>4. \A i \in DOMAIN entry : entry'[i].ingested = entry[i].ingested
    BY <2>1, <2>2
  <2>5. \A i \in DOMAIN entry \ {old} : WasCurrent(i, t)' = WasCurrent(i, t)
    BY <1>2, <2>1, <2>4 DEF WasCurrent
  <2>6. ~WasCurrent(n, t)'
    BY <1>2, <2>1 DEF WasCurrent
  <2> QED BY <2>1, <2>2, <2>3, <2>5, <2>6
<1> QED BY <1>1, <1>3, <1>4, <1>5 DEF EntryStep, EntriesAt

(* The past that ListEntriesAt shows is fixed, but for late commits.       *)
THEOREM PastEntriesFixed == Spec => PastEntriesAreFixed
<1>1. ASSUME IInv, [Next]_vars PROVE [PastEntriesStep]_vars
  BY <1>1, PastEntriesKept
<1> QED BY <1>1, Invariance, PTL DEF Spec, PastEntriesAreFixed

(* A source_ref resolves to the same entity for ever.                      *)
THEOREM SourceRefsAreStable == Spec => SourceRefIsStable
<1>1. ASSUME IInv, IInv', [Next]_vars PROVE [SourceRefStep]_vars
  <2> SUFFICES ASSUME NEW r \in DOMAIN alias
               PROVE  /\ r \in DOMAIN alias'
                      /\ \E j \in Live' : EntryBySourceRef(r)' = {j}
                      /\ entry'[alias'[r]].logical = entry[alias[r]].logical
    BY DEF SourceRefStep
  <2>1. EntryStep
    BY <1>1, StepKinds DEF IInv
  <2>2. r \in DOMAIN alias' /\ alias'[r] = alias[r]
    BY <1>1, <2>1, AliasStep DEF IInv
  <2>3. alias[r] \in DOMAIN entry
    BY <1>1 DEF IInv, TypeOK
  <2>4. alias[r] \in DOMAIN entry' /\ entry'[alias[r]].logical = entry[alias[r]].logical
    BY <1>1, <2>1, <2>3, LogicalKept DEF IInv
  <2>5. OneLivePerChain'
    BY <1>1, OneLive, PTL
  <2>6. \E j \in Live' : EntryBySourceRef(r)' = {j}
    BY <2>2, <2>4, <2>5 DEF OneLivePerChain, EntryBySourceRef, Chain, Live
  <2> QED BY <2>2, <2>4, <2>6
<1> QED BY <1>1, InvariantNext, Invariance, PTL DEF Spec, SourceRefIsStable

(* The past that EdgesAt shows is fixed, but for late detaches.            *)
THEOREM PastLinksFixed == Spec => PastLinksAreFixed
<1>1. ASSUME IInv, [Next]_vars PROVE [PastLinksStep]_vars
  <2> SUFFICES ASSUME NEW t \in Times, t < clock
               PROVE  /\ EdgesAt(t)' \subseteq EdgesAt(t)
                      /\ \A e \in EdgesAt(t) \ EdgesAt(t)' :
                           \E d \in detaching : d.edge = e /\ d.at <= t
    BY DEF PastLinksStep
  <2>1. LinkStep
    BY <1>1, LinkStepKinds DEF IInv
  <2>2. /\ clock \in Nat /\ t \in Nat
        /\ \A e \in DOMAIN edge : edge[e] \in Link
        /\ \A d \in detaching : d.at \in Nat /\ d.edge \in DOMAIN edge
    BY <1>1, TimeAssumption DEF IInv, TypeOK, Times
  <2>3. CASE LinksKept
    BY <2>3 DEF LinksKept, EdgesAt, WasLinked
  <2>4. ASSUME NEW e \in EdgeIds, Linked(e)
        PROVE  EdgesAt(t)' = EdgesAt(t)
    <3>1. ~WasLinked(e, t)'
      BY <2>2, <2>4 DEF Linked, WasLinked
    <3>2. \A f \in DOMAIN edge : WasLinked(f, t)' = WasLinked(f, t)
      BY <2>4 DEF Linked, WasLinked
    <3> QED BY <2>4, <3>1, <3>2 DEF Linked, EdgesAt
  <2>5. ASSUME NEW d \in detaching, Unlinked(d)
        PROVE  /\ EdgesAt(t)' \subseteq EdgesAt(t)
               /\ \A e \in EdgesAt(t) \ EdgesAt(t)' : d.edge = e /\ d.at <= t
    <3>1. /\ DOMAIN edge' = DOMAIN edge
          /\ \A e \in DOMAIN edge \ {d.edge} : edge'[e] = edge[e]
          /\ edge'[d.edge].ingested = edge[d.edge].ingested
          /\ edge'[d.edge].detached = d.at
      BY <2>2, <2>5 DEF Unlinked, Link
    <3>2. edge[d.edge].detached = Null
      BY <1>1, <2>2, <2>5 DEF IInv, Links, Unlinked
    <3>3. \A e \in DOMAIN edge \ {d.edge} : WasLinked(e, t)' = WasLinked(e, t)
      BY <3>1 DEF WasLinked
    <3>4. WasLinked(d.edge, t)' => WasLinked(d.edge, t)
      BY <3>1, <3>2 DEF WasLinked
    <3>5. WasLinked(d.edge, t) /\ ~WasLinked(d.edge, t)' => d.at <= t
      BY <2>2, <3>1, <3>2 DEF WasLinked
    <3> QED BY <3>1, <3>3, <3>4, <3>5 DEF EdgesAt
  <2> QED BY <2>1, <2>3, <2>4, <2>5 DEF LinkStep
<1> QED BY <1>1, Invariance, PTL DEF Spec, PastLinksAreFixed

(* Superseding a goal or an activity takes no activity off a goal.         *)
THEOREM LinksSurviveSupersede == Spec => SupersedeKeepsLinks
<1>1. ASSUME IInv, IInv', [Next]_vars PROVE [KeepsLinksStep]_vars
  <2> SUFFICES ASSUME edge' = edge, NEW g \in DOMAIN entry, NEW a \in GoalActivities(g)
               PROVE  \E b \in Live' :
                        /\ entry'[b].logical = entry[a].logical
                        /\ entry'[b].type = "activity" => b \in GoalActivities(g)'
    BY DEF KeepsLinksStep
  <2>1. EntryStep
    BY <1>1, StepKinds DEF IInv
  <2>2. /\ a \in DOMAIN entry
        /\ LiveLinks(entry[a].logical, entry[g].logical) # {}
    BY DEF GoalActivities, Live
  <2>3. /\ a \in DOMAIN entry' /\ entry'[a].logical = entry[a].logical
        /\ g \in DOMAIN entry' /\ entry'[g].logical = entry[g].logical
    BY <1>1, <2>1, <2>2, LogicalKept DEF IInv
  <2>4. OneLivePerChain'
    BY <1>1, OneLive, PTL
  <2>5. PICK b \in Live' : entry'[b].logical = entry'[a].logical
    BY <2>3, <2>4 DEF OneLivePerChain, Chain, Live
  <2>6. entry'[b].type = "activity" => b \in GoalActivities(g)'
    BY <2>2, <2>3, <2>5 DEF GoalActivities, LiveLinks
  <2> QED BY <2>3, <2>5, <2>6
<1> QED BY <1>1, InvariantNext, Invariance, PTL DEF Spec, SupersedeKeepsLinks

-----------------------------------------------------------------------------
(* The promises of the store to the pipeline, the pages and the labels.    *)

StateHolds ==
  /\ OneLivePerChain /\ HistoryIsAPath /\ FtsMirrorsLive
  /\ LinksResolve
  /\ OneVersionAsOf /\ OneLinkAsOf /\ AsOfNowIsCurrent /\ HistoryHasNoGap

StorePromises ==
  /\ []StateHolds
  /\ PastEntriesAreFixed /\ PastLinksAreFixed
  /\ SourceRefIsStable /\ SupersedeKeepsLinks

(* service.go:80, queries_temporal.go:15: chains, links and the past hold  *)
(* together, whatever calls are made of the store.                         *)
THEOREM StoreKeepsItsPromises == Spec => StorePromises
<1>1. Spec => []StateHolds
  BY ChainsNeverFork, HistoryIsLinear, SearchIsLive, LinksNeverDangle,
     TimeTravelIsUnambiguous, LinksAreUnambiguous, NowIsCurrent, HistoryIsComplete,
     PTL DEF StateHolds
<1> QED BY <1>1, PastEntriesFixed, PastLinksFixed, SourceRefsAreStable,
           LinksSurviveSupersede DEF StorePromises

=============================================================================
