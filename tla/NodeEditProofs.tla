--------------------------- MODULE NodeEditProofs ---------------------------
(***************************************************************************)
(* Theorems about NodeEdit, for every set of ids and of browser tabs.      *)
(***************************************************************************)
EXTENDS NodeEdit, TLAPS

-----------------------------------------------------------------------------
(* The inductive invariant.                                                *)

(* A logical_id is the id of the first version of its chain; nothing is    *)
(* stamped later than now; is_current and superseded_by say the same thing.*)
Roots ==
  \A i \in DOMAIN node :
    /\ node[i].logical \in DOMAIN node
    /\ node[node[i].logical].logical = node[i].logical
    /\ node[i].occurred <= clock /\ node[i].ingested <= clock
    /\ node[i].current <=> node[i].next = Null
    /\ node[i].next # Null => node[i].next \in DOMAIN node

(* Within a chain the versions are numbered in the order they were         *)
(* written, and only the last can be live.                                 *)
ChainOrder ==
  \A i, j \in DOMAIN node :
    node[i].logical = node[j].logical =>
      /\ node[i].version = node[j].version => i = j
      /\ node[i].version < node[j].version => ~node[i].current

LiveHeads ==
  \A i \in DOMAIN node :
    \E j \in DOMAIN node : node[j].current /\ node[j].logical = node[i].logical

(* A form names the version it was rendered from, by id and by number, and *)
(* unless an input error came between, its text is that version's.         *)
FormsFit ==
  \A c \in Clients : form[c] # Null =>
    /\ form[c].expected = node[form[c].id].version
    /\ form[c].kept \/ form[c].basis = form[c].id

(* A posted form stays on the screen while it is handled.  What is about   *)
(* to be superseded has the version the form names; after a conflict the   *)
(* live version is a later one.                                            *)
RequestFits(c) ==
  LET r == request[c]
  IN  /\ r.at \in {"post", "save", "conflict"} =>
           /\ form[c] # Null
           /\ r.logical = node[form[c].id].logical
           /\ r.expected \in {form[c].expected, 0}
      /\ r.at = "save" =>
           /\ r.live \in DOMAIN node
           /\ node[r.live].logical = r.logical
           /\ node[r.live].version = r.expected
      /\ r.at = "conflict" => \A j \in Head(r.logical) : r.expected < node[j].version

RequestsFit == \A c \in Clients : RequestFits(c)

IInv ==
  /\ TypeOK
  /\ fts = Live
  /\ Roots
  /\ ChainOrder
  /\ LiveHeads
  /\ FormsFit
  /\ RequestsFit
  /\ NoLostUpdate

-----------------------------------------------------------------------------
(* What a step does to the nodes.                                          *)

(* A first version n enters the table and the search index.                *)
Created(n) ==
  /\ n \in NodeIds \ DOMAIN node
  /\ DOMAIN node' = DOMAIN node \cup {n}
  /\ \A i \in DOMAIN node : node'[i] = node[i]
  /\ node' \in [DOMAIN node' -> Row]
  /\ node'[n].logical = n /\ node'[n].version = 1
  /\ node'[n].occurred = clock /\ node'[n].ingested = clock
  /\ node'[n].current /\ node'[n].next = Null
  /\ fts' = fts \cup {n}
  /\ UNCHANGED <<form, request, clock>>

(* The live version old is retired in favour of n, which client c wrote.   *)
Superseded(c, old, n) ==
  /\ old \in Live
  /\ n \in NodeIds \ DOMAIN node
  /\ DOMAIN node' = DOMAIN node \cup {n}
  /\ \A i \in DOMAIN node \ {old} : node'[i] = node[i]
  /\ node'[old] = [node[old] EXCEPT !.current = FALSE, !.next = n]
  /\ node' \in [DOMAIN node' -> Row]
  /\ node'[n].logical = node[old].logical /\ node'[n].version = node[old].version + 1
  /\ node'[n].occurred = node[old].occurred /\ node'[n].ingested = clock
  /\ node'[n].current /\ node'[n].next = Null
  /\ node'[n].basis = form[c].basis /\ node'[n].kept = form[c].kept
  /\ fts' = (fts \ {old}) \cup {n}
  /\ UNCHANGED <<form, clock>>

NodesKept == UNCHANGED <<node, fts>>

(* What the rows of a table keep whoever writes, but for the two columns   *)
(* that a supersede flips.                                                 *)
RowsKept ==
  /\ DOMAIN node \subseteq DOMAIN node'
  /\ \A i \in DOMAIN node :
       /\ node'[i].logical = node[i].logical
       /\ node'[i].version = node[i].version
       /\ node'[i].basis = node[i].basis /\ node'[i].kept = node[i].kept
       /\ node'[i].occurred = node[i].occurred /\ node'[i].ingested = node[i].ingested

(* CreateNode inserts a first version.                                     *)
LEMMA CreateNodeCreates ==
  ASSUME IInv, NEW n \in NodeIds, CreateNode(n)
  PROVE  Created(n)
<1> DEFINE r == [logical |-> n, version |-> 1, current |-> TRUE,
                 occurred |-> clock, ingested |-> clock,
                 next |-> Null, basis |-> Null, kept |-> FALSE]
<1>1. r \in Row
  BY DEF IInv, TypeOK, Row
<1>2. /\ node' = Put(node, n, r) /\ n \notin DOMAIN node
      /\ fts' = fts \cup {n} /\ UNCHANGED <<form, request, clock>>
  BY DEF CreateNode
<1>3. /\ r.logical = n /\ r.version = 1
      /\ r.occurred = clock /\ r.ingested = clock
      /\ r.current /\ r.next = Null
  OBVIOUS
<1> HIDE DEF r
<1>4. /\ DOMAIN node' = DOMAIN node \cup {n}
      /\ \A i \in DOMAIN node : node'[i] = node[i]
      /\ node'[n] = r
      /\ node' = [i \in DOMAIN node' |-> node'[i]]
  BY <1>2 DEF Put
<1>5. node' \in [DOMAIN node' -> Row]
  BY <1>1, <1>4 DEF IInv, TypeOK
<1> QED BY <1>2, <1>3, <1>4, <1>5 DEF Created

(* The accepting branch of SupersedeNode.                                  *)
LEMMA SaveSupersedes ==
  ASSUME IInv, NEW c \in Clients, NEW n \in NodeIds, Save(c, n),
         MaySupersede(request[c].live, request[c].expected)
  PROVE  /\ request[c].at = "save"
         /\ Superseded(c, request[c].live, n)
         /\ request' = [request EXCEPT ![c] = Idle]
<1> DEFINE old == request[c].live
           r == NewVersion(c, old)
           t == [node EXCEPT ![old].current = FALSE, ![old].next = n]
<1>1. /\ request[c].at = "save" /\ old \in Live
      /\ n \in NodeIds \ DOMAIN node
      /\ node' = Put(t, n, r)
      /\ Reindex(old, n)
      /\ request' = [request EXCEPT ![c] = Idle]
      /\ UNCHANGED <<form, clock>>
  BY DEF Save, MaySupersede
<1>2. old \in DOMAIN node /\ node[old] \in Row /\ clock \in Times
  BY <1>1 DEF Live, IInv, TypeOK
<1>3. form[c] \in Form
  BY <1>1 DEF IInv, TypeOK, RequestsFit, RequestFits
<1>4. r \in Row
  BY <1>2, <1>3 DEF NewVersion, Row, Form
<1>5. /\ r.logical = node[old].logical /\ r.version = node[old].version + 1
      /\ r.occurred = node[old].occurred /\ r.ingested = clock
      /\ r.current /\ r.next = Null
      /\ r.basis = form[c].basis /\ r.kept = form[c].kept
  BY DEF NewVersion
<1>6. /\ DOMAIN t = DOMAIN node
      /\ \A i \in DOMAIN node \ {old} : t[i] = node[i]
      /\ t[old] = [node[old] EXCEPT !.current = FALSE, !.next = n]
  BY <1>2
<1> HIDE DEF r, t
<1>7. /\ DOMAIN node' = DOMAIN node \cup {n}
      /\ \A i \in DOMAIN node : node'[i] = t[i]
      /\ node'[n] = r
      /\ node' = [i \in DOMAIN node' |-> node'[i]]
  BY <1>1, <1>6 DEF Put
<1>8. node'[old] \in Row
  <2>1. node'[old] = [node[old] EXCEPT !.current = FALSE, !.next = n]
    BY <1>2, <1>6, <1>7
  <2> QED BY <1>2, <2>1 DEF Row
<1>9. node' \in [DOMAIN node' -> Row]
  BY <1>4, <1>6, <1>7, <1>8 DEF IInv, TypeOK
<1> QED BY <1>1, <1>2, <1>5, <1>6, <1>7, <1>9 DEF Superseded, Reindex

(* A step creates a node, supersedes one or leaves the nodes alone.        *)
LEMMA StepKinds ==
  ASSUME IInv, [Next]_vars
  PROVE  \/ \E n \in NodeIds : Created(n)
         \/ \E c \in Clients, n \in NodeIds :
               /\ request[c].at = "save"
               /\ request[c].expected > 0 => node[request[c].live].version = request[c].expected
               /\ Superseded(c, request[c].live, n)
               /\ request' = [request EXCEPT ![c] = Idle]
         \/ NodesKept
<1>1. ASSUME NEW n \in NodeIds, CreateNode(n) PROVE Created(n)
  BY <1>1, CreateNodeCreates
<1>2. ASSUME NEW c \in Clients, NEW n \in NodeIds, Save(c, n)
      PROVE  \/ /\ request[c].at = "save"
                /\ request[c].expected > 0 => node[request[c].live].version = request[c].expected
                /\ Superseded(c, request[c].live, n)
                /\ request' = [request EXCEPT ![c] = Idle]
             \/ NodesKept
  <2>1. CASE MaySupersede(request[c].live, request[c].expected)
    BY <1>2, <2>1, SaveSupersedes DEF MaySupersede
  <2>2. CASE ~MaySupersede(request[c].live, request[c].expected)
    BY <1>2, <2>2 DEF Save, NodesKept
  <2> QED BY <2>1, <2>2
<1>3. ASSUME NEW c \in Clients,
             Fail(c) \/ RenderForm(c) \/ ReadLive(c) \/ RenderConflict(c)
      PROVE  NodesKept
  BY <1>3 DEF Fail, RenderForm, ReadLive, RenderConflict, NodesKept
<1>4. ASSUME NEW c \in Clients, NEW id \in NodeIds, OpenForm(c, id) PROVE NodesKept
  BY <1>4 DEF OpenForm, NodesKept
<1>5. ASSUME NEW c \in Clients, NEW v, NEW blank, Submit(c, v, blank) PROVE NodesKept
  BY <1>5 DEF Submit, NodesKept
<1>6. CASE Tick \/ UNCHANGED vars
  BY <1>6 DEF Tick, vars, NodesKept
<1> QED BY <1>1, <1>2, <1>3, <1>4, <1>5, <1>6 DEF Next, Handle

(* The clock does not step back.                                           *)
LEMMA ClockStep ==
  ASSUME IInv, [Next]_vars
  PROVE  clock \in Times /\ clock' \in Times /\ clock <= clock'
<1>1. clock \in Times /\ MaxTime \in Nat
  BY NodeAssumption DEF IInv, TypeOK
<1>2. CASE Tick
  BY <1>1, <1>2 DEF Tick, Times
<1>3. CASE ~Tick
  <2>1. clock' = clock
    BY <1>3 DEF Next, Handle, CreateNode, OpenForm, RenderForm, Submit, ReadLive,
                Save, RenderConflict, Fail, vars
  <2> QED BY <1>1, <2>1 DEF Times
<1> QED BY <1>2, <1>3

(* No step touches what a row says, and what was superseded stays so.      *)
LEMMA RowsAreKept ==
  ASSUME IInv, [Next]_vars
  PROVE  /\ RowsKept
         /\ \A i \in DOMAIN node : node[i].next # Null => node'[i] = node[i]
<1>1. \A i \in DOMAIN node : node[i] \in Row /\ (node[i].current <=> node[i].next = Null)
  BY DEF IInv, TypeOK, Roots
<1>2. ASSUME NEW c, NEW old, NEW n, Superseded(c, old, n)
      PROVE  /\ RowsKept
             /\ \A i \in DOMAIN node : node[i].next # Null => node'[i] = node[i]
  <2>1. old \in DOMAIN node /\ node[old].next = Null
    BY <1>1, <1>2 DEF Superseded, Live
  <2>2. /\ node'[old].logical = node[old].logical
        /\ node'[old].version = node[old].version
        /\ node'[old].basis = node[old].basis /\ node'[old].kept = node[old].kept
        /\ node'[old].occurred = node[old].occurred
        /\ node'[old].ingested = node[old].ingested
    BY <1>1, <1>2, <2>1 DEF Superseded, Row
  <2>3. DOMAIN node' = DOMAIN node \cup {n} /\ \A i \in DOMAIN node \ {old} : node'[i] = node[i]
    BY <1>2 DEF Superseded
  <2> QED BY <2>1, <2>2, <2>3 DEF RowsKept
<1>3. ASSUME NEW n, Created(n)
      PROVE  /\ RowsKept
             /\ \A i \in DOMAIN node : node[i].next # Null => node'[i] = node[i]
  BY <1>3 DEF Created, RowsKept
<1>4. CASE NodesKept
  BY <1>4 DEF NodesKept, RowsKept
<1> QED BY <1>2, <1>3, <1>4, StepKinds

(* The table of nodes stays a table of rows, chain by chain in order, with *)
(* a live head for each chain; every new version has the basis its author  *)
(* had on the screen.                                                      *)
LEMMA NodesPreserved ==
  ASSUME IInv, [Next]_vars
  PROVE  /\ DOMAIN node' \subseteq NodeIds /\ node' \in [DOMAIN node' -> Row]
         /\ fts' = Live'
         /\ Roots' /\ ChainOrder' /\ LiveHeads' /\ NoLostUpdate'
<1> USE DEF Live
<1>1. /\ DOMAIN node \subseteq NodeIds /\ node \in [DOMAIN node -> Row]
      /\ fts = Live /\ Roots /\ ChainOrder /\ LiveHeads /\ NoLostUpdate
      /\ Null \notin NodeIds
  BY NodeAssumption DEF IInv, TypeOK
<1>2. \A i \in DOMAIN node :
        /\ node[i].version \in Nat \ {0} /\ node[i].current \in BOOLEAN
        /\ node[i].occurred \in Int /\ node[i].ingested \in Int
  BY <1>1 DEF Row, Times
<1>3. clock \in Int /\ clock' \in Int /\ clock <= clock'
  BY ClockStep DEF Times
<1>4. ASSUME NEW n \in NodeIds, Created(n)
      PROVE  /\ DOMAIN node' \subseteq NodeIds /\ node' \in [DOMAIN node' -> Row]
             /\ fts' = Live'
             /\ Roots' /\ ChainOrder' /\ LiveHeads' /\ NoLostUpdate'
  <2>1. DOMAIN node' = DOMAIN node \cup {n} /\ n \notin DOMAIN node
    BY <1>4 DEF Created
  <2>2. \A i \in DOMAIN node : node'[i] = node[i]
    BY <1>4 DEF Created
  <2>3. /\ node'[n].logical = n /\ node'[n].version = 1
        /\ node'[n].occurred = clock /\ node'[n].ingested = clock
        /\ node'[n].current /\ node'[n].next = Null
    BY <1>4 DEF Created
  <2>5. node' \in [DOMAIN node' -> Row]
    BY <1>4 DEF Created
  <2>6. fts' = Live'
    BY <1>1, <1>4, <2>1, <2>2, <2>3 DEF Created
  <2>7. Roots'
    BY <1>1, <1>3, <1>4, <2>1, <2>2, <2>3 DEF Roots, Created
  <2>8. \A i \in DOMAIN node : node[i].logical # n
    BY <1>1, <2>1 DEF Roots
  <2>9. ChainOrder'
    BY <1>1, <2>1, <2>2, <2>3, <2>8 DEF ChainOrder
  <2>10. LiveHeads'
    BY <1>1, <2>1, <2>2, <2>3 DEF LiveHeads
  <2>11. NoLostUpdate'
    BY <1>1, <2>1, <2>2, <2>3 DEF NoLostUpdate, Roots
  <2> QED BY <1>1, <2>1, <2>5, <2>6, <2>7, <2>9, <2>10, <2>11
<1>5. ASSUME NEW c \in Clients, NEW n \in NodeIds,
             request[c].at = "save", Superseded(c, request[c].live, n)
      PROVE  /\ DOMAIN node' \subseteq NodeIds /\ node' \in [DOMAIN node' -> Row]
             /\ fts' = Live'
             /\ Roots' /\ ChainOrder' /\ LiveHeads' /\ NoLostUpdate'
  <2> DEFINE old == request[c].live
  <2>1. DOMAIN node' = DOMAIN node \cup {n} /\ n \notin DOMAIN node
    BY <1>5 DEF Superseded
  <2>2. old \in DOMAIN node /\ node[old].current /\ node[old].next = Null
    BY <1>1, <1>5 DEF Superseded, Roots
  <2>3. \A i \in DOMAIN node \ {old} : node'[i] = node[i]
    BY <1>5 DEF Superseded
  <2>4. /\ node'[old].logical = node[old].logical /\ node'[old].version = node[old].version
        /\ node'[old].occurred = node[old].occurred
        /\ node'[old].ingested = node[old].ingested
        /\ node'[old].basis = node[old].basis /\ node'[old].kept = node[old].kept
        /\ ~node'[old].current /\ node'[old].next = n
    <3>1. node'[old] = [node[old] EXCEPT !.current = FALSE, !.next = n] /\ node[old] \in Row
      BY <1>1, <1>5, <2>2 DEF Superseded
    <3> QED BY <3>1 DEF Row
  <2>5. /\ node'[n].logical = node[old].logical
        /\ node'[n].version = node[old].version + 1
        /\ node'[n].occurred = node[old].occurred /\ node'[n].ingested = clock
        /\ node'[n].current /\ node'[n].next = Null
        /\ node'[n].basis = form[c].basis /\ node'[n].kept = form[c].kept
        /\ clock' = clock
    BY <1>5 DEF Superseded
  <2>6. fts' = (fts \ {old}) \cup {n} /\ node' \in [DOMAIN node' -> Row]
    BY <1>5 DEF Superseded
  <2>7. form[c] # Null /\ node[old].logical = node[form[c].id].logical
        /\ node[old].version \in {form[c].expected, 0}
    BY <1>5 DEF IInv, RequestsFit, RequestFits
  <2> HIDE DEF old
  <2>8. form[c].kept \/ form[c].basis = old
    <3>1. form[c].id \in DOMAIN node
      BY <2>7 DEF IInv, TypeOK
    <3>2. form[c].expected = node[form[c].id].version
      BY <2>7 DEF IInv, FormsFit
    <3>3. form[c].id = old
      BY <1>1, <1>2, <2>2, <2>7, <3>1, <3>2 DEF ChainOrder
    <3> QED BY <2>7, <3>3 DEF IInv, FormsFit
  <2>9. fts' = Live'
    BY <1>1, <2>1, <2>2, <2>3, <2>4, <2>5, <2>6
  <2>10. Roots'
    <3>1. ASSUME NEW i \in DOMAIN node
          PROVE  /\ node'[i].logical \in DOMAIN node'
                 /\ node'[node'[i].logical].logical = node'[i].logical
                 /\ node'[i].occurred <= clock' /\ node'[i].ingested <= clock'
                 /\ node'[i].current <=> node'[i].next = Null
                 /\ node'[i].next # Null => node'[i].next \in DOMAIN node'
      BY <1>1, <1>2, <1>3, <2>1, <2>2, <2>3, <2>4, <2>5 DEF Roots
    <3>2. /\ node'[n].logical \in DOMAIN node'
          /\ node'[node'[n].logical].logical = node'[n].logical
      BY <1>1, <2>1, <2>2, <2>3, <2>4, <2>5 DEF Roots
    <3>3. node'[n].occurred <= clock' /\ node'[n].ingested <= clock'
      BY <1>1, <1>3, <2>2, <2>5 DEF Roots
    <3> QED BY <2>1, <2>5, <3>1, <3>2, <3>3 DEF Roots
  <2>11. ChainOrder'
    <3>1. ASSUME NEW i \in DOMAIN node, node[i].logical = node[old].logical
          PROVE  node[i].version < node'[n].version
      BY <1>1, <1>2, <2>2, <2>5, <3>1 DEF ChainOrder
    <3>2. \A i \in DOMAIN node :
            /\ node'[i].logical = node[i].logical
            /\ node'[i].version = node[i].version
      BY <2>3, <2>4
    <3>3. ASSUME NEW i \in DOMAIN node, node[i].logical = node[old].logical
          PROVE  ~node'[i].current
      <4>1. CASE i # old
        <5>1. ~node[i].current
          BY <1>1, <1>2, <2>2, <3>3, <4>1 DEF ChainOrder
        <5> QED BY <2>3, <4>1, <5>1
      <4>2. CASE i = old
        BY <2>4, <4>2
      <4> QED BY <4>1, <4>2
    <3>4. node'[n].version \in Nat
      BY <1>2, <2>2, <2>5
    <3>5. ASSUME NEW i \in DOMAIN node, NEW j \in DOMAIN node,
                 node'[i].logical = node'[j].logical
          PROVE  /\ node'[i].version = node'[j].version => i = j
                 /\ node'[i].version < node'[j].version => ~node'[i].current
      <4>1. node'[i].current => node[i].current
        <5>1. CASE i = old
          BY <2>4, <5>1
        <5>2. CASE i # old
          BY <2>3, <5>2
        <5> QED BY <5>1, <5>2
      <4>2. node[i].logical = node[j].logical
        BY <3>2, <3>5
      <4>3. /\ node[i].version = node[j].version => i = j
            /\ node[i].version < node[j].version => ~node[i].current
        BY <1>1, <4>2 DEF ChainOrder
      <4> QED BY <3>2, <4>1, <4>3
    <3>6. ASSUME NEW i \in DOMAIN node, node'[i].logical = node'[n].logical
          PROVE  node'[i].version < node'[n].version /\ ~node'[i].current
      <4>1. node[i].logical = node[old].logical
        BY <2>5, <3>2, <3>6
      <4>2. node[i].version < node'[n].version
        BY <3>1, <4>1
      <4>3. ~node'[i].current
        BY <3>3, <4>1
      <4> QED BY <3>2, <4>2, <4>3
    <3> QED BY <1>2, <2>1, <3>2, <3>4, <3>5, <3>6 DEF ChainOrder
  <2>12. LiveHeads'
    BY <1>1, <2>1, <2>2, <2>3, <2>4, <2>5 DEF LiveHeads
  <2>13. NoLostUpdate'
    <3>1. ASSUME NEW i \in DOMAIN node \ {old}, node[i].next # Null
          PROVE  node'[node'[i].next].basis = i \/ node'[node'[i].next].kept
      <4>1. node[i].next \in DOMAIN node
        BY <1>1, <3>1 DEF Roots
      <4>2. node[node[i].next].basis = i \/ node[node[i].next].kept
        BY <1>1, <3>1 DEF NoLostUpdate
      <4> QED BY <2>3, <2>4, <4>1, <4>2
    <3>2. node'[n].basis = old \/ node'[n].kept
      BY <2>5, <2>8
    <3> QED BY <2>1, <2>3, <2>4, <2>5, <3>1, <3>2 DEF NoLostUpdate
  <2> QED BY <1>1, <2>1, <2>6, <2>9, <2>10, <2>11, <2>12, <2>13
<1>6. CASE NodesKept
  <2>1. node' = node /\ fts' = fts
    BY <1>6 DEF NodesKept
  <2>2. Roots'
    BY <1>1, <1>2, <1>3, <2>1 DEF Roots
  <2> QED BY <1>1, <2>1, <2>2 DEF ChainOrder, LiveHeads, NoLostUpdate
<1> QED BY <1>4, <1>5, <1>6, StepKinds

-----------------------------------------------------------------------------
(* What a step does to the forms and the requests.                         *)

(* What the invariant says of one client.                                  *)
ClientFits(c) ==
  /\ form[c] \in Form \cup {Null} /\ request[c] \in Request
  /\ form[c] # Null =>
       /\ form[c].id \in DOMAIN node /\ form[c].basis \in DOMAIN node
       /\ form[c].expected = node[form[c].id].version
       /\ form[c].kept \/ form[c].basis = form[c].id
  /\ RequestFits(c)

(* No version is live that is older than the live version was before.      *)
LEMMA HeadsGrow ==
  ASSUME IInv, [Next]_vars, NEW i \in DOMAIN node,
         NEW j \in Head(node[i].logical)'
  PROVE  \E k \in Head(node[i].logical) : node[k].version <= node'[j].version
<1> USE DEF Head, Live
<1>1. /\ node'[i].logical = node[i].logical /\ i \in DOMAIN node'
      /\ \A k \in DOMAIN node : node'[k].logical = node[k].logical
  BY RowsAreKept DEF RowsKept
<1>2. \A k \in DOMAIN node : node[k].version \in Nat /\ node[k] \in Row
  BY DEF IInv, TypeOK, Row
<1>3. ASSUME NEW n \in NodeIds, Created(n)
      PROVE  \E k \in Head(node[i].logical) : node[k].version <= node'[j].version
  <2>1. node[i].logical \in DOMAIN node
    BY DEF IInv, Roots
  <2>2. j \in DOMAIN node' /\ node'[j].logical = node[i].logical /\ node'[j].current
    BY <1>1
  <2>3. j \in DOMAIN node /\ node'[j] = node[j]
    BY <1>3, <2>1, <2>2 DEF Created
  <2> QED BY <1>2, <2>2, <2>3
<1>4. ASSUME NEW c \in Clients, NEW n \in NodeIds, Superseded(c, request[c].live, n)
      PROVE  \E k \in Head(node[i].logical) : node[k].version <= node'[j].version
  <2> DEFINE old == request[c].live
  <2>1. /\ old \in Live /\ node'[n].logical = node[old].logical
        /\ node'[n].version = node[old].version + 1
        /\ DOMAIN node' = DOMAIN node \cup {n}
        /\ \A k \in DOMAIN node \ {old} : node'[k] = node[k]
        /\ node'[old] = [node[old] EXCEPT !.current = FALSE, !.next = n]
    BY <1>4 DEF Superseded
  <2> HIDE DEF old
  <2>2. CASE j = n
    BY <1>2, <2>1, <2>2
  <2>3. CASE j # n
    <3>1. ~node'[old].current
      BY <1>2, <2>1 DEF Row
    <3>2. j \in DOMAIN node' /\ node'[j].logical = node[i].logical /\ node'[j].current
      BY <1>1
    <3>3. j \in DOMAIN node /\ node'[j] = node[j]
      BY <2>1, <2>3, <3>1, <3>2
    <3> QED BY <1>2, <3>2, <3>3
  <2> QED BY <2>2, <2>3
<1>5. CASE NodesKept
  BY <1>2, <1>5 DEF NodesKept
<1> QED BY <1>3, <1>4, <1>5, StepKinds

(* What others do leaves a client's form and request in order.             *)
LEMMA ClientKept ==
  ASSUME IInv, [Next]_vars, NEW c \in Clients,
         form'[c] = form[c], request'[c] = request[c]
  PROVE  ClientFits(c)'
<1>1. ClientFits(c)
  BY DEF IInv, TypeOK, FormsFit, RequestsFit, ClientFits
<1>2. RowsKept
  BY RowsAreKept
<1>3. form[c] # Null =>
        /\ form[c].id \in DOMAIN node' /\ form[c].basis \in DOMAIN node'
        /\ form[c].expected = node'[form[c].id].version
        /\ node'[form[c].id].logical = node[form[c].id].logical
  BY <1>1, <1>2 DEF ClientFits, RowsKept
<1>4. request[c].at = "save" =>
        /\ request[c].live \in DOMAIN node'
        /\ node'[request[c].live].logical = request[c].logical
        /\ node'[request[c].live].version = request[c].expected
  BY <1>1, <1>2 DEF ClientFits, RequestFits, RowsKept
<1>5. ASSUME request[c].at = "conflict", NEW j \in Head(request[c].logical)'
      PROVE  request[c].expected < node'[j].version
  <2>1. /\ form[c].id \in DOMAIN node /\ request[c].logical = node[form[c].id].logical
        /\ \A k \in Head(request[c].logical) : request[c].expected < node[k].version
        /\ request[c].expected \in Nat
    BY <1>1, <1>5 DEF ClientFits, RequestFits, Request
  <2>2. PICK k \in Head(request[c].logical) : node[k].version <= node'[j].version
    <3>1. j \in Head(node[form[c].id].logical)'
      BY <1>2, <1>5, <2>1 DEF RowsKept, Head
    <3> QED BY <2>1, <3>1, HeadsGrow
  <2>3. k \in DOMAIN node /\ j \in DOMAIN node'
    BY <1>5 DEF Head, Live
  <2>4. node[k].version \in Nat /\ node'[j].version \in Nat
    BY <2>3, NodesPreserved DEF IInv, TypeOK, Row
  <2> QED BY <2>1, <2>2, <2>4
<1>6. RequestFits(c)'
  <2>1. /\ request[c].at \in {"post", "save", "conflict"} =>
            /\ form[c] # Null
            /\ request[c].logical = node'[form[c].id].logical
            /\ request[c].expected \in {form[c].expected, 0}
    BY <1>1, <1>3 DEF ClientFits, RequestFits
  <2> QED BY <1>4, <1>5, <2>1 DEF RequestFits
<1> QED BY <1>1, <1>3, <1>6 DEF ClientFits

(* A form rendered from a version names it.                                *)
LEMMA FormForFits ==
  ASSUME IInv, NEW j \in DOMAIN node
  PROVE  /\ FormFor(j) \in Form /\ FormFor(j) # Null
         /\ FormFor(j).id = j /\ FormFor(j).basis = j
         /\ FormFor(j).expected = node[j].version /\ ~FormFor(j).kept
<1>1. j \in NodeIds /\ node[j].version \in Nat
  BY DEF IInv, TypeOK, Row
<1>2. FormFor(j) \in Form
  BY <1>1 DEF FormFor, Form
<1>3. FormFor(j) # Null
  BY <1>2, NodeAssumption
<1> QED BY <1>2, <1>3 DEF FormFor

(* Idle is a request like the others.                                      *)
LEMMA IdleIsRequest == Idle \in Request /\ Idle.at = "idle"
BY DEF Idle, Request

(* Whoever acts, every client's form and request stay in order.            *)
LEMMA ClientPreserved ==
  ASSUME IInv, [Next]_vars, NEW d \in Clients
  PROVE  ClientFits(d)'
<1>1. /\ form \in [Clients -> Form \cup {Null}]
      /\ request \in [Clients -> Request]
      /\ ClientFits(d)
  BY DEF IInv, TypeOK, FormsFit, RequestsFit, ClientFits
<1>2. ASSUME form' = form, request' = request PROVE ClientFits(d)'
  BY <1>2, ClientKept
<1>3. \A n \in NodeIds : CreateNode(n) => ClientFits(d)'
  BY <1>2 DEF CreateNode
<1>4. CASE Tick \/ UNCHANGED vars
  BY <1>2, <1>4 DEF Tick, vars
<1>5. ASSUME NEW c \in Clients, NEW id \in NodeIds, OpenForm(c, id) PROVE ClientFits(d)'
  <2>1. CASE d # c
    BY <1>1, <1>5, <2>1, ClientKept DEF OpenForm
  <2>2. CASE d = c
    <3>1. /\ node' = node /\ form' = form /\ id \in DOMAIN node
          /\ request'[d] = [Idle EXCEPT !.at = "edit", !.logical = node[id].logical]
      BY <1>1, <1>5, <2>2 DEF OpenForm
    <3>2. node[id].logical \in NodeIds
      BY <3>1 DEF IInv, TypeOK, Row
    <3>3. request'[d] = [at |-> "edit", logical |-> node[id].logical, live |-> Null,
                         expected |-> 0, blank |-> FALSE]
      BY <3>1 DEF Idle
    <3>4. request'[d] \in Request /\ request'[d].at = "edit"
      BY <3>2, <3>3 DEF Request
    <3> QED BY <1>1, <3>1, <3>4 DEF ClientFits, RequestFits
  <2> QED BY <2>1, <2>2
<1>6. ASSUME NEW c \in Clients, RenderForm(c) \/ RenderConflict(c) PROVE ClientFits(d)'
  <2>1. PICK j \in DOMAIN node : /\ form' = [form EXCEPT ![c] = FormFor(j)]
                                 /\ request' = [request EXCEPT ![c] = Idle]
                                 /\ node' = node
    BY <1>6 DEF RenderForm, RenderConflict, Head, Live
  <2>2. CASE d # c
    BY <1>1, <2>1, <2>2, ClientKept
  <2>3. CASE d = c
    <3>1. form'[d] = FormFor(j) /\ request'[d] = Idle
      BY <1>1, <2>1, <2>3
    <3>2. /\ form'[d] \in Form /\ form'[d].id = j /\ form'[d].basis = j
          /\ form'[d].expected = node'[j].version /\ j \in DOMAIN node'
      BY <2>1, <3>1, FormForFits
    <3> QED BY <3>1, <3>2, IdleIsRequest, FormForFits DEF ClientFits, RequestFits
  <2> QED BY <2>2, <2>3
<1>7. ASSUME NEW c \in Clients, Fail(c) PROVE ClientFits(d)'
  <2>1. form' = form /\ node' = node /\ request' = [request EXCEPT ![c] = Idle]
    BY <1>7 DEF Fail
  <2>2. CASE d # c
    BY <1>1, <2>1, <2>2, ClientKept
  <2>3. CASE d = c
    <3>1. request'[d] = Idle
      BY <1>1, <2>1, <2>3
    <3> QED BY <1>1, <2>1, <3>1, IdleIsRequest DEF ClientFits, RequestFits
  <2> QED BY <2>2, <2>3
<1>8. ASSUME NEW c \in Clients, NEW v \in Nat, NEW blank \in BOOLEAN, Submit(c, v, blank)
      PROVE  ClientFits(d)'
  <2>1. CASE d # c
    BY <1>1, <1>8, <2>1, ClientKept DEF Submit
  <2>2. CASE d = c
    <3>1. /\ node' = node /\ form' = form /\ form[d] # Null /\ v \in {form[d].expected, 0}
          /\ request'[d] = [at |-> "post", logical |-> node[form[d].id].logical,
                            live |-> Null, expected |-> v, blank |-> blank]
      BY <1>1, <1>8, <2>2 DEF Submit
    <3>2. node[form[d].id].logical \in NodeIds
      BY <1>1, <3>1 DEF ClientFits, IInv, TypeOK, Row
    <3>3. /\ request'[d] \in Request /\ request'[d].at = "post"
          /\ request'[d].logical = node[form[d].id].logical
          /\ request'[d].expected = v
      BY <3>1, <3>2 DEF Request
    <3> QED BY <1>1, <3>1, <3>3 DEF ClientFits, RequestFits
  <2> QED BY <2>1, <2>2
<1>9. ASSUME NEW c \in Clients, ReadLive(c) PROVE ClientFits(d)'
  <2>1. CASE d # c
    BY <1>1, <1>9, <2>1, ClientKept DEF ReadLive
  <2>2. CASE d = c
    <3> DEFINE r == request[d]
    <3>1. r \in Request /\ r.at = "post" /\ node' = node
      BY <1>1, <1>9, <2>2 DEF ReadLive
    <3>2. /\ form[d] # Null /\ form[d] \in Form /\ form[d].id \in DOMAIN node
          /\ form[d].basis \in DOMAIN node
          /\ r.logical = node[form[d].id].logical
          /\ r.expected \in {form[d].expected, 0}
          /\ form[d].expected = node[form[d].id].version
          /\ form[d].kept \/ form[d].basis = form[d].id
      BY <1>1, <3>1 DEF ClientFits, RequestFits
    <3>3. PICK j \in Head(r.logical) :
            \/ /\ form' = [form EXCEPT ![d].id = j, ![d].expected = node[j].version,
                                       ![d].kept = TRUE]
               /\ request' = [request EXCEPT ![d] = Idle]
            \/ /\ r.expected # node[j].version
               /\ request' = [request EXCEPT ![d].at = "conflict"]
               /\ form' = form
            \/ /\ r.expected = node[j].version
               /\ request' = [request EXCEPT ![d].at = "save", ![d].live = j]
               /\ form' = form
      BY <1>9, <2>2 DEF ReadLive
    <3>4. /\ j \in DOMAIN node /\ j \in NodeIds /\ node[j].current
          /\ node[j].logical = r.logical /\ node[j].version \in Nat \ {0}
      BY <3>3 DEF Head, Live, IInv, TypeOK, Row
    <3>5. CASE /\ form' = [form EXCEPT ![d].id = j, ![d].expected = node[j].version,
                                      ![d].kept = TRUE]
               /\ request' = [request EXCEPT ![d] = Idle]
      <4>1. /\ form'[d] = [form[d] EXCEPT !.id = j, !.expected = node[j].version, !.kept = TRUE]
            /\ request'[d] = Idle
        BY <1>1, <3>5
      <4>2. /\ form'[d] \in Form /\ form'[d].id = j /\ form'[d].expected = node[j].version
            /\ form'[d].kept /\ form'[d].basis = form[d].basis
        BY <3>2, <3>4, <4>1 DEF Form
      <4> QED BY <3>1, <3>2, <3>4, <4>1, <4>2, IdleIsRequest DEF ClientFits, RequestFits
    <3>6. CASE /\ r.expected # node[j].version
               /\ request' = [request EXCEPT ![d].at = "conflict"]
               /\ form' = form
      <4>1. request'[d] = [r EXCEPT !.at = "conflict"]
        BY <1>1, <3>6
      <4>2. /\ request'[d] \in Request /\ request'[d].at = "conflict"
            /\ request'[d].logical = r.logical /\ request'[d].expected = r.expected
        BY <3>1, <4>1 DEF Request
      <4>3. \A k \in DOMAIN node : node[k].version \in Nat
        BY DEF IInv, TypeOK, Row
      <4>4. \A k \in DOMAIN node : node[k].logical = node[j].logical =>
              node[k].version <= node[j].version /\ (node[k].current => k = j)
        BY <3>4, <4>3 DEF IInv, ChainOrder
      <4>5. \A k \in Head(r.logical) : k = j
        BY <3>4, <4>4 DEF Head, Live
      <4>6. r.expected < node[j].version
        <5>1. node[form[d].id].version <= node[j].version /\ node[form[d].id].version \in Nat
          BY <3>2, <3>4, <4>3, <4>4
        <5> QED BY <3>2, <3>4, <3>6, <5>1
      <4>7. \A l : Head(l)' = Head(l)
        BY <3>1 DEF Head, Live
      <4> QED BY <1>1, <3>1, <3>2, <3>6, <4>2, <4>5, <4>6, <4>7 DEF ClientFits, RequestFits
    <3>7. CASE /\ r.expected = node[j].version
               /\ request' = [request EXCEPT ![d].at = "save", ![d].live = j]
               /\ form' = form
      <4>1. request'[d] = [r EXCEPT !.at = "save", !.live = j]
        BY <1>1, <3>7
      <4>2. /\ request'[d] \in Request /\ request'[d].at = "save" /\ request'[d].live = j
            /\ request'[d].logical = r.logical /\ request'[d].expected = r.expected
        BY <3>1, <3>4, <4>1 DEF Request
      <4> QED BY <1>1, <3>1, <3>2, <3>4, <3>7, <4>2 DEF ClientFits, RequestFits
    <3> QED BY <3>3, <3>5, <3>6, <3>7
  <2> QED BY <2>1, <2>2
<1>10. ASSUME NEW c \in Clients, NEW n \in NodeIds, Save(c, n) PROVE ClientFits(d)'
  <2>1. CASE d # c
    BY <1>1, <1>10, <2>1, ClientKept DEF Save
  <2>2. CASE d = c /\ MaySupersede(request[c].live, request[c].expected)
    <3>1. request'[d] = Idle /\ form'[d] = form[d]
      BY <1>1, <1>10, <2>2, SaveSupersedes DEF Superseded
    <3>2. form[d] # Null =>
            /\ form[d].id \in DOMAIN node' /\ form[d].basis \in DOMAIN node'
            /\ form[d].expected = node'[form[d].id].version
      BY <1>1, RowsAreKept DEF ClientFits, RowsKept
    <3> QED BY <1>1, <3>1, <3>2, IdleIsRequest DEF ClientFits, RequestFits
  <2>3. CASE d = c /\ ~MaySupersede(request[c].live, request[c].expected)
    <3> DEFINE r == request[d]
    <3>1. /\ r.at = "save" /\ node' = node /\ form' = form
          /\ request' = [request EXCEPT ![d].at = "conflict"]
      BY <1>10, <2>3 DEF Save
    <3>2. /\ form[d] # Null /\ r \in Request
          /\ r.logical = node[form[d].id].logical
          /\ r.expected \in {form[d].expected, 0}
          /\ r.live \in DOMAIN node /\ node[r.live].logical = r.logical
          /\ node[r.live].version = r.expected
      BY <1>1, <3>1 DEF ClientFits, RequestFits
    <3>3. request'[d] = [r EXCEPT !.at = "conflict"]
      BY <1>1, <3>1
    <3>4. /\ request'[d] \in Request /\ request'[d].at = "conflict"
          /\ request'[d].logical = r.logical /\ request'[d].expected = r.expected
      BY <3>2, <3>3 DEF Request
    <3>5. r.live \notin Live
      BY <2>3, <3>2 DEF MaySupersede
    <3>6. ASSUME NEW k \in Head(r.logical) PROVE r.expected < node[k].version
      <4>1. /\ k \in DOMAIN node /\ node[k].current /\ node[k].logical = r.logical
            /\ k # r.live
        BY <3>5 DEF Head, Live
      <4>2. node[k].version \in Nat /\ node[r.live].version \in Nat
        BY <3>2, <4>1 DEF IInv, TypeOK, Row
      <4> QED BY <3>2, <4>1, <4>2 DEF IInv, ChainOrder
    <3>7. \A l : Head(l)' = Head(l)
      BY <3>1 DEF Head, Live
    <3> QED BY <1>1, <3>1, <3>2, <3>4, <3>6, <3>7 DEF ClientFits, RequestFits
  <2> QED BY <2>1, <2>2, <2>3
<1>11. \A v \in 0 .. Cardinality(NodeIds) : v \in Nat
  OBVIOUS
<1> QED
  BY <1>3, <1>4, <1>5, <1>6, <1>7, <1>8, <1>9, <1>10, <1>11 DEF Next, Handle

-----------------------------------------------------------------------------
(* The invariant holds.                                                    *)

(* The invariant holds of an empty server.                                 *)
LEMMA InvariantInit == Init => IInv
<1> SUFFICES ASSUME Init PROVE IInv
  OBVIOUS
<1>1. DOMAIN node = {} /\ Live = {} /\ fts = {}
  BY DEF Init, Live
<1>2. TypeOK
  BY <1>1, IdleIsRequest, NodeAssumption DEF Init, TypeOK, Times
<1>3. FormsFit /\ RequestsFit
  BY IdleIsRequest DEF Init, FormsFit, RequestsFit, RequestFits
<1> QED
  BY <1>1, <1>2, <1>3 DEF IInv, Roots, ChainOrder, LiveHeads, NoLostUpdate

(* No step of a request or of a user breaks it.                            *)
LEMMA InvariantNext == IInv /\ [Next]_vars => IInv'
<1> SUFFICES ASSUME IInv, [Next]_vars PROVE IInv'
  OBVIOUS
<1>1. \A c \in Clients : ClientFits(c)'
  BY ClientPreserved
<1>2. form' = [c \in Clients |-> form'[c]] /\ request' = [c \in Clients |-> request'[c]]
  <2>1. form = [c \in Clients |-> form[c]] /\ request = [c \in Clients |-> request[c]]
    BY DEF IInv, TypeOK
  <2> QED
    BY <2>1, ZenonT(60) DEF Next, Handle, Tick, CreateNode, OpenForm, RenderForm, Submit, ReadLive,
                Save, RenderConflict, Fail, vars
<1>3. /\ form' \in [Clients -> Form \cup {Null}] /\ request' \in [Clients -> Request]
      /\ FormsFit' /\ RequestsFit'
      /\ \A c \in Clients : form'[c] # Null => {form'[c].id, form'[c].basis} \subseteq DOMAIN node'
  BY <1>1, <1>2 DEF ClientFits, FormsFit, RequestsFit
<1>4. TypeOK'
  <2>1. Live' \subseteq NodeIds
    BY NodesPreserved DEF Live
  <2> QED BY <1>3, <2>1, NodesPreserved, ClockStep DEF TypeOK
<1> QED BY <1>3, <1>4, NodesPreserved DEF IInv

(* So it holds in every state.                                             *)
LEMMA Invariance == Spec => []IInv
BY InvariantInit, InvariantNext, PTL DEF Spec

(* Rows, forms and requests keep their types (nodes.go:67).                *)
THEOREM NodeTypeCorrect == Spec => []TypeOK
<1>1. IInv => TypeOK
  BY DEF IInv
<1> QED BY <1>1, Invariance, PTL

(* nodes.go:222: each chain has one live head, which is what search finds. *)
THEOREM NodesNeverFork == Spec => []OneHead
<1>1. ASSUME IInv PROVE OneHead
  <2>1. ASSUME NEW i \in DOMAIN node PROVE \E j \in Live : Head(node[i].logical) = {j}
    <3>1. PICK j \in DOMAIN node : node[j].current /\ node[j].logical = node[i].logical
      BY <1>1 DEF IInv, LiveHeads
    <3>2. \A k \in DOMAIN node : node[k].version \in Nat
      BY <1>1 DEF IInv, TypeOK, Row
    <3>3. \A k \in Head(node[i].logical) : k = j
      BY <1>1, <3>1, <3>2 DEF IInv, ChainOrder, Head, Live
    <3> QED BY <3>1, <3>3 DEF Head, Live
  <2> QED BY <1>1, <2>1 DEF IInv, OneHead
<1> QED BY <1>1, Invariance, PTL

(* handlers_node_write.go:139: an edit replaces the version its author had *)
(* in the form, unless an input error re-rendered the form.                *)
THEOREM NoUpdateIsLost == Spec => []NoLostUpdate
<1>1. IInv => NoLostUpdate
  BY DEF IInv
<1> QED BY <1>1, Invariance, PTL

(* handlers_node_write.go:143: a conflict is reported only while the live  *)
(* version differs from the one the form names.                            *)
THEOREM ConflictsAreReal == Spec => []ConflictIsReal
<1>1. ASSUME IInv PROVE ConflictIsReal
  <2> SUFFICES ASSUME NEW c \in Clients, request[c].at = "conflict",
                      NEW j \in Head(request[c].logical)
               PROVE  node[j].version # request[c].expected
    BY DEF ConflictIsReal
  <2>1. request[c].expected < node[j].version
    BY <1>1 DEF IInv, RequestsFit, RequestFits
  <2>2. node[j].version \in Nat /\ request[c].expected \in Nat
    BY <1>1 DEF IInv, TypeOK, Row, Request, Head, Live
  <2> QED BY <2>1, <2>2
<1> QED BY <1>1, Invariance, PTL

-----------------------------------------------------------------------------
(* The past.                                                               *)

(* What ListNodesAt says of an instant before now does not depend on what  *)
(* is written now.                                                         *)
LEMMA PastUntouched ==
  ASSUME IInv, [Next]_vars, NEW t \in Nat, t < clock
  PROVE  NodesAt(t)' = NodesAt(t)
<1>1. /\ clock \in Nat
      /\ \A i \in DOMAIN node :
           /\ node[i].ingested \in Nat /\ node[i].occurred \in Nat
           /\ node[i].next # Null => node[i].next \in DOMAIN node
  BY DEF IInv, TypeOK, Row, Times, Roots
<1>2. ASSUME NEW n \in NodeIds, Created(n) PROVE NodesAt(t)' = NodesAt(t)
  <2>1. /\ DOMAIN node' = DOMAIN node \cup {n} /\ node'[n].ingested = clock
        /\ \A i \in DOMAIN node : node'[i] = node[i]
    BY <1>2 DEF Created
  <2>2. \A i \in NodesAt(t)' : i \in DOMAIN node
    BY <1>1, <2>1 DEF NodesAt
  <2> QED BY <1>1, <2>1, <2>2 DEF NodesAt
<1>3. ASSUME NEW c \in Clients, NEW n \in NodeIds, Superseded(c, request[c].live, n)
      PROVE  NodesAt(t)' = NodesAt(t)
  <2> DEFINE old == request[c].live
  <2>1. /\ DOMAIN node' = DOMAIN node \cup {n} /\ node'[n].ingested = clock
        /\ \A i \in DOMAIN node \ {old} : node'[i] = node[i]
        /\ old \in DOMAIN node /\ node[old].current /\ node[old] \in Row
        /\ node'[old] = [node[old] EXCEPT !.current = FALSE, !.next = n]
    BY <1>3 DEF Superseded, Live, IInv, TypeOK
  <2> HIDE DEF old
  <2>2. /\ node[old].next = Null /\ node'[old].next = n
        /\ node'[old].ingested = node[old].ingested
        /\ node'[old].occurred = node[old].occurred
    BY <2>1 DEF IInv, Roots, Row
  <2>3. \A i \in DOMAIN node : node'[i].ingested = node[i].ingested
    BY <2>1, <2>2
  <2>4. ~(node'[n].ingested <= t)
    BY <1>1, <2>1
  <2>5. old \in NodesAt(t)' <=> old \in NodesAt(t)
    BY <1>1, <2>1, <2>2 DEF NodesAt
  <2>6. ASSUME NEW i \in DOMAIN node \ {old}
        PROVE  i \in NodesAt(t)' <=> i \in NodesAt(t)
    <3>1. node[i].next # Null => node[i].next \in DOMAIN node
      BY <1>1
    <3> QED BY <2>1, <2>3, <3>1 DEF NodesAt
  <2>7. NodesAt(t)' \subseteq DOMAIN node /\ NodesAt(t) \subseteq DOMAIN node
    BY <2>1, <2>4 DEF NodesAt
  <2> QED BY <2>5, <2>6, <2>7
<1>4. CASE NodesKept
  BY <1>4 DEF NodesKept, NodesAt
<1> QED BY <1>2, <1>3, <1>4, StepKinds

(* nodes.go:200: nodes are stamped inside their transaction, so the nodes  *)
(* as of an instant that is over never change, and as of now they are the  *)
(* live ones.                                                              *)
THEOREM PastNodesFixed == Spec => PastNodesAreFixed
<1>1. ASSUME IInv, IInv', [Next]_vars PROVE [NodePastStep]_vars
  <2>1. (NodesAt(clock) = Live)'
    <3>1. /\ clock' \in Nat
          /\ \A i \in DOMAIN node' :
               /\ node'[i].ingested <= clock' /\ node'[i].occurred <= clock'
               /\ node'[i].ingested \in Nat
               /\ node'[i].current <=> node'[i].next = Null
               /\ node'[i].next # Null => node'[i].next \in DOMAIN node'
      BY <1>1 DEF IInv, TypeOK, Row, Times, Roots
    <3>2. \A i \in DOMAIN node' : i \in NodesAt(clock)' <=> node'[i].next = Null
      BY <3>1 DEF NodesAt
    <3> QED BY <3>1, <3>2 DEF NodesAt, Live
  <2>2. ASSUME NEW t \in 0 .. clock' - 1 PROVE NodesAt(t)' = NodesAt(t)
    <3>1. t \in Nat /\ clock \in Nat /\ clock' \in Nat /\ t < clock'
      BY <1>1, <2>2, ClockStep DEF Times
    <3>2. CASE t < clock
      BY <1>1, <3>1, <3>2, PastUntouched
    <3>3. CASE clock' # clock
      <4>1. Tick
        BY <1>1, <3>3 DEF Next, Handle, CreateNode, OpenForm, RenderForm, Submit, ReadLive,
                          Save, RenderConflict, Fail, vars
      <4>2. node' = node
        BY <4>1 DEF Tick
      <4> QED BY <4>2 DEF NodesAt
    <3> QED BY <3>1, <3>2, <3>3
  <2> QED BY <2>1, <2>2 DEF NodePastStep
<1> QED BY <1>1, Invariance, PTL DEF Spec, PastNodesAreFixed

-----------------------------------------------------------------------------
(* The nodes are versioned registers.                                      *)

(* What the refinement makes of the tables: the version of every node, and *)
(* what every form claims to have seen.                                    *)
Versions == [l \in Heads |-> node[CHOOSE j \in Live : node[j].logical = l].version]

Tickets == [c \in Clients |->
              IF form[c] = Null THEN Null
              ELSE [key |-> node[form[c].id].logical, version |-> form[c].expected]]

(* The version of a node is that of its live row, and every node has one.  *)
LEMMA VersionsOfLive ==
  IInv => /\ \A j \in Live : /\ node[j].logical \in Heads
                             /\ Versions[node[j].logical] = node[j].version
          /\ \A l \in Heads : \E j \in Live : node[j].logical = l
<1> SUFFICES ASSUME IInv
             PROVE  /\ \A j \in Live : /\ node[j].logical \in Heads
                                       /\ Versions[node[j].logical] = node[j].version
                    /\ \A l \in Heads : \E j \in Live : node[j].logical = l
  OBVIOUS
<1>1. ASSUME NEW j \in Live
      PROVE  node[j].logical \in Heads /\ Versions[node[j].logical] = node[j].version
  <2>1. j \in DOMAIN node /\ node[j].current
    BY DEF Live
  <2>2. \A k \in DOMAIN node : node[k].version \in Nat
    BY DEF IInv, TypeOK, Row
  <2>3. \A k \in Live : node[k].logical = node[j].logical => k = j
    BY <2>1, <2>2 DEF IInv, ChainOrder, Live
  <2>4. (CHOOSE k \in Live : node[k].logical = node[j].logical) = j
    BY <2>3
  <2>5. node[j].logical \in Heads
    BY <2>1 DEF IInv, Roots, Heads
  <2> QED BY <2>4, <2>5 DEF Versions
<1>2. \A l \in Heads : \E j \in Live : node[j].logical = l
  BY DEF IInv, LiveHeads, Heads, Live
<1> QED BY <1>1, <1>2

(* A new node is a new register.                                           *)
LEMMA CreatedIsCreate ==
  ASSUME IInv, IInv', [Next]_vars, NEW n \in NodeIds, Created(n)
  PROVE  /\ n \notin DOMAIN Versions
         /\ Versions' = [l \in DOMAIN Versions \cup {n} |-> IF l = n THEN 1 ELSE Versions[l]]
<1>1. /\ n \notin DOMAIN node /\ DOMAIN node' = DOMAIN node \cup {n}
      /\ \A i \in DOMAIN node : node'[i] = node[i]
      /\ node'[n].logical = n /\ node'[n].version = 1 /\ node'[n].current
  BY DEF Created
<1>2. Heads' = Heads \cup {n} /\ n \notin Heads
  BY <1>1 DEF Heads
<1>3. (\A j \in Live : /\ node[j].logical \in Heads
                       /\ Versions[node[j].logical] = node[j].version)'
  BY VersionsOfLive, PTL
<1>4. Versions'[n] = 1
  BY <1>1, <1>3 DEF Live
<1>5. ASSUME NEW l \in Heads PROVE Versions'[l] = Versions[l]
  <2>1. PICK j \in Live : node[j].logical = l
    BY VersionsOfLive
  <2>2. j \in Live' /\ node'[j] = node[j]
    BY <1>1 DEF Live
  <2> QED BY <1>3, <2>1, <2>2, VersionsOfLive
<1>6. DOMAIN Versions = Heads /\ Versions' = [l \in Heads' |-> Versions'[l]]
  BY DEF Versions
<1> QED BY <1>2, <1>4, <1>5, <1>6

(* A superseded node is a write to its register.                           *)
LEMMA SupersededIsWrite ==
  ASSUME IInv, IInv', [Next]_vars,
         NEW c \in Clients, NEW old, NEW n \in NodeIds, Superseded(c, old, n)
  PROVE  /\ node[old].logical \in DOMAIN Versions
         /\ Versions[node[old].logical] = node[old].version
         /\ Versions' = [Versions EXCEPT ![node[old].logical] = @ + 1]
<1> DEFINE k == node[old].logical
<1>1. /\ n \notin DOMAIN node /\ DOMAIN node' = DOMAIN node \cup {n}
      /\ old \in Live /\ old \in DOMAIN node
      /\ \A i \in DOMAIN node \ {old} : node'[i] = node[i]
      /\ node'[n].logical = k /\ node'[n].version = node[old].version + 1
      /\ node'[n].current
  BY DEF Superseded, Live
<1>2. \A i \in DOMAIN node : node'[i].logical = node[i].logical
  BY RowsAreKept DEF RowsKept
<1>3. Heads' = Heads
  <2>1. k \in DOMAIN node
    BY <1>1 DEF IInv, Roots
  <2> QED BY <1>1, <1>2, <2>1 DEF Heads
<1>4. /\ \A j \in Live : /\ node[j].logical \in Heads
                         /\ Versions[node[j].logical] = node[j].version
      /\ \A l \in Heads : \E j \in Live : node[j].logical = l
  BY VersionsOfLive
<1>5. (\A j \in Live : /\ node[j].logical \in Heads
                       /\ Versions[node[j].logical] = node[j].version)'
  BY VersionsOfLive, PTL
<1> HIDE DEF k
<1>6. k \in Heads /\ Versions[k] = node[old].version
  BY <1>1, <1>4 DEF k
<1>7. Versions'[k] = Versions[k] + 1
  BY <1>1, <1>5, <1>6 DEF Live
<1>8. ASSUME NEW l \in Heads, l # k PROVE Versions'[l] = Versions[l]
  <2>1. PICK j \in Live : node[j].logical = l
    BY <1>4
  <2>2. j \in Live' /\ node'[j] = node[j]
    BY <1>1, <1>8, <2>1 DEF Live, k
  <2> QED BY <1>4, <1>5, <2>1, <2>2
<1>9. /\ DOMAIN Versions = Heads /\ Versions = [l \in Heads |-> Versions[l]]
      /\ Versions' = [l \in Heads' |-> Versions'[l]]
  BY DEF Versions
<1> QED BY <1>3, <1>6, <1>7, <1>8, <1>9 DEF k

(* Forms that stay on the screen keep their tickets.                       *)
LEMMA TicketsKept ==
  ASSUME IInv, [Next]_vars, form' = form
  PROVE  Tickets' = Tickets
<1>1. \A c \in Clients : form[c] # Null => node'[form[c].id].logical = node[form[c].id].logical
  BY RowsAreKept DEF RowsKept, IInv, TypeOK
<1> QED BY <1>1 DEF Tickets

(* A form rendered from a live version is a look at its register.          *)
LEMMA RenderingIsLook ==
  ASSUME IInv, node' = node, NEW c \in Clients, NEW j \in Live, NEW f \in Form,
         form' = [form EXCEPT ![c] = f], f.id = j, f.expected = node[j].version
  PROVE  Register!Look(c, node[j].logical)
<1>1. /\ node[j].logical \in DOMAIN Versions
      /\ Versions[node[j].logical] = node[j].version
  BY VersionsOfLive DEF Versions
<1>2. Versions' = Versions
  BY DEF Versions, Heads, Live
<1>3. form' = [d \in Clients |-> IF d = c THEN f ELSE form[d]] /\ f # Null
  BY NodeAssumption DEF IInv, TypeOK
<1>4. Tickets' = [Tickets EXCEPT ![c] = [key |-> node[j].logical, version |-> node[j].version]]
  BY <1>3 DEF Tickets
<1> QED BY <1>1, <1>2, <1>4 DEF Register!Look, Versions, Tickets

(* Edits are compare-and-swap on a node's version: NodeEdit implements     *)
(* VersionedRegister (handlers_node_write.go:212).                         *)
THEOREM EditsSwap == Spec => EditsAreCompareAndSwap
<1>1. Init => Register!Init
  <2> SUFFICES ASSUME Init PROVE Register!Init
    OBVIOUS
  <2>1. Heads = {}
    BY DEF Init, Heads
  <2>2. \A c \in Clients : form[c] = Null
    BY DEF Init
  <2> QED BY <2>1, <2>2 DEF Register!Init
<1>2. ASSUME IInv, IInv', [Next]_vars PROVE [Register!Next]_(Register!vars)
  <2>1. ASSUME node' = node, form' = form PROVE UNCHANGED Register!vars
    BY <2>1 DEF Register!vars, Heads, Live
  <2>2. ASSUME NEW n \in NodeIds, Created(n) PROVE Register!Create(n)
    <3>1. Tickets' = Tickets
      BY <1>2, <2>2, TicketsKept DEF Created
    <3> QED BY <1>2, <2>2, <3>1, CreatedIsCreate DEF Register!Create, Versions, Tickets
  <2>3. ASSUME NEW c \in Clients, NEW n \in NodeIds, Save(c, n),
               MaySupersede(request[c].live, request[c].expected)
        PROVE  Register!Write(c)
    <3> DEFINE old == request[c].live
    <3>1. request[c].at = "save" /\ Superseded(c, old, n)
      BY <1>2, <2>3, SaveSupersedes
    <3>2. Tickets' = Tickets
      BY <1>2, <3>1, TicketsKept DEF Superseded
    <3>3. /\ form[c] # Null /\ node[form[c].id].logical = node[old].logical
          /\ node[old].version \in {form[c].expected, 0}
          /\ old \in DOMAIN node
      BY <1>2, <3>1 DEF IInv, RequestsFit, RequestFits
    <3>4. /\ form[c].id \in DOMAIN node /\ form[c] \in Form
          /\ \A i \in DOMAIN node : node[i] \in Row
      BY <1>2, <3>3 DEF IInv, TypeOK
    <3>5. /\ form[c].expected = node[old].version
          /\ [key |-> node[old].logical, version |-> form[c].expected]
               \in [key : NodeIds, version : Nat]
      BY <3>3, <3>4 DEF Row, Form
    <3>6. Tickets[c] # Null /\ Tickets[c].key = node[old].logical
          /\ Tickets[c].version = node[old].version
      BY <3>3, <3>5, NodeAssumption DEF Tickets
    <3>7. /\ node[old].logical \in DOMAIN Versions
          /\ Versions[node[old].logical] = node[old].version
          /\ Versions' = [Versions EXCEPT ![node[old].logical] = @ + 1]
      BY <1>2, <3>1, SupersededIsWrite
    <3> QED BY <3>2, <3>6, <3>7 DEF Register!Write, Versions, Tickets
  <2>4. ASSUME NEW c \in Clients, RenderForm(c) \/ RenderConflict(c)
        PROVE  \E k \in NodeIds : Register!Look(c, k)
    <3>1. PICK j \in Live : form' = [form EXCEPT ![c] = FormFor(j)] /\ node' = node
      BY <2>4 DEF RenderForm, RenderConflict, Head
    <3>2. j \in DOMAIN node /\ node[j].logical \in NodeIds
      BY <1>2 DEF Live, IInv, TypeOK, Row
    <3>3. /\ FormFor(j) \in Form /\ FormFor(j).id = j
          /\ FormFor(j).expected = node[j].version
      BY <1>2, <3>2, FormForFits
    <3>4. Register!Look(c, node[j].logical)
      BY <1>2, <3>1, <3>3, RenderingIsLook
    <3> QED BY <3>2, <3>4 DEF Register!Look
  <2>5. ASSUME NEW c \in Clients, ReadLive(c)
        PROVE  (node' = node /\ form' = form) \/ \E k \in NodeIds : Register!Look(c, k)
    <3> SUFFICES ASSUME ~(form' = form) PROVE \E k \in NodeIds : Register!Look(c, k)
      BY <2>5 DEF ReadLive
    <3>1. PICK j \in Live :
            form' = [form EXCEPT ![c].id = j, ![c].expected = node[j].version, ![c].kept = TRUE]
      BY <2>5 DEF ReadLive, Head
    <3>2. node' = node /\ request[c].at = "post"
      BY <2>5 DEF ReadLive
    <3>3. /\ form[c] \in Form /\ form \in [Clients -> Form \cup {Null}]
          /\ j \in NodeIds /\ node[j].version \in Nat /\ node[j].logical \in NodeIds
      BY <1>2, <3>2 DEF IInv, TypeOK, RequestsFit, RequestFits, Live, Row
    <3> DEFINE f == [form[c] EXCEPT !.id = j, !.expected = node[j].version, !.kept = TRUE]
    <3>4. form' = [form EXCEPT ![c] = f]
      BY <3>1, <3>3
    <3>5. f \in Form /\ f.id = j /\ f.expected = node[j].version
      BY <3>3 DEF Form
    <3> HIDE DEF f
    <3>6. Register!Look(c, node[j].logical)
      BY <1>2, <3>2, <3>4, <3>5, RenderingIsLook
    <3> QED BY <3>3, <3>6 DEF Register!Look
  <2>6. ASSUME NEW c \in Clients, NEW n \in NodeIds, Save(c, n),
               ~MaySupersede(request[c].live, request[c].expected)
        PROVE  node' = node /\ form' = form
    BY <2>6 DEF Save
  <2>7. ASSUME Tick \/ UNCHANGED vars PROVE node' = node /\ form' = form
    BY <2>7 DEF Tick, vars
  <2>8. ASSUME NEW c \in Clients,
               \/ Fail(c)
               \/ \E id \in NodeIds : OpenForm(c, id)
               \/ \E v, blank : Submit(c, v, blank)
        PROVE  node' = node /\ form' = form
    BY <2>8 DEF Fail, OpenForm, Submit
  <2>9. ASSUME NEW n \in NodeIds, CreateNode(n) PROVE Created(n)
    BY <1>2, <2>9, CreateNodeCreates
  <2> QED
    BY <1>2, <2>1, <2>2, <2>3, <2>4, <2>5, <2>6, <2>7, <2>8, <2>9
       DEF Next, Handle, Register!Next
<1> QED
  BY <1>1, <1>2, Invariance, PTL DEF Spec, EditsAreCompareAndSwap, Register!Spec

=============================================================================
