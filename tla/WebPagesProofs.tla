--------------------------- MODULE WebPagesProofs ---------------------------
(***************************************************************************)
(* Theorems about WebPages, for every set of ids, drafts and instants.     *)
(***************************************************************************)
EXTENDS WebPages, TimeTextProofs

-----------------------------------------------------------------------------
(* Pages and the entry store.                                              *)

(* To the tables of EntryStore a step of a page is one of its own steps or *)
(* nothing.                                                                *)
LEMMA PageStepIsStoreStep ==
  ASSUME IInv, [WebNext]_webVars
  PROVE  [Next]_vars
<1>0. Live \subseteq EntryIds /\ DOMAIN edge \subseteq EdgeIds
  BY DEF IInv, TypeOK, Live
<1>1. CASE Read
  BY <1>1 DEF Read, OpenDetail, ReadChain, ReadActivities, ReadButtons, OpenGraph, ReadEdges, Fail
<1>2. CASE Post
  <2>1. ASSUME NEW n \in EntryIds, NEW status \in NewStatuses, PostStatus(status, n)
        PROVE  [Next]_vars
    BY <1>0, <2>1 DEF PostStatus, SetGoalStatus, Next
  <2>2. ASSUME NEW a \in EntryIds, NEW e \in EdgeIds, PostAttach(a, e)
        PROVE  [Next]_vars
    BY <1>0, <2>2 DEF PostAttach, AttachToGoal, Next
  <2>3. ASSUME NEW i \in EntryIds, PostDetach(i) PROVE [Next]_vars
    BY <1>0, <2>3 DEF PostDetach, BeginDetach, Next
  <2>4. ASSUME NEW n \in EntryIds, NEW d \in Drafts, NewSubmit(n, d) PROVE [Next]_vars
    BY <2>4 DEF NewSubmit, InsertSubmitted, Next
  <2>5. ASSUME NEW d \in detaching, FinishDetach(d) PROVE [Next]_vars
    BY <2>5 DEF FinishDetach, Next
  <2>6. ASSUME NEW n \in EntryIds, FinishNew(n) PROVE [Next]_vars
    BY <2>6 DEF FinishNew, Next
  <2> QED BY <1>2, <2>1, <2>2, <2>3, <2>4, <2>5, <2>6 DEF Post
<1>3. CASE OtherWrites
  <2>1. ASSUME NEW n \in EntryIds, NEW d \in Drafts, Materialize(n, d) PROVE [Next]_vars
    <3>1. 0 \in 0 .. Cardinality(EntryIds)
      BY WebAssumption, FS_CardinalityType
    <3> QED BY <1>0, <2>1, <3>1 DEF Materialize, Next
  <2> QED BY <1>0, <1>3, <2>1 DEF OtherWrites, InsertSubmitted, EdgesNow, Next
<1>4. CASE UNCHANGED webVars
  BY <1>4 DEF webVars
<1> QED BY <1>1, <1>2, <1>3, <1>4 DEF WebNext

(* handlers_create.go, handlers_mutate.go, pipeline.go:380: whatever tabs  *)
(* and batches do, they do it through the operations of EntryStore, so     *)
(* every theorem about EntryStore holds under the web pages.               *)
THEOREM PagesRestOnStore == WebSpec => Spec
<1>1. WebInit => Init
  BY DEF WebInit
<1>2. IInv /\ [WebNext]_webVars => [Next]_vars
  BY PageStepIsStoreStep
<1>3. IInv /\ [WebNext]_webVars => IInv'
  BY <1>2, InvariantNext
<1> QED BY <1>1, <1>2, <1>3, InvariantInit, PTL DEF WebSpec, Spec

(* handlers_mutate.go, handlers_create.go: forms posted from stale tabs and*)
(* batches started from a page leave the store's promises intact.          *)
THEOREM PagesKeepPromises == WebSpec => StorePromises
BY PagesRestOnStore, StoreKeepsItsPromises

(* In particular its inductive invariant.                                  *)
LEMMA PageInvariance == WebSpec => []IInv
BY PagesRestOnStore, Invariance, PTL

-----------------------------------------------------------------------------
(* What a step of the store keeps.                                         *)

RowsStay ==
  \A i \in DOMAIN entry :
    /\ i \in DOMAIN entry'
    /\ entry'[i].logical = entry[i].logical
    /\ entry'[i].type = entry[i].type
    /\ entry'[i].occurred = entry[i].occurred
    /\ entry'[i].ingested = entry[i].ingested
    /\ entry'[i].version = entry[i].version
    /\ i \in Live' => i \in Live

EdgesStay ==
  \A e \in DOMAIN edge :
    /\ e \in DOMAIN edge'
    /\ edge'[e].from = edge[e].from
    /\ edge'[e].to = edge[e].to
    /\ edge'[e].ingested = edge[e].ingested
    /\ edge'[e].live => edge[e].live

(* No row or edge goes away, and of what the pages read none changes but a *)
(* version that is retired and an edge that is detached.                   *)
LEMMA StoreKeeps ==
  ASSUME IInv, [Next]_vars
  PROVE  /\ RowsStay /\ EdgesStay
         /\ clock \in Nat /\ clock' \in Nat /\ clock <= clock'
<1>1. EntryStep /\ LinkStep /\ TypeOK /\ TypeOK'
  BY StepKinds, LinkStepKinds, InvariantNext DEF IInv
<1>2. clock \in Nat /\ clock' \in Nat /\ clock <= clock'
  BY <1>1, LogicalKept, TimeAssumption DEF TypeOK, Times
<1>3. RowsStay
  <2>1. ASSUME NEW n \in EntryIds, Inserted(n) PROVE RowsStay
    BY <2>1 DEF Inserted, RowsStay, Live
  <2>2. ASSUME NEW old \in EntryIds, NEW n \in EntryIds, Superseded(old, n) PROVE RowsStay
    <3>1. /\ old \in DOMAIN entry /\ entry[old] \in Row
          /\ entry'[old] = [entry[old] EXCEPT !.current = FALSE, !.next = n]
          /\ DOMAIN entry' = DOMAIN entry \cup {n}
          /\ \A i \in DOMAIN entry \ {old} : entry'[i] = entry[i]
      BY <1>1, <2>2 DEF Superseded, Live, TypeOK
    <3>2. /\ entry'[old].logical = entry[old].logical
          /\ entry'[old].type = entry[old].type
          /\ entry'[old].occurred = entry[old].occurred
          /\ entry'[old].ingested = entry[old].ingested
          /\ entry'[old].version = entry[old].version
          /\ ~entry'[old].current
      BY <3>1 DEF Row
    <3> QED BY <3>1, <3>2 DEF RowsStay, Live
  <2>3. CASE EntriesKept
    BY <2>3 DEF EntriesKept, RowsStay, Live
  <2> QED BY <1>1, <2>1, <2>2, <2>3 DEF EntryStep
<1>4. EdgesStay
  <2>1. ASSUME NEW e \in DOMAIN edge, edge'[e].live PROVE edge[e].live
    <3>1. ASSUME NEW d \in detaching, Unlinked(d) PROVE edge'[e] = edge[e]
      <4>1. edge[d.edge] \in Link /\ d.edge \in DOMAIN edge
        BY <1>1, <3>1 DEF TypeOK
      <4>2. ~edge'[d.edge].live
        <5>1. edge' = [edge EXCEPT ![d.edge] = [@ EXCEPT !.live = FALSE, !.detached = d.at]]
          BY <3>1 DEF Unlinked
        <5>2. edge'[d.edge] = [edge[d.edge] EXCEPT !.live = FALSE, !.detached = d.at]
          BY <4>1, <5>1
        <5> QED BY <4>1, <5>2 DEF Link
      <4>3. e # d.edge
        BY <2>1, <4>2
      <4> QED BY <3>1, <4>3 DEF Unlinked
    <3> QED BY <1>1, <2>1, <3>1 DEF LinkStep, Linked, LinksKept
  <2> QED BY <1>1, <2>1, EdgeTables DEF EdgesStay
<1> QED BY <1>2, <1>3, <1>4

-----------------------------------------------------------------------------
(* The types of an entity.                                                 *)

(* An entity keeps its type: nothing in a server asks for another one.     *)
TypesAgree ==
  \A i, j \in DOMAIN entry :
    entry[i].logical = entry[j].logical => entry[i].type = entry[j].type

(* A version that joins a chain is of the type of the one it replaces.     *)
LEMMA NewVersionSameType ==
  ASSUME IInv, NEW old, NEW n, NEW v, NEW d, SupersedeRow(old, v, n, d),
         old \in Live => d.type = entry[old].type, TypesAgree
  PROVE  TypesAgree'
<1>1. /\ old \in DOMAIN entry /\ d.type = entry[old].type
      /\ n \notin DOMAIN entry /\ entry[old] \in Row
      /\ entry' = Put([entry EXCEPT ![old] = Retired(@, n)], n, Replacement(entry[old], d, clock))
  BY DEF SupersedeRow, Target, Live, Taken, IInv, TypeOK
<1>2. /\ Replacement(entry[old], d, clock).logical = entry[old].logical
      /\ Replacement(entry[old], d, clock).type = entry[old].type
  BY <1>1 DEF Replacement
<1>3. /\ Retired(entry[old], n).logical = entry[old].logical
      /\ Retired(entry[old], n).type = entry[old].type
  BY <1>1 DEF Retired, Row
<1>4. /\ DOMAIN entry' = DOMAIN entry \cup {n}
      /\ entry'[n] = Replacement(entry[old], d, clock)
      /\ \A i \in DOMAIN entry : /\ entry'[i].logical = entry[i].logical
                                 /\ entry'[i].type = entry[i].type
  BY <1>1, <1>3 DEF Put
<1>5. ASSUME NEW i \in DOMAIN entry', NEW j \in DOMAIN entry',
             entry'[i].logical = entry'[j].logical
      PROVE  entry'[i].type = entry'[j].type
  <2> DEFINE was(k) == IF k = n THEN old ELSE k
  <2>1. \A k \in DOMAIN entry' : /\ was(k) \in DOMAIN entry
                                 /\ entry'[k].logical = entry[was(k)].logical
                                 /\ entry'[k].type = entry[was(k)].type
    BY <1>1, <1>2, <1>4
  <2> HIDE DEF was
  <2> QED BY <1>5, <2>1 DEF TypesAgree
<1> QED BY <1>5 DEF TypesAgree

(* A first version starts a chain of its own.                              *)
LEMMA FirstVersionSameType ==
  ASSUME IInv, NEW n \in EntryIds, Inserted(n), TypesAgree
  PROVE  TypesAgree'
<1>1. \A i \in DOMAIN entry : entry[i].logical \in DOMAIN entry
  BY DEF IInv, Roots
<1> QED BY <1>1 DEF Inserted, TypesAgree

(* The types of a chain stay the same under every write of a server.       *)
LEMMA TypesAgreeAlways == WebSpec => []TypesAgree
<1>1. WebInit => TypesAgree
  BY DEF WebInit, Init, TypesAgree
<1>2. ASSUME IInv, TypesAgree, [WebNext]_webVars PROVE TypesAgree'
  <2>1. ASSUME entry' = entry PROVE TypesAgree'
    BY <1>2, <2>1 DEF TypesAgree
  <2>2. ASSUME NEW n \in EntryIds, CommitInsert(n) \/ \E d \in Drafts : MaterializeEntry(n, d)
        PROVE  TypesAgree'
    <3>1. \/ \E m \in EntryIds : Inserted(m)
          \/ \E old, m \in EntryIds : Superseded(old, m)
          \/ EntriesKept
      BY <1>2, PageStepIsStoreStep, StepKinds DEF IInv, EntryStep
    <3>2. ASSUME NEW old \in EntryIds, NEW m \in EntryIds, Superseded(old, m) PROVE FALSE
      <4>1. old \in DOMAIN entry /\ entry[old].current /\ entry[old] \in Row
            /\ entry'[old] = [entry[old] EXCEPT !.current = FALSE, !.next = m]
        BY <1>2, <3>2 DEF Superseded, Live, IInv, TypeOK
      <4>2. ~entry'[old].current
        BY <4>1 DEF Row
      <4>3. n \notin DOMAIN entry
        BY <1>2, <2>2 DEF CommitInsert, MaterializeEntry, Taken, IInv, TypeOK
      <4>4. entry'[old] = entry[old]
        BY <2>2, <4>1, <4>3 DEF CommitInsert, MaterializeEntry, Put
      <4> QED BY <4>1, <4>2, <4>4
    <3> QED BY <1>2, <2>1, <3>1, <3>2, FirstVersionSameType DEF EntriesKept
  <2>3. ASSUME NEW g, NEW n, NEW status, SetGoalStatus(g, status, n) PROVE TypesAgree'
    <3> DEFINE d == [type |-> "goal", status |-> status, ref |-> entry[g].ref,
                     occurred |-> entry[g].occurred]
    <3>1. SupersedeRow(g, 0, n, d) /\ d.type = entry[g].type
      BY <2>3 DEF SetGoalStatus
    <3> QED BY <1>2, <3>1, NewVersionSameType
  <2>4. ASSUME NEW old \in Live, NEW n, NEW d, entry[old].type = d.type, Supersede(old, 0, n, d)
        PROVE  TypesAgree'
    BY <1>2, <2>4, NewVersionSameType DEF Supersede
  <2>5. CASE Read
    BY <2>1, <2>5 DEF Read, OpenDetail, ReadChain, ReadActivities, ReadButtons, OpenGraph,
                      ReadEdges, Fail, vars
  <2>6. CASE Post
    BY <2>1, <2>2, <2>3, <2>6
       DEF Post, PostStatus, PostAttach, PostDetach, NewSubmit, FinishDetach, FinishNew,
           AttachToGoal, BeginDetach, InsertSubmitted, BeginInsert, CommitDetach, AbortDetach,
           AbortInsert, vars
  <2>7. CASE OtherWrites
    BY <2>1, <2>2, <2>3, <2>4, <2>7
       DEF OtherWrites, Tick, InsertSubmitted, BeginInsert, Materialize, AbortInsert,
           AttachToGoal, BeginDetach, CommitDetach, AbortDetach
  <2>8. CASE UNCHANGED webVars
    BY <2>1, <2>8 DEF webVars, vars
  <2> QED BY <1>2, <2>5, <2>6, <2>7, <2>8 DEF WebNext
<1> QED BY <1>1, <1>2, PageInvariance, PTL DEF WebSpec

-----------------------------------------------------------------------------
(* The invariant of a page.                                                *)

Detail == page.kind \in {"entry", "goal"} /\ page.focal # Null

(* The record of a page is well formed: what each step of a request has.   *)
PageForm ==
  /\ page \in Page
  /\ page.rows \subseteq DOMAIN entry
  /\ page.step # "detaching" => page.focal \in DOMAIN entry \cup {Null}
  /\ page.step = "detaching" => page.id = Null
  /\ page.focal # Null /\ page.id # Null =>
       page.id \in {entry[page.focal].logical} \cup Chain(entry[page.focal].logical)
  /\ page.step = "chain" => Detail /\ (page.kind = "goal" => page.at # Null)
  /\ page.step \in {"activities", "buttons"} => Detail /\ page.kind = "goal"
  /\ page.step = "edges" => page.kind = "graph"
  /\ page.step = "shown" => Detail \/ page.kind = "graph"
  /\ Detail /\ page.kind = "goal" /\ page.step # "detaching" => entry[page.focal].type = "goal"
  /\ page.step = "buttons" => page.at = Null /\ page.read # Null /\ page.read <= clock
  /\ page.past => page.at # Null /\ page.at < clock

(* A page between its write and the redirect.                              *)
Bare ==
  /\ page \in Page
  /\ page.rows = {} /\ page.retired = {} /\ page.linked = {} /\ page.dead = {}
  /\ page.step \in {"idle", "redirected", "creating", "detaching"}
  /\ ~page.past
  /\ page.at = Null
  /\ page.focal # Null => page.step = "detaching"
  /\ page.step = "detaching" => page.id = Null

(* What a page may become while somebody else writes.                      *)
LEMMA LaterKinds ==
  ASSUME page \in Page, page' = Later
  PROVE  \/ page' = page
         \/ /\ page.step = "shown" /\ page.kind = "goal" /\ page.at = Null
            /\ page' \in Page
            /\ page'.kind = "goal" /\ page'.at = Null /\ page'.step = "shown"
            /\ page'.id = page.id /\ page'.focal = page.focal /\ page'.rows = page.rows
            /\ page'.links = page.links /\ page'.button = page.button
            /\ page'.read = page.read /\ page'.past = page.past
            /\ page'.retired = {} /\ page'.linked = {} /\ page'.dead = {}
         \/ Bare'
<1>1. Blank \in Page
  BY DEF Blank, Page
<1>2. CASE page.step # "shown"
  BY <1>2 DEF Later
<1>3. CASE page.step = "shown" /\ OnGoalPage
  <2>1. page' = [page EXCEPT !.retired = {}, !.linked = {}, !.dead = {}]
    BY <1>3 DEF Later
  <2> QED BY <1>3, <2>1, ZenonT(60) DEF Page, OnGoalPage
<1>4. CASE page.step = "shown" /\ ~OnGoalPage
  BY <1>1, <1>4 DEF Later, Bare, Blank
<1> QED BY <1>2, <1>3, <1>4

(* A form leaves nothing of the page it was posted from.                   *)
LEMMA PostLeaves ==
  ASSUME IInv, page \in Page, Post
  PROVE  Bare'
<1>1. Blank \in Page
  BY DEF Blank, Page
<1>2. ASSUME NEW kind \in {"entry", "goal"}, NEW id \in EntryIds \cup {Null}, Redirect(kind, id)
      PROVE  Bare'
  <2>1. page' = [Blank EXCEPT !.step = "redirected", !.kind = kind, !.id = id]
    BY <1>2 DEF Redirect
  <2>2. page' \in Page
    BY <1>1, <2>1, ZenonT(60) DEF Page
  <2> QED BY <2>1, <2>2 DEF Blank, Bare
<1>3. page' = Blank => Bare'
  BY <1>1 DEF Blank, Bare
<1>4. page.focal \in EntryIds \cup {Null}
  BY DEF Page
<1>5. ASSUME NEW n \in EntryIds, NEW status \in NewStatuses, PostStatus(status, n) PROVE Bare'
  BY <1>2, <1>3, <1>5 DEF PostStatus
<1>6. ASSUME NEW a \in EntryIds, NEW e \in EdgeIds, PostAttach(a, e) PROVE Bare'
  BY <1>2, <1>3, <1>4, <1>6 DEF PostAttach
<1>7. ASSUME NEW i \in EntryIds, PostDetach(i) PROVE Bare'
  <2>1. page' = [Blank EXCEPT !.kind = "goal", !.step = "detaching", !.focal = page.focal,
                              !.button[i] = page.button[i]]
    BY <1>7 DEF PostDetach
  <2>2. [[k \in EntryIds |-> Null] EXCEPT ![i] = page.button[i]]
          \in [EntryIds -> EdgeIds \cup {Null}]
    BY DEF Page
  <2> QED BY <1>4, <2>1, <2>2, ZenonT(60) DEF Blank, Page, Bare
<1>8. ASSUME NEW n \in EntryIds, NEW d \in Drafts, NewSubmit(n, d) PROVE Bare'
  BY <1>8, ZenonT(60) DEF NewSubmit, Blank, Page, Bare
<1>9. ASSUME NEW d \in detaching, FinishDetach(d) PROVE Bare'
  BY <1>2, <1>3, <1>4, <1>9 DEF FinishDetach
<1>10. ASSUME NEW n \in EntryIds, FinishNew(n) PROVE Bare'
  BY <1>2, <1>3, <1>10 DEF FinishNew
<1> QED BY <1>5, <1>6, <1>7, <1>8, <1>9, <1>10 DEF Post

-----------------------------------------------------------------------------
(* The steps that read.                                                    *)

(* resolveLogical ends at the live version of the entity with that id.     *)
LEMMA HeaderFacts ==
  ASSUME IInv, NEW id \in EntryIds, NEW i \in HeaderOf(id)
  PROVE  /\ i \in Live
         /\ id \in {entry[i].logical} \cup Chain(entry[i].logical)
<1>1. ChainOfId(id) # {}
  BY DEF HeaderOf, LiveOf, Newest
<1>2. PICK j \in ChainOfId(id) : TRUE
  BY <1>1
<1>3. /\ j \in DOMAIN entry
      /\ ChainOfId(id) = Chain(entry[j].logical)
      /\ id \in {entry[j].logical} \cup Chain(entry[j].logical)
  BY <1>2 DEF ChainOfId, Chain
<1>4. Chain(entry[j].logical) \cap Live # {}
  BY <1>3, LiveOfChain DEF IInv
<1>5. i \in Chain(entry[j].logical) \cap Live
  BY <1>3, <1>4 DEF HeaderOf, LiveOf
<1> QED BY <1>3, <1>5 DEF Chain

(* The request for a page of an entity with the live version i.            *)
OpenedFor(kind, id, at, i) ==
  /\ page' \in Page
  /\ page'.kind = kind /\ page'.id = id /\ page'.at = at
  /\ page'.focal = i
  /\ id \in {entry[i].logical} \cup Chain(entry[i].logical)
  /\ kind = "goal" => entry[i].type = "goal"
  /\ page'.step = IF kind = "goal" /\ at = Null THEN "activities" ELSE "chain"
  /\ page'.rows = {}
  /\ page'.past => at # Null /\ at < clock
  /\ page'.retired = IF at = Null THEN DOMAIN entry \ Live ELSE {}
  /\ page'.linked = IF at = Null /\ kind = "goal" THEN EdgesNow ELSE {}
  /\ page'.dead = IF at = Null /\ kind = "goal" THEN DOMAIN edge \ EdgesNow ELSE {}

(* The first query of a page of an entity finds its live version.          *)
LEMMA OpenDetailFacts ==
  ASSUME IInv, NEW kind \in {"entry", "goal"}, NEW id \in EntryIds,
         NEW at \in Instants \cup {Null}, OpenDetail(kind, id, at)
  PROVE  \/ Bare'
         \/ \E i \in Live : OpenedFor(kind, id, at, i)
<1>1. CASE page' = Blank
  BY <1>1 DEF Blank, Bare, Page
<1>2. ASSUME NEW i \in HeaderOf(id), ~(kind = "goal" /\ entry[i].type # "goal"),
             page' = [Opened(kind, id, at) EXCEPT
                        !.focal = i,
                        !.step = IF kind = "goal" /\ at = Null THEN "activities" ELSE "chain"]
      PROVE  i \in Live /\ OpenedFor(kind, id, at, i)
  <2>1. /\ i \in Live /\ id \in {entry[i].logical} \cup Chain(entry[i].logical)
        /\ i \in EntryIds
        /\ DOMAIN entry \subseteq EntryIds /\ DOMAIN edge \subseteq EdgeIds
    BY <1>2, HeaderFacts DEF IInv, TypeOK, Live
  <2>2. Blank \in Page
    BY DEF Blank, Page
  <2>3. /\ (at # Null /\ at < clock) \in BOOLEAN
        /\ EdgesNow \subseteq EdgeIds
    BY <2>1 DEF EdgesNow
  <2>4. Opened(kind, id, at) \in Page
    <3> DEFINE past == at # Null /\ at < clock
               retired == IF at = Null THEN DOMAIN entry \ Live ELSE {}
               linked == IF at = Null /\ kind = "goal" THEN EdgesNow ELSE {}
               dead == IF at = Null /\ kind = "goal" THEN DOMAIN edge \ EdgesNow ELSE {}
    <3>1. Opened(kind, id, at) = [Blank EXCEPT !.kind = kind, !.id = id, !.at = at,
                                    !.past = past, !.retired = retired,
                                    !.linked = linked, !.dead = dead]
      BY DEF Opened
    <3>2. /\ past \in BOOLEAN /\ retired \subseteq EntryIds
          /\ linked \subseteq EdgeIds /\ dead \subseteq EdgeIds
      BY <2>1, <2>3
    <3> HIDE DEF past, retired, linked, dead
    <3>3. Opened(kind, id, at) =
            [kind |-> kind, id |-> id, at |-> at, step |-> "idle", focal |-> Null,
             rows |-> {}, links |-> {}, button |-> [k \in EntryIds |-> Null], read |-> Null,
             past |-> past, retired |-> retired, linked |-> linked, dead |-> dead]
      BY <3>1, ZenonT(60) DEF Blank
    <3> QED BY <3>2, <3>3 DEF Page
  <2>5. page' \in Page
    BY <1>2, <2>1, <2>4, ZenonT(60) DEF Page
  <2> QED BY <1>2, <2>1, <2>5 DEF Opened, Blank, OpenedFor
<1>3. \/ page' = Blank
      \/ \E i \in HeaderOf(id) :
           /\ ~(kind = "goal" /\ entry[i].type # "goal")
           /\ page' = [Opened(kind, id, at) EXCEPT
                         !.focal = i,
                         !.step = IF kind = "goal" /\ at = Null THEN "activities" ELSE "chain"]
  BY DEF OpenDetail
<1>4. CASE \E i \in HeaderOf(id) :
           /\ ~(kind = "goal" /\ entry[i].type # "goal")
           /\ page' = [Opened(kind, id, at) EXCEPT
                         !.focal = i,
                         !.step = IF kind = "goal" /\ at = Null THEN "activities" ELSE "chain"]
  <2>1. PICK i \in HeaderOf(id) :
           /\ ~(kind = "goal" /\ entry[i].type # "goal")
           /\ page' = [Opened(kind, id, at) EXCEPT
                         !.focal = i,
                         !.step = IF kind = "goal" /\ at = Null THEN "activities" ELSE "chain"]
    BY <1>4
  <2> QED BY <1>2, <2>1
<1> QED BY <1>1, <1>3, <1>4

(* What the other reading steps leave as it is.                            *)
SameRequest ==
  /\ page' \in Page
  /\ page'.kind = page.kind /\ page'.id = page.id /\ page'.at = page.at
  /\ page'.past = page.past
  /\ page'.retired = page.retired /\ page'.linked = page.linked /\ page'.dead = page.dead

(* The query over the chain moves the header along it, or not at all.      *)
LEMMA ReadChainFacts ==
  ASSUME IInv, TypesAgree, PageForm, ReadChain
  PROVE  LET history == Chain(entry[page.focal].logical)
             then == IF page.at = Null THEN {} ELSE LiveAtAsOf(history, page.at)
         IN  /\ SameRequest
             /\ page'.focal \in IF then = {} THEN {page.focal} ELSE Newest(then)
             /\ page'.focal \in history
             /\ page'.rows = IF page.kind = "entry" THEN history ELSE {}
             /\ page'.step = IF page.kind = "entry" THEN "shown" ELSE "activities"
<1> DEFINE history == Chain(entry[page.focal].logical)
           then == IF page.at = Null THEN {} ELSE LiveAtAsOf(history, page.at)
<1>1. /\ page \in Page /\ page.focal \in DOMAIN entry /\ page.focal \in history
      /\ page.kind \in {"entry", "goal"}
      /\ page.kind = "goal" => entry[page.focal].type = "goal"
  BY DEF PageForm, Detail, ReadChain, Chain
<1>2. PICK i \in IF then = {} THEN {page.focal} ELSE Newest(then) :
           page' = [page EXCEPT
             !.focal = IF page.kind = "goal" /\ entry[i].type # "goal" THEN @ ELSE i,
             !.rows  = IF page.kind = "entry" THEN history ELSE {},
             !.step  = IF page.kind = "entry" THEN "shown" ELSE "activities"]
  BY DEF ReadChain
<1>3. then \subseteq history
  BY DEF LiveAtAsOf
<1>4. i \in history /\ i \in DOMAIN entry
  BY <1>1, <1>2, <1>3 DEF Newest, Chain
<1>5. entry[i].type = entry[page.focal].type
  BY <1>1, <1>4 DEF TypesAgree, Chain
<1>6. page' = [page EXCEPT
             !.focal = i,
             !.rows  = IF page.kind = "entry" THEN history ELSE {},
             !.step  = IF page.kind = "entry" THEN "shown" ELSE "activities"]
  BY <1>1, <1>2, <1>5 DEF Page
<1>7. i \in EntryIds /\ history \subseteq EntryIds
  BY <1>4 DEF IInv, TypeOK, Chain
<1>8. page' \in Page
  BY <1>1, <1>6, <1>7, ZenonT(60) DEF Page
<1>9. /\ page'.focal = i
      /\ page'.rows = (IF page.kind = "entry" THEN history ELSE {})
      /\ page'.step = (IF page.kind = "entry" THEN "shown" ELSE "activities")
      /\ SameRequest
  BY <1>1, <1>6, <1>8 DEF Page, SameRequest
<1> HIDE DEF history, then
<1>10. page'.focal \in (IF then = {} THEN {page.focal} ELSE Newest(then))
  BY <1>2, <1>9
<1> QED BY <1>4, <1>9, <1>10 DEF history, then

(* The query for the activities of a goal.                                 *)
LEMMA ReadActivitiesFacts ==
  ASSUME IInv, PageForm, ReadActivities
  PROVE  /\ SameRequest
         /\ page'.focal = page.focal
         /\ page'.rows = IF page.at = Null THEN GoalActivities(page.focal)
                                           ELSE GoalActivitiesAt(page.focal, page.at)
         /\ page'.read = IF page.at = Null THEN clock ELSE Null
         /\ page'.step = IF page.at = Null THEN "buttons" ELSE "shown"
<1>1. /\ page \in Page /\ clock \in Times /\ DOMAIN entry \subseteq EntryIds
      /\ GoalActivities(page.focal) \subseteq DOMAIN entry
      /\ GoalActivitiesAt(page.focal, page.at) \subseteq DOMAIN entry
  BY DEF PageForm, IInv, TypeOK, GoalActivities, GoalActivitiesAt, Live, EntriesAt
<1>2. page' = [page EXCEPT
       !.rows = IF page.at = Null THEN GoalActivities(page.focal)
                                  ELSE GoalActivitiesAt(page.focal, page.at),
       !.read = IF page.at = Null THEN clock ELSE Null,
       !.step = IF page.at = Null THEN "buttons" ELSE "shown"]
  BY DEF ReadActivities
<1>3. page' \in Page
  BY <1>1, <1>2 DEF Page
<1> QED BY <1>1, <1>2, <1>3 DEF Page, SameRequest

(* The query for the edges of a goal page gives each row its button.       *)
LEMMA ReadButtonsFacts ==
  ASSUME IInv, PageForm, ReadButtons
  PROVE  /\ SameRequest
         /\ page'.focal = page.focal /\ page'.rows = page.rows
         /\ page'.step = "shown"
         /\ \E now \in page.read .. clock :
              LET edges == {e \in EdgesAt(now) : edge[e].live}
              IN  page'.button = [i \in EntryIds |->
                    IF i \notin page.rows \/ ButtonFor(edges, i) = {} THEN Null
                    ELSE CHOOSE e \in ButtonFor(edges, i) : TRUE]
<1>1. PICK now \in page.read .. clock :
        page' = [page EXCEPT
          !.button = [i \in EntryIds |->
             IF i \notin page.rows \/ ButtonFor({e \in EdgesAt(now) : edge[e].live}, i) = {}
               THEN Null
               ELSE CHOOSE e \in ButtonFor({e \in EdgesAt(now) : edge[e].live}, i) : TRUE],
          !.read = Null,
          !.step = "shown"]
  BY DEF ReadButtons
<1> DEFINE edges == {e \in EdgesAt(now) : edge[e].live}
           button == [i \in EntryIds |->
             IF i \notin page.rows \/ ButtonFor(edges, i) = {} THEN Null
             ELSE CHOOSE e \in ButtonFor(edges, i) : TRUE]
<1>2. page' = [page EXCEPT !.button = button, !.read = Null, !.step = "shown"]
  BY <1>1
<1>3. button \in [EntryIds -> EdgeIds \cup {Null}]
  <2>1. \A i \in EntryIds : ButtonFor(edges, i) \subseteq EdgeIds
    BY DEF ButtonFor, EdgesAt, IInv, TypeOK
  <2> HIDE DEF edges
  <2>2. \A i \in EntryIds : ButtonFor(edges, i) # {} =>
          (CHOOSE e \in ButtonFor(edges, i) : TRUE) \in EdgeIds
    BY <2>1
  <2> QED BY <2>2
<1> HIDE DEF button
<1>4. page \in Page
  BY DEF PageForm
<1>5. page' \in Page
  BY <1>2, <1>3, <1>4 DEF Page
<1>6. /\ SameRequest
      /\ page'.focal = page.focal /\ page'.rows = page.rows
      /\ page'.step = "shown" /\ page'.button = button
  BY <1>2, <1>4, <1>5 DEF Page, SameRequest
<1> QED BY <1>1, <1>6 DEF button

(* The first query of the graph page.                                      *)
LEMMA OpenGraphFacts ==
  ASSUME IInv, NEW at \in Instants \cup {Null}, OpenGraph(at)
  PROVE  /\ page' \in Page
         /\ page'.kind = "graph" /\ page'.id = Null /\ page'.at = at
         /\ page'.focal = Null
         /\ page'.step = "edges"
         /\ page'.rows = ListedEntries(at)
         /\ page'.past => at # Null /\ at < clock
         /\ page'.retired = IF at = Null THEN DOMAIN entry \ Live ELSE {}
         /\ page'.linked = {} /\ page'.dead = {}
<1> DEFINE past == at # Null /\ at < clock
           retired == IF at = Null THEN DOMAIN entry \ Live ELSE {}
           rows == ListedEntries(at)
           read == IF at = Null THEN clock ELSE Null
<1>1. /\ past \in BOOLEAN /\ retired \subseteq EntryIds /\ rows \subseteq EntryIds
      /\ read \in Times \cup {Null}
  BY DEF IInv, TypeOK, ListedEntries, Live, EntriesAt
<1>2. page' = [[Blank EXCEPT !.kind = "graph", !.id = Null, !.at = at, !.past = past,
                             !.retired = retired, !.linked = {}, !.dead = {}]
                 EXCEPT !.rows = rows, !.read = read, !.step = "edges"]
  BY DEF OpenGraph, Opened
<1> HIDE DEF past, retired, rows, read
<1>3. page' = [kind |-> "graph", id |-> Null, at |-> at, step |-> "edges", focal |-> Null,
               rows |-> rows, links |-> {}, button |-> [k \in EntryIds |-> Null], read |-> read,
               past |-> past, retired |-> retired, linked |-> {}, dead |-> {}]
  BY <1>2 DEF Blank
<1> QED BY <1>1, <1>3 DEF Page, past, retired, rows

(* The second query of the graph page.                                     *)
LEMMA ReadEdgesFacts ==
  ASSUME IInv, PageForm, ReadEdges
  PROVE  /\ SameRequest
         /\ page'.focal = page.focal /\ page'.rows = page.rows
         /\ page'.step = "shown"
         /\ \E t \in IF page.at = Null THEN page.read .. clock ELSE {page.at} :
              page'.links = {<<edge[e].from, edge[e].to>> : e \in EdgesAt(t)}
<1>1. PICK t \in IF page.at = Null THEN page.read .. clock ELSE {page.at} :
        page' = [page EXCEPT
          !.links = {<<edge[e].from, edge[e].to>> : e \in EdgesAt(t)},
          !.read = Null,
          !.step = "shown"]
  BY DEF ReadEdges
<1> DEFINE links == {<<edge[e].from, edge[e].to>> : e \in EdgesAt(t)}
<1>2. links \subseteq EntryIds \X EntryIds
  <2>1. \A e \in EdgesAt(t) : edge[e].from \in EntryIds /\ edge[e].to \in EntryIds
    BY DEF EdgesAt, IInv, TypeOK, Link
  <2> QED BY <2>1
<1>3. page' = [page EXCEPT !.links = links, !.read = Null, !.step = "shown"]
  BY <1>1
<1> HIDE DEF links
<1>4. page \in Page
  BY DEF PageForm
<1>5. page' \in Page
  BY <1>2, <1>3, <1>4 DEF Page
<1>6. /\ SameRequest
      /\ page'.focal = page.focal /\ page'.rows = page.rows
      /\ page'.step = "shown" /\ page'.links = links
  BY <1>3, <1>4, <1>5 DEF Page, SameRequest
<1> QED BY <1>1, <1>6 DEF links

-----------------------------------------------------------------------------
(* Every page is well formed.                                              *)

(* The form of a page survives every step, its own and those of others.    *)
LEMMA FormNext ==
  ASSUME IInv, IInv', TypesAgree, PageForm, [WebNext]_webVars
  PROVE  PageForm'
<1>1. Bare' => PageForm'
  BY DEF Bare, PageForm, Detail
<1>2. /\ RowsStay /\ clock \in Nat /\ clock' \in Nat /\ clock <= clock'
  BY PageStepIsStoreStep, StoreKeeps
<1>3. page \in Page /\ Instants \subseteq Nat /\ DOMAIN entry \subseteq EntryIds
      /\ Null \notin EntryIds /\ Null \notin Nat
  BY WebAssumption, TimeAssumption, NullAssumption DEF PageForm, Times, IInv, TypeOK
<1>4. \A l : Chain(l) \subseteq Chain(l)'
  BY <1>2 DEF RowsStay, Chain
<1>5. ASSUME page' = page PROVE PageForm'
  <2>1. page.read # Null => page.read \in Nat
    BY <1>3, TimeAssumption DEF Page, Times
  <2>2. page.at # Null => page.at \in Nat
    BY <1>3 DEF Page
  <2> QED BY <1>2, <1>3, <1>4, <1>5, <2>1, <2>2 DEF PageForm, Detail, RowsStay
<1>6. CASE page' = Later
  <2>1. ASSUME page.step = "shown", page.kind = "goal", page.at = Null,
               page' \in Page,
               page'.kind = "goal", page'.at = Null, page'.step = "shown",
               page'.id = page.id, page'.focal = page.focal, page'.rows = page.rows,
               page'.past = page.past
        PROVE  PageForm'
    BY <1>2, <1>4, <2>1 DEF PageForm, Detail, RowsStay
  <2> QED BY <1>1, <1>3, <1>5, <1>6, <2>1, LaterKinds
<1>7. CASE Read
  <2>0. entry' = entry /\ clock' = clock
    BY <1>7 DEF Read, OpenDetail, ReadChain, ReadActivities, ReadButtons, OpenGraph,
                ReadEdges, Fail, vars
  <2>1. ASSUME NEW kind \in {"entry", "goal"}, NEW id \in EntryIds,
               NEW at \in Instants \cup {Null}, OpenDetail(kind, id, at)
        PROVE  PageForm'
    <3>1. SUFFICES ASSUME ~Bare' PROVE PageForm'
      BY <1>1
    <3>2. PICK i \in Live : OpenedFor(kind, id, at, i)
      BY <2>1, <3>1, OpenDetailFacts
    <3>3. i \in DOMAIN entry
      BY DEF Live
    <3> QED BY <1>3, <2>0, <3>2, <3>3 DEF PageForm, Detail, Chain, OpenedFor
  <2>2. ASSUME NEW at \in Instants \cup {Null}, OpenGraph(at) PROVE PageForm'
    <3>1. ListedEntries(at) \subseteq DOMAIN entry
      BY DEF ListedEntries, Live, EntriesAt
    <3> QED BY <1>3, <2>0, <2>2, <3>1, OpenGraphFacts DEF PageForm, Detail
  <2>3. CASE ReadChain
    <3> DEFINE history == Chain(entry[page.focal].logical)
    <3>1. /\ SameRequest
          /\ page'.focal \in history
          /\ page'.rows \subseteq history
          /\ page'.step \in {"shown", "activities"}
          /\ page'.step = "activities" => page.kind # "entry"
      BY <2>3, ReadChainFacts
    <3>2. page.step = "chain"
      BY <2>3 DEF ReadChain
    <3>3. /\ page'.focal \in DOMAIN entry
          /\ page'.rows \subseteq DOMAIN entry
          /\ entry[page'.focal].logical = entry[page.focal].logical
      BY <3>1 DEF Chain
    <3>4. entry[page'.focal].type = entry[page.focal].type
      BY <3>2, <3>3 DEF TypesAgree, PageForm, Detail
    <3> QED BY <1>3, <2>0, <3>1, <3>2, <3>3, <3>4 DEF PageForm, Detail, SameRequest, Chain
  <2>4. CASE ReadActivities
    <3>1. page'.rows \subseteq DOMAIN entry
      BY <2>4, ReadActivitiesFacts DEF GoalActivities, GoalActivitiesAt, Live, EntriesAt
    <3>2. page.step = "activities"
      BY <2>4 DEF ReadActivities
    <3> QED BY <1>2, <1>3, <2>0, <2>4, <3>1, <3>2, ReadActivitiesFacts
            DEF PageForm, Detail, SameRequest, Chain
  <2>5. CASE ReadButtons
    <3>1. page.step = "buttons"
      BY <2>5 DEF ReadButtons
    <3> QED BY <1>3, <2>0, <2>5, <3>1, ReadButtonsFacts DEF PageForm, Detail, SameRequest, Chain
  <2>6. CASE ReadEdges
    <3>1. page.step = "edges"
      BY <2>6 DEF ReadEdges
    <3> QED BY <1>3, <2>0, <2>6, <3>1, ReadEdgesFacts DEF PageForm, Detail, SameRequest, Chain
  <2>7. CASE Fail
    BY <1>1, <2>7 DEF Fail, Blank, Bare, Page
  <2> QED BY <1>7, <2>1, <2>2, <2>3, <2>4, <2>5, <2>6, <2>7 DEF Read
<1>8. CASE Post
  BY <1>1, <1>3, <1>8, PostLeaves
<1>9. CASE UNCHANGED webVars
  BY <1>5, <1>9 DEF webVars
<1> QED BY <1>6, <1>7, <1>8, <1>9 DEF WebNext

(* TypesAgree and the form, for every state.                               *)
LEMMA FormAlways == WebSpec => []PageForm
<1>1. WebInit => PageForm
  BY DEF WebInit, Blank, PageForm, Page, Detail
<1>2. IInv /\ IInv' /\ TypesAgree /\ PageForm /\ [WebNext]_webVars => PageForm'
  BY FormNext
<1> QED BY <1>1, <1>2, PageInvariance, TypesAgreeAlways, PTL DEF WebSpec

(* handlers_detail.go:287: what a request works on exists, and what a page *)
(* shows is of the entity it was asked for, whichever of its ids was used. *)
THEOREM PagesShowWhatWasAsked == WebSpec => []PageTypeOK
<1>1. PageForm => PageTypeOK
  BY DEF PageForm, PageTypeOK
<1> QED BY <1>1, FormAlways, PTL

-----------------------------------------------------------------------------
(* A live page is not older than its request.                              *)

Fresh ==
  page.at = Null =>
    /\ page.retired \subseteq DOMAIN entry \ Live
    /\ page.focal \notin page.retired
    /\ page.kind # "entry" => page.rows \cap page.retired = {}
    /\ page.kind = "entry" /\ page.step = "shown" => page.focal \in page.rows

(* What was retired when the page was asked for stays off it.              *)
LEMMA FreshNext ==
  ASSUME IInv, TypesAgree, PageForm, Fresh, [WebNext]_webVars
  PROVE  Fresh'
<1>1. Bare' => Fresh'
  BY DEF Bare, Fresh
<1>2. RowsStay
  BY PageStepIsStoreStep, StoreKeeps
<1>3. page \in Page /\ DOMAIN entry \subseteq EntryIds /\ Null \notin EntryIds
  BY NullAssumption DEF PageForm, IInv, TypeOK
<1>4. ASSUME page' = page PROVE Fresh'
  BY <1>2, <1>4 DEF Fresh, RowsStay
<1>5. CASE page' = Later
  <2>1. ASSUME page'.kind = "goal", page'.retired = {} PROVE Fresh'
    BY <2>1 DEF Fresh
  <2> QED BY <1>1, <1>3, <1>4, <1>5, <2>1, LaterKinds
<1>6. CASE Read
  <2>0. entry' = entry /\ Live' = Live
    BY <1>6 DEF Read, OpenDetail, ReadChain, ReadActivities, ReadButtons, OpenGraph,
                ReadEdges, Fail, vars, Live
  <2>1. ASSUME NEW kind \in {"entry", "goal"}, NEW id \in EntryIds,
               NEW at \in Instants \cup {Null}, OpenDetail(kind, id, at)
        PROVE  Fresh'
    <3>1. SUFFICES ASSUME ~Bare' PROVE Fresh'
      BY <1>1
    <3>2. PICK i \in Live : OpenedFor(kind, id, at, i)
      BY <2>1, <3>1, OpenDetailFacts
    <3> QED BY <2>0, <3>2 DEF Fresh, OpenedFor
  <2>2. ASSUME NEW at \in Instants \cup {Null}, OpenGraph(at) PROVE Fresh'
    <3>1. at = Null => ListedEntries(at) \subseteq Live
      BY DEF ListedEntries
    <3> QED BY <1>3, <2>0, <2>2, <3>1, OpenGraphFacts DEF Fresh
  <2>3. CASE ReadChain
    <3> DEFINE history == Chain(entry[page.focal].logical)
    <3>1. /\ SameRequest
          /\ page.at = Null => page'.focal = page.focal
          /\ page'.focal \in history
          /\ page'.rows = IF page.kind = "entry" THEN history ELSE {}
      BY <2>3, ReadChainFacts
    <3> HIDE DEF history
    <3> QED BY <2>0, <3>1 DEF Fresh, SameRequest
  <2>4. CASE ReadActivities
    <3>1. page.at = Null => page'.rows \subseteq Live
      BY <2>4, ReadActivitiesFacts DEF GoalActivities
    <3>2. page.kind = "goal"
      BY <2>4 DEF ReadActivities, PageForm
    <3> QED BY <2>0, <2>4, <3>1, <3>2, ReadActivitiesFacts DEF Fresh, SameRequest
  <2>5. CASE ReadButtons
    <3>1. page.kind = "goal"
      BY <2>5 DEF ReadButtons, PageForm
    <3> QED BY <2>0, <2>5, <3>1, ReadButtonsFacts DEF Fresh, SameRequest
  <2>6. CASE ReadEdges
    <3>1. page.kind = "graph"
      BY <2>6 DEF ReadEdges, PageForm
    <3> QED BY <2>0, <2>6, <3>1, ReadEdgesFacts DEF Fresh, SameRequest
  <2>7. CASE Fail
    BY <1>1, <2>7 DEF Fail, Blank, Bare, Page
  <2> QED BY <1>6, <2>1, <2>2, <2>3, <2>4, <2>5, <2>6, <2>7 DEF Read
<1>7. CASE Post
  BY <1>1, <1>3, <1>7, PostLeaves
<1>8. CASE UNCHANGED webVars
  BY <1>4, <1>8 DEF webVars
<1> QED BY <1>5, <1>6, <1>7, <1>8 DEF WebNext

(* handlers_mutate.go:39: a live page, whatever is written between its     *)
(* queries, shows no version that was retired when it was asked for, so    *)
(* that the page a form redirects to shows what the form did.              *)
THEOREM PagesAreFresh == WebSpec => []PageIsFresh
<1>1. WebInit => Fresh
  BY DEF WebInit, Blank, Fresh
<1>2. IInv /\ TypesAgree /\ PageForm /\ Fresh /\ [WebNext]_webVars => Fresh'
  BY FreshNext
<1>3. Fresh => PageIsFresh
  BY DEF Fresh, PageIsFresh
<1> QED BY <1>1, <1>2, <1>3, PageInvariance, TypesAgreeAlways, FormAlways, PTL DEF WebSpec

-----------------------------------------------------------------------------
(* The rows of a live goal page fit its buttons.                           *)

JoinsRow(e, i) ==
  edge[e].from = entry[i].logical /\ edge[e].to = entry[page.focal].logical

OfThisGoal(e) ==
  /\ edge[e].live
  /\ edge[e].to = entry[page.focal].logical
  /\ entry[edge[e].from].type = "activity"

LinksFit ==
  page.at = Null /\ page.kind = "goal" /\ page.step \in {"activities", "buttons", "shown"} =>
    /\ page.linked \subseteq DOMAIN edge
    /\ page.dead \subseteq DOMAIN edge \ EdgesNow
    /\ page.step = "buttons" => \A e \in page.linked : edge[e].ingested <= page.read
    /\ page.step \in {"buttons", "shown"} =>
         /\ \A e \in page.linked : OfThisGoal(e) => \E i \in page.rows : JoinsRow(e, i)
         /\ \A i \in page.rows : \E e \in DOMAIN edge \ page.dead : JoinsRow(e, i)
    /\ page.step = "shown" =>
         /\ \A e \in page.linked, i \in page.rows :
              OfThisGoal(e) /\ JoinsRow(e, i) => page.button[i] = e
         /\ \A i \in page.rows : page.button[i] # Null =>
              page.button[i] \in DOMAIN edge /\ JoinsRow(page.button[i], i)

(* Between two entities there is one live edge.                            *)
LEMMA LiveLinkUnique ==
  ASSUME IInv, NEW e \in DOMAIN edge, NEW f \in DOMAIN edge, edge[e].live, edge[f].live,
         edge[e].from = edge[f].from, edge[e].to = edge[f].to
  PROVE  e = f
BY DEF IInv, Links, Before

(* The rows are those of the live links at the first query.                *)
LEMMA RowsOfLinks ==
  ASSUME IInv, TypesAgree, PageForm, LinksFit, ReadActivities, page.at = Null,
         entry' = entry, edge' = edge
  PROVE  LinksFit'
<1>1. /\ page.step = "activities" /\ page.kind = "goal" /\ page.focal \in DOMAIN entry
      /\ SameRequest
      /\ page'.focal = page.focal
      /\ page'.rows = GoalActivities(page.focal)
      /\ page'.read = clock
      /\ page'.step = "buttons"
  BY ReadActivitiesFacts DEF ReadActivities, PageForm, Detail
<1>2. page.linked \subseteq DOMAIN edge /\ page.dead \subseteq DOMAIN edge \ EdgesNow
  BY <1>1 DEF LinksFit
<1>3. \A e \in page.linked : edge[e].ingested <= clock
  BY <1>2 DEF IInv, Links
<1>4. ASSUME NEW e \in page.linked, OfThisGoal(e)
      PROVE  \E i \in GoalActivities(page.focal) : JoinsRow(e, i)
  <2>1. /\ e \in DOMAIN edge /\ edge[e].live
        /\ edge[e].from \in DOMAIN entry /\ entry[edge[e].from].logical = edge[e].from
    BY <1>2, <1>4 DEF OfThisGoal, IInv, Links
  <2>2. PICK i \in DOMAIN entry : entry[i].current /\ entry[i].logical = edge[e].from
    BY <2>1 DEF IInv, LiveHeads
  <2>3. entry[i].type = "activity"
    BY <1>4, <2>1, <2>2 DEF OfThisGoal, TypesAgree
  <2>4. e \in LiveLinks(entry[i].logical, entry[page.focal].logical)
    BY <1>4, <2>1, <2>2 DEF OfThisGoal, LiveLinks
  <2> QED BY <1>4, <2>2, <2>3, <2>4 DEF GoalActivities, Live, JoinsRow, OfThisGoal
<1>5. ASSUME NEW i \in GoalActivities(page.focal)
      PROVE  \E e \in DOMAIN edge \ page.dead : JoinsRow(e, i)
  <2>1. PICK e \in LiveLinks(entry[i].logical, entry[page.focal].logical) : TRUE
    BY DEF GoalActivities
  <2> QED BY <1>2, <2>1 DEF LiveLinks, EdgesNow, JoinsRow
<1> QED BY <1>1, <1>2, <1>3, <1>4, <1>5
        DEF LinksFit, SameRequest, EdgesNow, OfThisGoal, JoinsRow

(* The button of a row is the live link the row is there for.              *)
LEMMA ButtonsOfRows ==
  ASSUME IInv, PageForm, LinksFit, ReadButtons, entry' = entry, edge' = edge
  PROVE  LinksFit'
<1>1. /\ page.step = "buttons" /\ page.kind = "goal" /\ page.focal \in DOMAIN entry
      /\ page.at = Null /\ page.read # Null /\ page.rows \subseteq DOMAIN entry
      /\ page \in Page
  BY DEF ReadButtons, PageForm, Detail
<1>2. /\ SameRequest
      /\ page'.focal = page.focal /\ page'.rows = page.rows
      /\ page'.step = "shown"
  BY ReadButtonsFacts
<1>3. /\ page.linked \subseteq DOMAIN edge
      /\ page.dead \subseteq DOMAIN edge \ EdgesNow
      /\ \A e \in page.linked : edge[e].ingested <= page.read
      /\ \A e \in page.linked : OfThisGoal(e) => \E i \in page.rows : JoinsRow(e, i)
      /\ \A i \in page.rows : \E e \in DOMAIN edge \ page.dead : JoinsRow(e, i)
  BY <1>1 DEF LinksFit
<1>4. PICK now \in page.read .. clock :
        page'.button = [i \in EntryIds |->
          IF i \notin page.rows \/ ButtonFor({e \in EdgesAt(now) : edge[e].live}, i) = {} THEN Null
          ELSE CHOOSE e \in ButtonFor({e \in EdgesAt(now) : edge[e].live}, i) : TRUE]
  BY ReadButtonsFacts
<1> DEFINE edges == {e \in EdgesAt(now) : edge[e].live}
<1>5. page.rows \subseteq EntryIds /\ DOMAIN edge \subseteq EdgeIds
  BY <1>1 DEF IInv, TypeOK
<1>6. \A i \in page.rows :
        page'.button[i] = IF ButtonFor(edges, i) = {} THEN Null
                          ELSE CHOOSE e \in ButtonFor(edges, i) : TRUE
  BY <1>4, <1>5
<1>7. /\ edges \subseteq DOMAIN edge
      /\ \A e \in edges : edge[e].live
  BY DEF EdgesAt
<1>8. ASSUME NEW e \in page.linked, edge[e].live PROVE e \in edges
  <2>1. /\ page.read \in Nat /\ clock \in Nat /\ now \in Nat /\ page.read <= now
        /\ edge[e].ingested \in Nat
    BY <1>1, <1>3, TimeAssumption DEF Page, Times, IInv, TypeOK, Link
  <2>2. edge[e].detached = Null /\ edge[e].ingested <= page.read
    BY <1>3, <1>8 DEF IInv, Links
  <2> QED BY <1>3, <1>8, <2>1, <2>2 DEF EdgesAt, WasLinked
<1> HIDE DEF edges
<1>9. ASSUME NEW e \in page.linked, NEW i \in page.rows, OfThisGoal(e), JoinsRow(e, i)
      PROVE  page'.button[i] = e
  <2>1. e \in ButtonFor(edges, i)
    BY <1>8, <1>9 DEF OfThisGoal, JoinsRow, ButtonFor
  <2>2. \A f \in ButtonFor(edges, i) : f = e
    BY <1>3, <1>7, <1>9, <2>1, LiveLinkUnique DEF ButtonFor, OfThisGoal, JoinsRow
  <2>3. (CHOOSE f \in ButtonFor(edges, i) : TRUE) = e
    BY <2>1, <2>2
  <2> QED BY <1>6, <2>1, <2>3
<1>10. ASSUME NEW i \in page.rows, page'.button[i] # Null
       PROVE  page'.button[i] \in DOMAIN edge /\ JoinsRow(page'.button[i], i)
  <2>1. page'.button[i] \in ButtonFor(edges, i)
    BY <1>6, <1>10
  <2> QED BY <1>7, <2>1 DEF ButtonFor, JoinsRow
<1> QED BY <1>1, <1>2, <1>3, <1>9, <1>10
        DEF LinksFit, SameRequest, EdgesNow, OfThisGoal, JoinsRow

(* What others write meanwhile takes no row and no button away.            *)
LEMMA LinksFitKept ==
  ASSUME IInv, TypesAgree, PageForm, LinksFit, RowsStay, EdgesStay,
         page'.at = page.at, page'.kind = page.kind, page'.step = page.step,
         page'.focal = page.focal, page'.rows = page.rows, page'.button = page.button,
         page'.read = page.read,
         page'.linked \subseteq page.linked, page'.dead \subseteq page.dead
  PROVE  LinksFit'
<1> SUFFICES ASSUME page.at = Null, page.kind = "goal",
                    page.step \in {"activities", "buttons", "shown"}
             PROVE  LinksFit'
  BY DEF LinksFit
<1>1. page.focal \in DOMAIN entry /\ page.rows \subseteq DOMAIN entry
  BY DEF PageForm, Detail
<1>2. page.linked \subseteq DOMAIN edge /\ page.dead \subseteq DOMAIN edge \ EdgesNow
  BY DEF LinksFit
<1>3. /\ DOMAIN edge \subseteq DOMAIN edge'
      /\ page.dead \subseteq DOMAIN edge' \ EdgesNow'
      /\ \A e \in DOMAIN edge : edge'[e].ingested = edge[e].ingested
  BY <1>2 DEF EdgesStay, EdgesNow
<1>4. \A e \in DOMAIN edge, i \in DOMAIN entry : JoinsRow(e, i)' <=> JoinsRow(e, i)
  BY <1>1 DEF JoinsRow, RowsStay, EdgesStay
<1>5. \A e \in DOMAIN edge : OfThisGoal(e)' => OfThisGoal(e)
  <2> SUFFICES ASSUME NEW e \in DOMAIN edge, OfThisGoal(e)' PROVE OfThisGoal(e)
    OBVIOUS
  <2>1. edge[e].from \in DOMAIN entry
    BY DEF IInv, Links
  <2> QED BY <1>1, <2>1 DEF OfThisGoal, RowsStay, EdgesStay
<1>6. page.step = "buttons" => \A e \in page'.linked : edge'[e].ingested <= page'.read
  BY <1>2, <1>3 DEF LinksFit
<1>7. ASSUME page.step \in {"buttons", "shown"}
      PROVE  /\ \A e \in page'.linked : OfThisGoal(e)' => \E i \in page.rows : JoinsRow(e, i)'
             /\ \A i \in page.rows : \E e \in DOMAIN edge' \ page'.dead : JoinsRow(e, i)'
  <2>1. /\ \A e \in page.linked : OfThisGoal(e) => \E i \in page.rows : JoinsRow(e, i)
        /\ \A i \in page.rows : \E e \in DOMAIN edge \ page.dead : JoinsRow(e, i)
    BY <1>7 DEF LinksFit
  <2> QED BY <1>1, <1>2, <1>3, <1>4, <1>5, <2>1
<1>8. ASSUME page.step = "shown"
      PROVE  /\ \A e \in page'.linked, i \in page.rows :
                  OfThisGoal(e)' /\ JoinsRow(e, i)' => page.button[i] = e
             /\ \A i \in page.rows : page.button[i] # Null =>
                  page.button[i] \in DOMAIN edge' /\ JoinsRow(page.button[i], i)'
  <2>1. /\ \A e \in page.linked, i \in page.rows :
             OfThisGoal(e) /\ JoinsRow(e, i) => page.button[i] = e
        /\ \A i \in page.rows : page.button[i] # Null =>
             page.button[i] \in DOMAIN edge /\ JoinsRow(page.button[i], i)
    BY <1>8 DEF LinksFit
  <2> QED BY <1>1, <1>2, <1>3, <1>4, <1>5, <2>1
<1>9. page'.linked \subseteq DOMAIN edge' /\ page'.dead \subseteq DOMAIN edge' \ EdgesNow'
  BY <1>2, <1>3
<1> QED BY <1>6, <1>7, <1>8, <1>9 DEF LinksFit

(* Rows, links and buttons fit each other after every step.                *)
LEMMA LinksFitNext ==
  ASSUME IInv, TypesAgree, PageForm, LinksFit, [WebNext]_webVars
  PROVE  LinksFit'
<1>1. Bare' => LinksFit'
  BY DEF Bare, LinksFit
<1>2. RowsStay /\ EdgesStay
  BY PageStepIsStoreStep, StoreKeeps
<1>3. page \in Page
  BY DEF PageForm
<1>4. ASSUME page' = page PROVE LinksFit'
  BY <1>2, <1>4, LinksFitKept
<1>5. CASE page' = Later
  <2>1. ASSUME page.step = "shown", page.kind = "goal", page.at = Null,
               page'.kind = "goal", page'.at = Null, page'.step = "shown",
               page'.focal = page.focal, page'.rows = page.rows, page'.button = page.button,
               page'.read = page.read, page'.linked = {}, page'.dead = {}
        PROVE  LinksFit'
    BY <1>2, <2>1, LinksFitKept
  <2> QED BY <1>1, <1>3, <1>4, <1>5, <2>1, LaterKinds
<1>6. CASE Read
  <2>0. entry' = entry /\ edge' = edge /\ Live' = Live
    BY <1>6 DEF Read, OpenDetail, ReadChain, ReadActivities, ReadButtons, OpenGraph,
                ReadEdges, Fail, vars, Live
  <2>1. ASSUME NEW kind \in {"entry", "goal"}, NEW id \in EntryIds,
               NEW at \in Instants \cup {Null}, OpenDetail(kind, id, at)
        PROVE  LinksFit'
    <3>1. SUFFICES ASSUME ~Bare' PROVE LinksFit'
      BY <1>1
    <3>2. PICK i \in Live : OpenedFor(kind, id, at, i)
      BY <2>1, <3>1, OpenDetailFacts
    <3>3. /\ page'.step = "activities" \/ page'.step = "chain"
          /\ page'.linked \subseteq DOMAIN edge
          /\ page'.dead \subseteq DOMAIN edge \ EdgesNow
      BY <3>2 DEF OpenedFor, EdgesNow
    <3>4. EdgesNow' = EdgesNow
      BY <2>0 DEF EdgesNow
    <3> QED BY <2>0, <3>3, <3>4 DEF LinksFit
  <2>2. ASSUME NEW at \in Instants \cup {Null}, OpenGraph(at) PROVE LinksFit'
    BY <2>2, OpenGraphFacts DEF LinksFit
  <2>3. CASE ReadChain
    <3>1. /\ page.step = "chain" /\ SameRequest
          /\ page'.step \in {"shown", "activities"}
          /\ page'.step = "shown" => page.kind = "entry"
      BY <2>3, ReadChainFacts DEF ReadChain
    <3>2. page.kind = "goal" => page.at # Null
      BY <2>3 DEF ReadChain, PageForm
    <3>3. ~(page'.at = Null /\ page'.kind = "goal" /\ page'.step # "shown")
      BY <3>1, <3>2 DEF SameRequest
    <3>4. ~(page'.kind = "goal" /\ page'.step = "shown")
      BY <3>1 DEF SameRequest
    <3> QED BY <3>3, <3>4 DEF LinksFit
  <2>4. CASE ReadActivities
    <3>1. CASE page.at = Null
      BY <2>0, <2>4, <3>1, RowsOfLinks
    <3>2. CASE page.at # Null
      BY <2>4, <3>2, ReadActivitiesFacts DEF LinksFit, SameRequest
    <3> QED BY <3>1, <3>2
  <2>5. CASE ReadButtons
    BY <2>0, <2>5, ButtonsOfRows
  <2>6. CASE ReadEdges
    <3>1. page.kind = "graph"
      BY <2>6 DEF ReadEdges, PageForm
    <3> QED BY <2>6, <3>1, ReadEdgesFacts DEF LinksFit, SameRequest
  <2>7. CASE Fail
    BY <1>1, <2>7 DEF Fail, Blank, Bare, Page
  <2> QED BY <1>6, <2>1, <2>2, <2>3, <2>4, <2>5, <2>6, <2>7 DEF Read
<1>7. CASE Post
  BY <1>1, <1>3, <1>7, PostLeaves
<1>8. CASE UNCHANGED webVars
  BY <1>4, <1>8 DEF webVars
<1> QED BY <1>5, <1>6, <1>7, <1>8 DEF WebNext

(* handlers_detail.go:188: the three reads of a live goal page, with any   *)
(* write in between, give each link that stays one row, with the button    *)
(* that removes that link, and no row to a link that was gone.             *)
THEOREM ButtonsMatchRows == WebSpec => []ButtonsFit
<1>1. WebInit => LinksFit
  BY DEF WebInit, Blank, LinksFit
<1>2. IInv /\ TypesAgree /\ PageForm /\ LinksFit /\ [WebNext]_webVars => LinksFit'
  BY LinksFitNext
<1>3. ASSUME IInv, PageForm, LinksFit PROVE ButtonsFit
  <2> SUFFICES ASSUME page.step = "shown", page.at = Null, page.kind = "goal"
               PROVE  ButtonsFit
    BY DEF ButtonsFit
  <2>1. /\ \A e \in page.linked : OfThisGoal(e) => \E i \in page.rows : JoinsRow(e, i)
        /\ \A i \in page.rows : \E e \in DOMAIN edge \ page.dead : JoinsRow(e, i)
        /\ \A e \in page.linked, i \in page.rows :
             OfThisGoal(e) /\ JoinsRow(e, i) => page.button[i] = e
        /\ \A i \in page.rows : page.button[i] # Null => JoinsRow(page.button[i], i)
    BY <1>3 DEF LinksFit
  <2> QED BY <2>1 DEF ButtonsFit, JoinsRow, OfThisGoal
<1>4. WebSpec => []LinksFit
  BY <1>1, <1>2, PageInvariance, TypesAgreeAlways, FormAlways, PTL DEF WebSpec
<1> QED BY <1>3, <1>4, PageInvariance, FormAlways, PTL

-----------------------------------------------------------------------------
(* Pages of a past instant.                                                *)

(* The rule by which the page walks the chain picks at most one version.   *)
LEMMA LiveAtAsOfUnique ==
  ASSUME IInv, NEW t \in Nat, NEW l, NEW i \in LiveAtAsOf(Chain(l), t),
         NEW j \in LiveAtAsOf(Chain(l), t)
  PROVE  i = j
<1>1. \A k \in LiveAtAsOf(Chain(l), t) :
        /\ k \in DOMAIN entry /\ entry[k].logical = l
        /\ entry[k].ingested <= t /\ entry[k].ingested \in Nat
        /\ entry[k].version \in Nat
        /\ entry[k].next # Null => entry[entry[k].next].ingested > t
  BY DEF LiveAtAsOf, Chain, IInv, TypeOK, Row
<1>2. ASSUME NEW a \in LiveAtAsOf(Chain(l), t), NEW b \in LiveAtAsOf(Chain(l), t)
      PROVE  ~(entry[a].version < entry[b].version)
  <2> SUFFICES ASSUME entry[a].version < entry[b].version PROVE FALSE
    OBVIOUS
  <2>1. /\ entry[a].next # Null /\ entry[a].next \in DOMAIN entry
        /\ entry[entry[a].next].ingested <= entry[b].ingested
    BY <1>1, LaterHides
  <2>2. entry[entry[a].next].ingested \in Nat
    BY <2>1 DEF IInv, TypeOK, Row
  <2> QED BY <1>1, <2>1, <2>2
<1>3. entry[i].version = entry[j].version
  BY <1>1, <1>2
<1> QED BY <1>1, <1>3 DEF IInv, ChainOrder

(* The walk finds the last version written by then.                        *)
LEMMA WalkFindsTheLast ==
  ASSUME IInv, NEW t \in Nat, NEW l, NEW i \in Newest(WrittenBy(l, t))
  PROVE  i \in LiveAtAsOf(Chain(l), t)
<1>1. /\ i \in Chain(l) /\ i \in DOMAIN entry /\ entry[i].logical = l
      /\ entry[i].ingested <= t /\ entry[i].version \in Nat
  BY DEF Newest, WrittenBy, Chain, IInv, TypeOK, Row
<1>2. ASSUME entry[i].next # Null
      PROVE  entry[i].next \in Chain(l) /\ entry[entry[i].next].ingested > t
  <2> DEFINE k == entry[i].next
  <2>1. k \in Chain(l) /\ entry[k].version = entry[i].version + 1
    BY <1>1, <1>2 DEF IInv, Successors, Chain
  <2>2. entry[k].ingested \in Nat
    BY <2>1 DEF Chain, IInv, TypeOK, Row
  <2>3. k \notin WrittenBy(l, t)
    BY <1>1, <2>1 DEF Newest
  <2>4. ~(entry[k].ingested <= t)
    BY <2>1, <2>3 DEF WrittenBy
  <2> QED BY <2>1, <2>2, <2>4
<1> QED BY <1>1, <1>2 DEF LiveAtAsOf

(* When anything was written by then, there is a last version.             *)
LEMMA SomeVersionIsLast ==
  ASSUME IInv, NEW t \in Times, NEW l, WrittenBy(l, t) # {}
  PROVE  Newest(WrittenBy(l, t)) # {}
<1>1. PICK i \in WrittenBy(l, t) : TRUE
  OBVIOUS
<1>2. i \in DOMAIN entry /\ entry[i].ingested <= t /\ entry[i].logical = l
  BY DEF WrittenBy, Chain
<1>3. PICK j \in Chain(l) : Stood(j, t)
  BY <1>2, SomeVersionStood
<1>4. j \in DOMAIN entry /\ entry[j].logical = l /\ j \in WrittenBy(l, t) /\ t \in Nat
  BY <1>3, TimeAssumption DEF Stood, Chain, WrittenBy, Times
<1>5. ASSUME NEW k \in WrittenBy(l, t) PROVE entry[k].version <= entry[j].version
  <2>1. k \in Chain(l) /\ k \in DOMAIN entry /\ entry[k].ingested <= t
    BY DEF WrittenBy, Chain
  <2>2. entry[k].ingested \in Nat /\ entry[k].version \in Nat /\ entry[j].version \in Nat
    BY <1>4, <2>1 DEF IInv, TypeOK, Row
  <2>3. entry[k].version > entry[j].version => entry[k].ingested > t
    BY <1>3, <1>4, <2>1 DEF Stood
  <2> QED BY <1>4, <2>1, <2>2, <2>3
<1> QED BY <1>4, <1>5 DEF Newest

(* What had been written of an entity by an instant that is over stays so. *)
LEMMA WrittenByFixed ==
  ASSUME IInv, [Next]_vars, NEW t \in Times, t < clock, NEW l \in DOMAIN entry
  PROVE  /\ WrittenBy(l, t)' = WrittenBy(l, t)
         /\ Newest(WrittenBy(l, t))' = Newest(WrittenBy(l, t))
<1>1. RowsStay /\ EntryStep /\ t \in Nat /\ clock \in Nat
  BY StoreKeeps, StepKinds, TimeAssumption DEF IInv, Times
<1>2. ASSUME NEW i \in WrittenBy(l, t) PROVE i \in WrittenBy(l, t)'
  BY <1>1 DEF RowsStay, WrittenBy, Chain
<1>3. ASSUME NEW i \in WrittenBy(l, t)', i \notin DOMAIN entry PROVE FALSE
  <2>1. i \in DOMAIN entry' /\ entry'[i].logical = l /\ entry'[i].ingested <= t
    BY DEF WrittenBy, Chain
  <2>2. ASSUME NEW n \in EntryIds, Inserted(n) PROVE FALSE
    BY <1>3, <2>1, <2>2 DEF Inserted
  <2>3. ASSUME NEW old \in EntryIds, NEW n \in EntryIds, Superseded(old, n) PROVE FALSE
    <3>1. i = n
      BY <1>3, <2>1, <2>3 DEF Superseded
    <3>2. entry'[i].ingested = clock
      BY <2>3, <3>1 DEF Superseded
    <3> QED BY <1>1, <2>1, <3>2
  <2>4. ~EntriesKept
    BY <1>3, <2>1 DEF EntriesKept
  <2> QED BY <1>1, <2>2, <2>3, <2>4 DEF EntryStep
<1>4. ASSUME NEW i \in WrittenBy(l, t)' PROVE i \in WrittenBy(l, t)
  <2>1. i \in DOMAIN entry
    BY <1>3, <1>4
  <2> QED BY <1>1, <1>4, <2>1 DEF RowsStay, WrittenBy, Chain
<1>5. WrittenBy(l, t)' = WrittenBy(l, t)
  BY <1>2, <1>4
<1>6. \A i \in WrittenBy(l, t) : entry'[i].version = entry[i].version
  BY <1>1 DEF RowsStay, WrittenBy, Chain
<1> HIDE DEF WrittenBy
<1>7. Newest(WrittenBy(l, t))' = Newest(WrittenBy(l, t))
  BY <1>5, <1>6 DEF Newest
<1> QED BY <1>5, <1>7

(* The header is the last version written by the instant of the page.      *)
HeaderIsLast ==
  LET written == WrittenBy(entry[page.focal].logical, page.at)
  IN  written # {} => page.focal \in Newest(written)

HeaderFits ==
  page.past /\ page.kind # "graph" /\ page.step \in {"activities", "shown"} => HeaderIsLast

GraphFits ==
  page.past /\ page.step = "edges" => page.rows \subseteq EntriesAt(page.at)

(* The header of a page as of a past instant, once moved, stays right.     *)
LEMMA PastFitsNext ==
  ASSUME IInv, TypesAgree, PageForm, HeaderFits, GraphFits, [WebNext]_webVars
  PROVE  HeaderFits' /\ GraphFits'
<1>1. Bare' => HeaderFits' /\ GraphFits'
  BY DEF Bare, HeaderFits, GraphFits
<1>2. [Next]_vars /\ RowsStay
  BY PageStepIsStoreStep, StoreKeeps
<1>3. page \in Page /\ Instants \subseteq Times /\ (page.past => page.at # Null /\ page.at < clock)
  BY WebAssumption DEF PageForm
<1>0. page.past => page.at \in Times /\ page.at \in Nat
  <2>1. page.at \in Instants \cup {Null}
    BY <1>3 DEF Page
  <2>2. Times \subseteq Nat
    BY TimeAssumption DEF Times
  <2> QED BY <1>3, <2>1, <2>2
<1>4. ASSUME page' = page PROVE HeaderFits' /\ GraphFits'
  <2>1. page.past => page.at \in Times
    BY <1>0
  <2>2. page.past /\ page.kind # "graph" /\ page.step \in {"activities", "shown"} =>
          page.focal \in DOMAIN entry
    BY DEF PageForm, Detail
  <2>3. ASSUME page.past, page.kind # "graph", page.step \in {"activities", "shown"}
        PROVE  HeaderFits'
    <3> DEFINE l == entry[page.focal].logical
    <3>1. l \in DOMAIN entry /\ entry'[page.focal].logical = l
      BY <1>2, <2>2, <2>3 DEF IInv, Roots, RowsStay
    <3> DEFINE WrittenNow(k, t) == {i \in DOMAIN entry' : entry'[i].logical = k /\ entry'[i].ingested <= t}
               NewestNow(set) == {i \in set : \A j \in set : entry'[j].version <= entry'[i].version}
    <3>2. ASSUME NEW t \in Times, t < clock, NEW k \in DOMAIN entry
          PROVE  /\ WrittenNow(k, t) = WrittenBy(k, t)
                 /\ NewestNow(WrittenBy(k, t)) = Newest(WrittenBy(k, t))
      <4>1. WrittenBy(k, t)' = WrittenNow(k, t)
        BY DEF WrittenBy, Chain
      <4>2. Newest(WrittenBy(k, t))' = NewestNow(WrittenBy(k, t)')
        BY DEF Newest
      <4> QED BY <1>2, <3>2, <4>1, <4>2, WrittenByFixed
    <3>3. HeaderIsLast
      BY <2>3 DEF HeaderFits
    <3>4. HeaderIsLast' <=>
            (WrittenNow(l, page.at) # {} => page.focal \in NewestNow(WrittenNow(l, page.at)))
      BY <1>4, <3>1 DEF HeaderIsLast, WrittenBy, Newest, Chain
    <3>5. WrittenBy(l, page.at) # {} => page.focal \in Newest(WrittenBy(l, page.at))
      BY <3>3 DEF HeaderIsLast
    <3> HIDE DEF l, WrittenNow, NewestNow
    <3>6. HeaderIsLast'
      BY <1>3, <2>1, <2>3, <3>1, <3>2, <3>4, <3>5
    <3> QED BY <3>6 DEF HeaderFits
  <2>4. GraphFits'
    <3>1. ASSUME NEW t \in Times, t < clock PROVE EntriesAt(t) \subseteq EntriesAt(t)'
      BY <1>2, <3>1, PastEntriesKept DEF PastEntriesStep
    <3> QED BY <1>3, <1>4, <2>1, <3>1 DEF GraphFits, EntriesAt, WasCurrent
  <2> QED BY <1>4, <2>3, <2>4 DEF HeaderFits
<1>5. CASE page' = Later
  <2>1. ASSUME page.at = Null, page'.past = page.past PROVE HeaderFits' /\ GraphFits'
    BY <1>3, <2>1 DEF HeaderFits, GraphFits
  <2> QED BY <1>1, <1>3, <1>4, <1>5, <2>1, LaterKinds
<1>6. CASE Read
  <2>0. entry' = entry
    BY <1>6 DEF Read, OpenDetail, ReadChain, ReadActivities, ReadButtons, OpenGraph,
                ReadEdges, Fail, vars
  <2>1. ASSUME NEW kind \in {"entry", "goal"}, NEW id \in EntryIds,
               NEW at \in Instants \cup {Null}, OpenDetail(kind, id, at)
        PROVE  HeaderFits' /\ GraphFits'
    <3>1. SUFFICES ASSUME ~Bare' PROVE HeaderFits' /\ GraphFits'
      BY <1>1
    <3>2. PICK i \in Live : OpenedFor(kind, id, at, i)
      BY <2>1, <3>1, OpenDetailFacts
    <3>3. page'.past => at # Null
      BY <3>2 DEF OpenedFor
    <3>4. page'.step = IF kind = "goal" /\ at = Null THEN "activities" ELSE "chain"
      BY <3>2 DEF OpenedFor
    <3> QED BY <3>3, <3>4 DEF HeaderFits, GraphFits
  <2>2. ASSUME NEW at \in Instants \cup {Null}, OpenGraph(at)
        PROVE  HeaderFits' /\ GraphFits'
    <3>1. /\ page'.kind = "graph" /\ page'.at = at /\ page'.rows = ListedEntries(at)
          /\ page'.past => at # Null /\ at < clock
      BY <2>2, OpenGraphFacts
    <3>2. at # Null => ListedEntries(at) \subseteq EntriesAt(at)
      BY DEF ListedEntries
    <3>4. page'.past => page'.rows \subseteq EntriesAt(at)
      BY <3>1, <3>2
    <3> QED BY <2>0, <3>1, <3>4 DEF HeaderFits, GraphFits, EntriesAt, WasCurrent
  <2>3. CASE ReadChain
    <3> DEFINE history == Chain(entry[page.focal].logical)
               then == LiveAtAsOf(history, page.at)
               l == entry[page.focal].logical
    <3>1. /\ SameRequest
          /\ page.at # Null => page'.focal \in IF then = {} THEN {page.focal} ELSE Newest(then)
          /\ page'.focal \in history
          /\ page'.step \in {"shown", "activities"}
      BY <2>3, ReadChainFacts
    <3>2. ASSUME page.past, WrittenBy(l, page.at) # {}
          PROVE  page'.focal \in Newest(WrittenBy(l, page.at))
      <4>1. page.at \in Nat /\ page.at \in Times
        BY <1>0, <3>2
      <4>2. PICK i \in Newest(WrittenBy(l, page.at)) : TRUE
        BY <3>2, <4>1, SomeVersionIsLast
      <4>3. i \in then
        BY <4>1, WalkFindsTheLast
      <4>4. page'.focal \in then
        BY <1>3, <3>1, <3>2, <4>3 DEF Newest
      <4>5. i = page'.focal
        BY <4>1, <4>3, <4>4, LiveAtAsOfUnique
      <4> QED BY <4>5
    <3>3. entry[page'.focal].logical = l
      BY <3>1 DEF Chain
    <3> HIDE DEF history, then, l
    <3>4. page.past => HeaderIsLast'
      BY <2>0, <3>1, <3>2, <3>3 DEF HeaderIsLast, SameRequest, WrittenBy, Newest, Chain
    <3> QED BY <2>0, <3>1, <3>4 DEF HeaderFits, GraphFits, SameRequest, EntriesAt, WasCurrent
  <2>4. CASE ReadActivities
    <3>1. /\ page.step = "activities" /\ SameRequest /\ page'.focal = page.focal
          /\ page'.step \in {"buttons", "shown"}
      BY <2>4, ReadActivitiesFacts DEF ReadActivities
    <3>2. page.past => HeaderIsLast'
      BY <2>0, <3>1 DEF HeaderFits, HeaderIsLast, SameRequest, WrittenBy, Newest, Chain, PageForm, Detail
    <3> QED BY <2>0, <3>1, <3>2 DEF HeaderFits, GraphFits, SameRequest, EntriesAt, WasCurrent
  <2>5. CASE ReadButtons
    <3>1. ~page.past
      BY <2>5 DEF ReadButtons, PageForm
    <3> QED BY <2>5, <3>1, ReadButtonsFacts DEF HeaderFits, GraphFits, SameRequest
  <2>6. CASE ReadEdges
    <3>1. page.kind = "graph"
      BY <2>6 DEF ReadEdges, PageForm
    <3> QED BY <2>6, <3>1, ReadEdgesFacts DEF HeaderFits, GraphFits, SameRequest
  <2>7. CASE Fail
    BY <1>1, <2>7 DEF Fail, Blank, Bare, Page
  <2> QED BY <1>6, <2>1, <2>2, <2>3, <2>4, <2>5, <2>6, <2>7 DEF Read
<1>7. CASE Post
  BY <1>1, <1>3, <1>7, PostLeaves
<1>8. CASE UNCHANGED webVars
  BY <1>4, <1>8 DEF webVars
<1> QED BY <1>5, <1>6, <1>7, <1>8 DEF WebNext

(* Both hold in every state.                                               *)
LEMMA PastFitsAlways == WebSpec => [](HeaderFits /\ GraphFits)
<1>1. WebInit => HeaderFits /\ GraphFits
  BY DEF WebInit, Blank, HeaderFits, GraphFits
<1>2. IInv /\ TypesAgree /\ PageForm /\ (HeaderFits /\ GraphFits) /\ [WebNext]_webVars
        => (HeaderFits /\ GraphFits)'
  BY PastFitsNext
<1> QED BY <1>1, <1>2, PageInvariance, TypesAgreeAlways, FormAlways, PTL DEF WebSpec

(* What the query shows and the last version differ by stamps it misreads. *)
LEMMA QueryMisreadsOrShowsLast ==
  ASSUME Decimal, IInv, NEW t \in Nat, NEW epoch \in Nat, NEW l,
         NEW i \in StoredEntriesAt(t, epoch) \cap Chain(l),
         NEW f, WrittenBy(l, t) # {} => f \in Newest(WrittenBy(l, t))
  PROVE  i = f \/ Misread(i, t, epoch)
<1> SUFFICES ASSUME ~Misread(i, t, epoch) PROVE i = f
  OBVIOUS
<1>1. /\ i \in DOMAIN entry /\ entry[i].logical = l /\ i \in Chain(l)
      /\ entry[i].ingested \in Nat /\ entry[i].version \in Nat
      /\ TextLeq(Text(epoch + entry[i].ingested), Text(epoch + t))
      /\ \/ entry[i].next = Null
         \/ TextLess(Text(epoch + t), Text(epoch + entry[entry[i].next].ingested))
  BY DEF StoredEntriesAt, Chain, IInv, TypeOK, Row
<1>2. \A s \in Nat : epoch + s \in Nat
  OBVIOUS
<1>3. entry[i].ingested <= t
  <2> DEFINE s == entry[i].ingested
  <2>1. ~CutOff(epoch + t, epoch + s)
    BY DEF Misread
  <2>2. epoch + s <= epoch + t
    BY <1>1, <1>2, <2>1, OnlyCutOffsMislead
  <2> QED BY <1>1, <2>2
<1>4. i \in WrittenBy(l, t)
  BY <1>1, <1>3 DEF WrittenBy
<1>5. f \in Newest(WrittenBy(l, t))
  BY <1>4
<1>6. /\ f \in DOMAIN entry /\ entry[f].logical = l /\ entry[f].ingested <= t
      /\ entry[i].version <= entry[f].version
      /\ entry[f].ingested \in Nat /\ entry[f].version \in Nat
  BY <1>4, <1>5 DEF Newest, WrittenBy, Chain, IInv, TypeOK, Row
<1>7. ASSUME entry[i].version < entry[f].version PROVE FALSE
  <2> DEFINE k == entry[i].next
             s == entry[k].ingested
  <2>1. k # Null /\ k \in DOMAIN entry /\ s <= entry[f].ingested
    BY <1>1, <1>6, <1>7, LaterHides
  <2>2. s \in Nat
    BY <2>1 DEF IInv, TypeOK, Row
  <2>3. ~CutOff(epoch + s, epoch + t)
    BY <2>1 DEF Misread
  <2>4. TextLess(Text(epoch + t), Text(epoch + s))
    BY <1>1, <2>1
  <2> HIDE DEF s
  <2>5. epoch + t < epoch + s
    BY <1>2, <2>2, <2>3, <2>4, OnlyCutOffsMislead
  <2> QED BY <1>6, <2>1, <2>2, <2>5
<1>8. entry[i].version = entry[f].version
  BY <1>1, <1>6, <1>7
<1> QED BY <1>1, <1>6, <1>8 DEF IInv, ChainOrder

(* handlers_detail.go:246, queries_temporal.go:39: the walk along the chain*)
(* ends at the last version written by the instant of the page; the query  *)
(* shows no other, but where it misreads a stamp.                          *)
THEOREM HeadersAgreeWithQueries ==
  ASSUME Decimal
  PROVE  WebSpec => []AsOfHeaderAgrees
<1>1. ASSUME IInv, PageForm, HeaderFits PROVE AsOfHeaderAgrees
  <2> SUFFICES ASSUME page.step = "shown", page.kind # "graph", page.past
               PROVE  LET l == entry[page.focal].logical
                      IN  /\ WrittenBy(l, page.at) # {} => page.focal \in Newest(WrittenBy(l, page.at))
                          /\ \A epoch \in Epochs : \A i \in StoredEntriesAt(page.at, epoch) \cap Chain(l) :
                               i = page.focal \/ Misread(i, page.at, epoch)
    BY DEF AsOfHeaderAgrees
  <2>1. page.at \in Nat /\ Epochs \subseteq Nat
    <3>1. page \in Page /\ page.at # Null
      BY <1>1 DEF PageForm
    <3>2. page.at \in Instants
      BY <3>1 DEF Page
    <3>3. Times \subseteq Nat
      BY TimeAssumption DEF Times
    <3> QED BY <3>2, <3>3, WebAssumption
  <2>2. HeaderIsLast
    BY <1>1 DEF HeaderFits
  <2> QED BY <1>1, <2>1, <2>2, QueryMisreadsOrShowsLast DEF HeaderIsLast
<1> QED BY <1>1, PageInvariance, FormAlways, PastFitsAlways, PTL

(* In the picture a dot belongs to a goal exactly when a link says so.     *)
LEMMA DrawnByLinks ==
  ASSUME NEW rows, NEW links, NEW home \in T!LaneChoices(rows, links),
         NEW i \in T!Dots(rows), NEW g \in T!Goals(rows), Orphan # g
  PROVE  T!DrawnOn(rows, links, home, i, g) <=> <<rows[i].logical, rows[g].logical>> \in links
<1>1. /\ i \in DOMAIN rows /\ g \in DOMAIN rows
      /\ g \notin T!Dots(rows)
      /\ IF T!HomeGoals(rows, links, i) = {} THEN home[i] = Orphan
                                             ELSE home[i] \in T!HomeGoals(rows, links, i)
  BY DEF T!Dots, T!Goals, T!LaneChoices
<1>2. home[i] = g => <<rows[i].logical, rows[g].logical>> \in links
  BY <1>1 DEF T!HomeGoals, T!EntryKey
<1>3. <<rows[i].logical, rows[g].logical>> \in links /\ home[i] # g =>
        <<rows[i].logical, rows[g].logical>> \in T!Paths(rows, links, home)
  BY <1>1 DEF T!Paths, T!LaneOf, T!EntryKey
<1>4. T!Paths(rows, links, home) \subseteq links
  BY DEF T!Paths
<1> QED BY <1>2, <1>3, <1>4 DEF T!DrawnOn, T!EntryKey

(* handlers_graph.go:57, layout.go:25: the graph of a past instant gives a *)
(* goal the activities that the page of the goal as of that instant lists. *)
THEOREM GraphAndGoalPageAgree == WebSpec => GraphAgreesWithGoalPage
<1>1. ASSUME IInv, PageForm, GraphFits, [WebNext]_webVars PROVE [GraphStep]_webVars
  <2> SUFFICES ASSUME page.step = "edges", page'.step = "shown", page.past
               PROVE  GraphStep
    BY DEF GraphStep
  <2>1. page \in Page /\ page.at # Null
    BY <1>1 DEF PageForm
  <2>2. ReadEdges
    <3>1. ~Bare'
      BY DEF Bare
    <3>2. ~Post
      BY <1>1, <2>1, <3>1, PostLeaves
    <3>3. page' # page /\ page' # Later
      BY DEF Later
    <3>4. Read
      BY <1>1, <3>2, <3>3 DEF WebNext, webVars
    <3> QED BY <3>4 DEF Read, OpenDetail, OpenGraph, MayRequest, ReadChain, ReadActivities,
                        ReadButtons, Fail, Blank
  <2>3. page'.links = {<<edge[e].from, edge[e].to>> : e \in EdgesAt(page.at)}
    BY <1>1, <2>1, <2>2, ReadEdgesFacts
  <2>4. page.rows \subseteq EntriesAt(page.at) /\ page.rows \subseteq EntryIds
    BY <1>1, <2>1 DEF GraphFits, Page
  <2> DEFINE rows == Restrict(entry, page.rows)
  <2>5. DOMAIN rows = page.rows /\ \A i \in page.rows : rows[i] = entry[i]
    BY DEF Restrict
  <2> HIDE DEF rows
  <2>6. ASSUME NEW home \in T!LaneChoices(rows, page'.links),
               NEW i \in T!Dots(rows), NEW g \in T!Goals(rows), rows[i].type = "activity"
        PROVE  T!DrawnOn(rows, page'.links, home, i, g) <=> i \in GoalActivitiesAt(g, page.at)
    <3>1. i \in page.rows /\ g \in page.rows
      BY <2>5 DEF T!Dots, T!Goals
    <3>2. g # Orphan
      BY <2>4, <3>1, WebAssumption
    <3>3. T!DrawnOn(rows, page'.links, home, i, g)
            <=> <<entry[i].logical, entry[g].logical>> \in page'.links
      BY <2>5, <3>1, <3>2, DrawnByLinks
    <3>4. i \in EntriesAt(page.at) /\ entry[i].type = "activity"
      BY <2>4, <2>5, <2>6, <3>1
    <3> QED BY <2>3, <3>3, <3>4 DEF GoalActivitiesAt
  <2> QED BY <2>6 DEF GraphStep, rows
<1> QED BY <1>1, PageInvariance, FormAlways, PastFitsAlways, PTL
        DEF WebSpec, GraphAgreesWithGoalPage

-----------------------------------------------------------------------------
(* Dots on a line.                                                         *)

(* What Timeline draws has a finite number of dots, with instants.         *)
Drawable(rows) ==
  /\ IsFiniteSet(DOMAIN rows)
  /\ \A i \in DOMAIN rows : rows[i].occurred \in Nat

(* The instants of the dots lie between the least and the greatest.        *)
LEMMA OccurredRange ==
  ASSUME NEW rows, Drawable(rows), T!Dots(rows) # {}
  PROVE  LET first == T!Min(T!Occurred(rows))
         IN  /\ first \in Nat
             /\ T!SpanDays(rows) \in Nat
             /\ \A i \in T!Dots(rows) :
                  rows[i].occurred - first \in 0 .. T!SpanDays(rows)
<1> DEFINE S == T!Dots(rows)
           f == [i \in S |-> rows[i].occurred]
           g == [i \in S |-> -rows[i].occurred]
<1>1. IsFiniteSet(S)
  BY FS_Subset DEF Drawable, T!Dots
<1>2. \A i \in S : rows[i].occurred \in Nat
  BY DEF Drawable, T!Dots
<1>3. f \in [S -> Int] /\ g \in [S -> Int]
  BY <1>2
<1>4. PICK m \in S : \A i \in S : f[i] <= f[m]
  <2> HIDE DEF f, S
  <2> QED BY <1>1, <1>3, LargestValue DEF S
<1>5. PICK l \in S : \A i \in S : g[i] <= g[l]
  <2> HIDE DEF g, S
  <2> QED BY <1>1, <1>3, LargestValue DEF S
<1>6. \A i \in S : rows[i].occurred <= rows[m].occurred
  BY <1>4
<1>7. \A i \in S : rows[l].occurred <= rows[i].occurred
  BY <1>2, <1>5
<1> DEFINE O == T!Occurred(rows)
<1>8. O = {rows[i].occurred : i \in S}
  BY DEF T!Occurred
<1> HIDE DEF S, O
<1>9. T!Max(O) \in O /\ \A x \in O : T!Max(O) >= x
  BY <1>2, <1>6, <1>8 DEF T!Max
<1>10. T!Min(O) \in O /\ \A x \in O : T!Min(O) <= x
  BY <1>2, <1>7, <1>8 DEF T!Min
<1>11. O \subseteq Nat
  BY <1>2, <1>8
<1>12. T!SpanDays(rows) = T!Max(O) - T!Min(O)
  BY DEF T!SpanDays, O
<1>13. T!Max(O) \in Nat /\ T!Min(O) \in Nat /\ T!Min(O) <= T!Max(O)
  BY <1>9, <1>10, <1>11
<1>14. T!SpanDays(rows) \in Nat
  BY <1>12, <1>13
<1>15. ASSUME NEW i \in S
       PROVE  rows[i].occurred - T!Min(O) \in 0 .. T!SpanDays(rows)
  <2>1. rows[i].occurred \in O
    BY <1>8
  <2>2. /\ rows[i].occurred \in Nat /\ T!Min(O) <= rows[i].occurred
        /\ rows[i].occurred <= T!Max(O)
    BY <1>9, <1>10, <1>11, <1>13, <2>1
  <2> QED BY <1>12, <1>13, <2>2
<1> QED BY <1>13, <1>14, <1>15 DEF S, O

(* A longer way takes more pixels.                                         *)
LEMMA PixelsGrow ==
  ASSUME NEW a \in Nat, NEW b \in Nat, a <= b, NEW p \in Nat, NEW d \in Nat \ {0}
  PROVE  /\ (a * p) \div d \in Nat /\ (b * p) \div d \in Nat
         /\ (a * p) \div d <= (b * p) \div d
<1> DEFINE x == a * p
           y == b * p
<1>1. x \in Nat /\ y \in Nat /\ x <= y
  <2>1. p * a <= p * b
    BY Monotone
  <2> QED BY <2>1
<1> HIDE DEF x, y
<1> DEFINE q == x \div d
           r == y \div d
<1>2. q \in Nat /\ r \in Nat
  BY <1>1
<1>3. d * q <= x
  BY <1>1
<1>4. y < d * r + d
  BY <1>1
<1> HIDE DEF q, r
<1>5. q <= r
  <2> SUFFICES ASSUME r < q PROVE FALSE
    BY <1>2
  <2>1. d * (r + 1) <= d * q
    BY <1>2, Monotone
  <2>2. d * (r + 1) = d * r + d
    BY <1>2
  <2>3. d * r \in Nat /\ d * q \in Nat
    BY <1>2
  <2> QED BY <1>1, <1>3, <1>4, <2>1, <2>2, <2>3
<1> QED BY <1>2, <1>5 DEF x, y, q, r

(* A later event is not further left, and none is left of the band.        *)
LEMMA XOfInOrder ==
  ASSUME NEW rows, Drawable(rows), NEW ppd \in Int,
         NEW i \in T!Dots(rows), NEW j \in T!Dots(rows),
         rows[i].occurred <= rows[j].occurred
  PROVE  /\ T!XOf(rows, ppd, rows[i].occurred) \in Nat
         /\ T!XOf(rows, ppd, rows[j].occurred) \in Nat
         /\ T!XOf(rows, ppd, rows[i].occurred) <= T!XOf(rows, ppd, rows[j].occurred)
<1> DEFINE first == T!Min(T!Occurred(rows))
           d == T!SpanDays(rows)
           p == T!SpanPx(rows, ppd)
           a == rows[i].occurred - first
           b == rows[j].occurred - first
<1>1. first \in Nat /\ d \in Nat /\ a \in 0 .. d /\ b \in 0 .. d
  BY OccurredRange
<1>2. rows[i].occurred \in Nat /\ rows[j].occurred \in Nat
  BY DEF Drawable, T!Dots
<1>3. a \in Nat /\ b \in Nat /\ a <= b
  BY <1>1, <1>2
<1>4. T!ClampPxPerDay(ppd) \in Int
  BY DEF T!ClampPxPerDay, T!DefaultPxPerDay, T!MinPxPerDay, T!MaxPxPerDay
<1> DEFINE q == d * T!ClampPxPerDay(ppd)
<1>5. q \in Int
  BY <1>1, <1>4
<1>6. p = T!Max({q, 240})
  BY DEF T!SpanPx, T!MinSpanPx
<1>7. p \in Nat
  <2> HIDE DEF q, p
  <2> QED BY <1>5, <1>6 DEF T!Max
<1>8. T!XOf(rows, ppd, rows[i].occurred) = IF d = 0 THEN 178 ELSE 178 + (a * p) \div d
  BY DEF T!XOf, T!BandLeft
<1>9. T!XOf(rows, ppd, rows[j].occurred) = IF d = 0 THEN 178 ELSE 178 + (b * p) \div d
  BY DEF T!XOf, T!BandLeft
<1> HIDE DEF first, d, p, a, b, q
<1>10. CASE d = 0
  BY <1>8, <1>9, <1>10
<1>11. CASE d # 0
  <2>1. d \in Nat \ {0}
    BY <1>1, <1>11
  <2>2. /\ (a * p) \div d \in Nat /\ (b * p) \div d \in Nat
        /\ (a * p) \div d <= (b * p) \div d
    BY <1>3, <1>7, <2>1, PixelsGrow
  <2> QED BY <1>8, <1>9, <1>11, <2>2
<1> QED BY <1>10, <1>11

(* The nudge, with the gap of seventeen pixels.                            *)
LEMMA NudgeIs ==
  \A a, b \in Int : T!Nudge(a, b) = IF a < b + 17 THEN b + 17 ELSE a
BY DEF T!Nudge, T!Max, T!MinGap

(* The pass over a lane: each dot is nudged off the one before.            *)
LEMMA PlacedStep ==
  ASSUME NEW n \in Nat, NEW w \in [1 .. n -> Int]
  PROVE  LET x == T!Placed(w)
         IN  /\ x \in [1 .. n -> Int]
             /\ \A k \in 1 .. n :
                  x[k] = T!Nudge(w[k], IF k = 1 THEN T!FarLeft ELSE x[k - 1])
<1> DEFINE Unfolds(g) == g = [k \in 0 .. n |->
                           IF k = 0 THEN T!FarLeft ELSE T!Nudge(w[k], g[k - 1])]
           f == CHOOSE g : Unfolds(g)
           step == [k \in 1 .. n |-> [v \in Int |-> T!Nudge(w[k], v)]]
<1>1. \A k \in 1 .. n : \A v \in Int : T!Nudge(w[k], v) \in Int
  <2>1. \A a, b \in Int : T!Nudge(a, b) \in Int
    BY NudgeIs
  <2>2. \A k \in 1 .. n : w[k] \in Int
    OBVIOUS
  <2> QED BY <2>1, <2>2
<1>2. step \in [1 .. n -> [Int -> Int]]
  <2>1. ASSUME NEW k \in 1 .. n
        PROVE  [v \in Int |-> T!Nudge(w[k], v)] \in [Int -> Int]
    <3> DEFINE g == [v \in Int |-> T!Nudge(w[k], v)]
    <3>1. \A v \in Int : g[v] \in Int
      BY <1>1
    <3> QED BY <3>1
  <2> QED BY <2>1
<1>3. T!FarLeft \in Int
  BY SMT DEF T!FarLeft
<1>4. Len(w) = n /\ DOMAIN w = 1 .. n
  OBVIOUS
<1>5. T!Placed(w) = [k \in 1 .. n |-> f[k]]
  BY <1>4 DEF T!Placed
<1> HIDE DEF f, step
<1>6. PICK h \in [0 .. n -> Int] :
        h[0] = T!FarLeft /\ \A k \in 1 .. n : h[k] = step[k][h[k - 1]]
  <2>1. Recursions(Int, T!FarLeft, n, step) # {}
    BY <1>2, <1>3, PrefixRecursion
  <2> QED BY <2>1 DEF Recursions
<1>7. \A k \in 0 .. n : h[k] = IF k = 0 THEN T!FarLeft ELSE T!Nudge(w[k], h[k - 1])
  <2>1. ASSUME NEW k \in 1 .. n PROVE h[k] = T!Nudge(w[k], h[k - 1])
    <3>1. h[k - 1] \in Int
      OBVIOUS
    <3> QED BY <1>6, <3>1 DEF step
  <2> QED BY <1>6, <2>1
<1>8. Unfolds(h)
  <2>1. h = [k \in 0 .. n |-> h[k]]
    OBVIOUS
  <2> QED BY <1>7, <2>1
<1>9. Unfolds(f)
  <2> HIDE DEF Unfolds
  <2> QED BY <1>8 DEF f
<1>10. \A k \in 0 .. n : f[k] = IF k = 0 THEN T!FarLeft ELSE T!Nudge(w[k], f[k - 1])
  BY <1>9
<1>11. \A k \in 0 .. n : f[k] \in Int
  <2> DEFINE R == {k \in Nat : k <= n => f[k] \in Int}
  <2>1. 0 \in R
    BY <1>3, <1>10
  <2>2. ASSUME NEW k \in Nat, k \in R PROVE k + 1 \in R
    <3> SUFFICES ASSUME k + 1 <= n PROVE f[k + 1] \in Int
      OBVIOUS
    <3>1. f[k + 1] = T!Nudge(w[k + 1], f[k]) /\ f[k] \in Int /\ k + 1 \in 1 .. n
      BY <1>10, <2>2
    <3> QED BY <1>1, <3>1
  <2>3. \A k \in Nat : k \in R
    <3> HIDE DEF R
    <3> QED BY <2>1, <2>2, SetInduction
  <2> QED BY <2>3
<1> DEFINE x == T!Placed(w)
<1>12. x \in [1 .. n -> Int]
  BY <1>5, <1>11
<1>13. ASSUME NEW k \in 1 .. n
       PROVE  x[k] = T!Nudge(w[k], IF k = 1 THEN T!FarLeft ELSE x[k - 1])
  <2>1. x[k] = T!Nudge(w[k], f[k - 1])
    BY <1>5, <1>10
  <2>2. k = 1 => f[k - 1] = T!FarLeft
    BY <1>10
  <2>3. k # 1 => f[k - 1] = x[k - 1]
    BY <1>5
  <2> QED BY <2>1, <2>2, <2>3
<1> QED BY <1>12, <1>13

(* After the pass, over wishes in order: no dot is left of its wish, the   *)
(* k-th at most k - 1 gaps right of it, and all are a gap apart.           *)
LEMMA PlacedInOrder ==
  ASSUME NEW n \in Nat, NEW w \in [1 .. n -> Nat],
         \A k \in 1 .. n : \A j \in 1 .. k - 1 : w[j] <= w[k]
  PROVE  LET x == T!Placed(w)
         IN  /\ x \in [1 .. n -> Int]
             /\ \A k \in 1 .. n :
                  /\ x[k] - w[k] \in 0 .. (k - 1) * T!MinGap
                  /\ \A j \in 1 .. k - 1 : x[j] + T!MinGap <= x[k]
<1>a. \A a, b, c \in Int : a + 17 <= b /\ b + 17 <= c => a + 17 <= c
  OBVIOUS
<1>b. \A v, p, y \in Int :
        y = (IF v < p + 17 THEN p + 17 ELSE v) => v <= y /\ p + 17 <= y
  OBVIOUS
<1>c. \A v, u, p, y, m \in Int :
        /\ 0 <= m /\ u <= v /\ p <= u + (m - 1) * 17
        /\ y = (IF v < p + 17 THEN p + 17 ELSE v)
        => y <= v + ((m + 1) - 1) * 17
  OBVIOUS
<1> DEFINE x == T!Placed(w)
<1>1. /\ x \in [1 .. n -> Int]
      /\ \A k \in 1 .. n :
           x[k] = T!Nudge(w[k], IF k = 1 THEN T!FarLeft ELSE x[k - 1])
  BY PlacedStep
<1> HIDE DEF x
<1>2. \A a, b \in Int : T!Nudge(a, b) = IF a < b + 17 THEN b + 17 ELSE a
  BY NudgeIs
<1>3. T!FarLeft \in Int /\ T!FarLeft + 17 <= 0
  BY SMT DEF T!FarLeft
<1>4. ASSUME 1 \in 1 .. n PROVE x[1] = w[1]
  <2>1. x[1] = T!Nudge(w[1], T!FarLeft) /\ w[1] \in Nat
    BY <1>1, <1>4
  <2>2. T!Nudge(w[1], T!FarLeft) = IF w[1] < T!FarLeft + 17 THEN T!FarLeft + 17 ELSE w[1]
    <3>1. w[1] \in Int
      BY <2>1
    <3> HIDE <2>1
    <3> QED BY <1>2, <1>3, <3>1
  <2>3. ~(w[1] < T!FarLeft + 17)
    BY <1>3, <2>1
  <2> QED BY <2>1, <2>2, <2>3
<1>5. ASSUME NEW k \in 1 .. n, k # 1
      PROVE  x[k] = IF w[k] < x[k - 1] + 17 THEN x[k - 1] + 17 ELSE w[k]
  <2>1. x[k] = T!Nudge(w[k], x[k - 1])
    BY <1>1, <1>5
  <2>2. w[k] \in Int /\ x[k - 1] \in Int
    BY <1>1, <1>5
  <2> QED BY <1>2, <2>1, <2>2
<1> DEFINE Fits(k) == /\ w[k] <= x[k] /\ x[k] <= w[k] + (k - 1) * 17
                      /\ \A j \in 1 .. k - 1 : x[j] + 17 <= x[k]
           S == {k \in Nat : k \in 1 .. n => Fits(k)}
<1>6. 0 \in S
  OBVIOUS
<1>7. ASSUME NEW m \in Nat, m \in S PROVE m + 1 \in S
  <2> SUFFICES ASSUME m + 1 \in 1 .. n PROVE Fits(m + 1)
    OBVIOUS
  <2>1. CASE m = 0
    <3>1. x[1] = w[1] /\ w[1] \in Nat
      BY <1>4, <2>1
    <3> QED BY <2>1, <3>1
  <2>2. CASE m # 0
    <3>1. Fits(m)
      BY <1>7, <2>2
    <3>2. x[m + 1] = IF w[m + 1] < x[m] + 17 THEN x[m] + 17 ELSE w[m + 1]
      BY <1>5, <2>2
    <3>3. w[m] <= w[m + 1] /\ w[m] \in Int /\ w[m + 1] \in Int
      BY <2>2
    <3>4. x[m] \in Int /\ x[m + 1] \in Int
      BY <1>1, <2>2
    <3>5. w[m + 1] <= x[m + 1] /\ x[m] + 17 <= x[m + 1]
      <4> HIDE DEF S, Fits
      <4> QED BY <1>b, <3>2, <3>3, <3>4
    <3>6. x[m + 1] <= w[m + 1] + ((m + 1) - 1) * 17
      <4>1. x[m] <= w[m] + (m - 1) * 17 /\ 0 <= m /\ m \in Int
        BY <3>1
      <4> HIDE DEF S, Fits
      <4> QED BY <1>c, <3>2, <3>3, <3>4, <4>1
    <3>7. ASSUME NEW j \in 1 .. (m + 1) - 1 PROVE x[j] + 17 <= x[m + 1]
      <4>1. CASE j = m
        BY <3>5, <4>1
      <4>2. CASE j # m
        <5>1. j \in 1 .. m - 1 /\ x[j] \in Int
          BY <1>1, <4>2
        <5>2. x[j] + 17 <= x[m]
          BY <3>1, <5>1
        <5>3. x[m] + 17 <= x[m + 1] /\ x[m] \in Int /\ x[m + 1] \in Int
          BY <3>4, <3>5
        <5> HIDE DEF S, Fits
        <5> QED BY <1>a, <5>1, <5>2, <5>3
      <4> QED BY <4>1, <4>2
    <3> QED BY <3>5, <3>6, <3>7
  <2> QED BY <2>1, <2>2
<1>8. \A k \in Nat : k \in S
  <2> HIDE DEF S
  <2> QED BY <1>6, <1>7, SetInduction
<1>9. ASSUME NEW k \in 1 .. n
      PROVE  /\ x[k] - w[k] \in 0 .. (k - 1) * 17
             /\ \A j \in 1 .. k - 1 : x[j] + 17 <= x[k]
  <2>1. Fits(k) /\ x[k] \in Int /\ w[k] \in Nat
    BY <1>1, <1>8
  <2> QED BY <2>1
<1> QED BY <1>1, <1>9 DEF x, T!MinGap

(* A lane's dots in the order of their events are numbered from one.       *)
LEMMA BucketOfLane ==
  ASSUME NEW rows, Drawable(rows), NEW home, NEW lane,
         NEW bucket \in T!Buckets(rows, home, lane)
  PROVE  \E n \in Nat :
           /\ bucket \in [1 .. n -> T!Dots(rows)]
           /\ \A k \in 1 .. n : \A j \in 1 .. k - 1 :
                rows[bucket[j]].occurred <= rows[bucket[k]].occurred
<1> DEFINE S == {i \in T!Dots(rows) : home[i] = lane}
           n == Cardinality(S)
<1>1. IsFiniteSet(S)
  BY FS_Subset DEF Drawable, T!Dots
<1>2. n \in Nat
  BY <1>1, FS_CardinalityType
<1>3. T!Cardinality(S) = n
  BY DEF T!Cardinality, Cardinality
<1>4. bucket \in [1 .. n -> S]
  BY <1>3 DEF T!Buckets, T!SetToSeqs
<1>5. \A k \in DOMAIN bucket : \A j \in 1 .. k - 1 :
        rows[bucket[j]].occurred <= rows[bucket[k]].occurred
  BY DEF T!Buckets
<1>6. bucket \in [1 .. n -> T!Dots(rows)] /\ DOMAIN bucket = 1 .. n
  BY <1>4
<1> HIDE DEF n
<1> QED BY <1>2, <1>5, <1>6

(* layout.go:387: there always is such an order.                           *)
LEMMA LaneHasABucket ==
  ASSUME NEW rows, Drawable(rows), NEW home, NEW lane
  PROVE  T!Buckets(rows, home, lane) # {}
<1> DEFINE S == {i \in T!Dots(rows) : home[i] = lane}
           n == Cardinality(S)
           f == [i \in S |-> rows[i].occurred]
<1>1. IsFiniteSet(S)
  BY FS_Subset DEF Drawable, T!Dots
<1>2. f \in [S -> Int]
  BY DEF Drawable, T!Dots
<1>3. T!Cardinality(S) = n
  BY DEF T!Cardinality, Cardinality
<1>4. n \in Nat
  BY <1>1, FS_CardinalityType
<1> HIDE DEF S, f
<1>5. PICK b \in [1 .. n -> S] :
        \A k \in 1 .. n : \A j \in 1 .. k - 1 : b[j] # b[k] /\ f[b[j]] <= f[b[k]]
  BY <1>1, <1>2, SortedEnumeration
<1> HIDE DEF n
<1>6. ASSUME NEW i \in 1 .. n, NEW j \in 1 .. n, i # j
      PROVE  b[i] # b[j]
  <2>1. CASE i < j
    BY <1>4, <1>5, <2>1
  <2>2. CASE j < i
    BY <1>4, <1>5, <2>2
  <2> QED BY <1>4, <1>6, <2>1, <2>2
<1>7. b \in T!SetToSeqs(S)
  BY <1>3, <1>5, <1>6 DEF T!SetToSeqs
<1>8. ASSUME NEW k \in DOMAIN b, NEW j \in 1 .. k - 1
      PROVE  rows[b[j]].occurred <= rows[b[k]].occurred
  <2>1. k \in 1 .. n /\ j \in 1 .. n
    BY <1>4, <1>5
  <2>2. b[j] \in S /\ b[k] \in S
    BY <1>5, <2>1
  <2> QED BY <1>5, <2>1, <2>2 DEF f
<1> QED BY <1>7, <1>8 DEF T!Buckets, S

(* A lane that is drawn keeps its dots in order and apart.                 *)
LEMMA LaneInOrder ==
  ASSUME NEW rows, Drawable(rows), NEW home, NEW lane, NEW ppd \in Int,
         NEW bucket \in T!Buckets(rows, home, lane)
  PROVE  LET xs == T!DotXs(rows, bucket, ppd)
             Event(k) == rows[bucket[k]].occurred
         IN  \A k \in DOMAIN xs :
               /\ xs[k] - T!XOf(rows, ppd, Event(k)) \in 0 .. (k - 1) * T!MinGap
               /\ \A j \in 1 .. k - 1 : /\ Event(j) <= Event(k)
                                       /\ xs[j] + T!MinGap <= xs[k]
<1>1. PICK n \in Nat :
        /\ bucket \in [1 .. n -> T!Dots(rows)]
        /\ \A k \in 1 .. n : \A j \in 1 .. k - 1 :
             rows[bucket[j]].occurred <= rows[bucket[k]].occurred
  BY BucketOfLane
<1> DEFINE Event(k) == rows[bucket[k]].occurred
           w == [k \in DOMAIN bucket |-> T!XOf(rows, ppd, Event(k))]
           xs == T!Placed(w)
<1>2. \A k \in 1 .. n : \A j \in 1 .. k - 1 : Event(j) <= Event(k)
  BY <1>1
<1>3. ASSUME NEW k \in 1 .. n, NEW j \in 1 .. n, Event(j) <= Event(k)
      PROVE  /\ T!XOf(rows, ppd, Event(k)) \in Nat
             /\ T!XOf(rows, ppd, Event(j)) <= T!XOf(rows, ppd, Event(k))
  <2>1. bucket[j] \in T!Dots(rows) /\ bucket[k] \in T!Dots(rows)
    BY <1>1
  <2> QED BY <1>3, <2>1, XOfInOrder
<1>4. ASSUME NEW k \in 1 .. n PROVE Event(k) <= Event(k)
  <2>1. Event(k) \in Nat
    BY <1>1 DEF Drawable, T!Dots
  <2> QED BY <2>1
<1>5. DOMAIN bucket = 1 .. n
  BY <1>1
<1> HIDE DEF Event
<1>6. w \in [1 .. n -> Nat] /\ \A k \in 1 .. n : w[k] = T!XOf(rows, ppd, Event(k))
  BY <1>3, <1>4, <1>5
<1>7. \A k \in 1 .. n : \A j \in 1 .. k - 1 : w[j] <= w[k]
  BY <1>2, <1>3, <1>6
<1>8. T!DotXs(rows, bucket, ppd) = xs
  BY DEF T!DotXs, Event
<1> HIDE DEF w
<1>9. /\ xs \in [1 .. n -> Int]
      /\ \A k \in 1 .. n :
           /\ xs[k] - w[k] \in 0 .. (k - 1) * T!MinGap
           /\ \A j \in 1 .. k - 1 : xs[j] + T!MinGap <= xs[k]
  BY <1>6, <1>7, PlacedInOrder
<1> HIDE DEF xs
<1>10. DOMAIN xs = 1 .. n
  BY <1>9
<1>11. \A k \in DOMAIN xs :
         /\ xs[k] - T!XOf(rows, ppd, Event(k)) \in 0 .. (k - 1) * T!MinGap
         /\ \A j \in 1 .. k - 1 : Event(j) <= Event(k) /\ xs[j] + T!MinGap <= xs[k]
  BY <1>2, <1>6, <1>9, <1>10
<1> QED BY <1>8, <1>11 DEF Event

(* handlers_graph.go:27: the rows the store returns can be drawn.          *)
LEMMA RowsDrawable ==
  ASSUME IInv, PageForm
  PROVE  Drawable(Restrict(entry, page.rows))
<1>1. page.rows \subseteq DOMAIN entry
  BY DEF PageForm
<1>2. DOMAIN entry \subseteq EntryIds /\ entry \in [DOMAIN entry -> Row]
  BY DEF IInv, TypeOK
<1>3. IsFiniteSet(page.rows)
  BY <1>1, <1>2, WebAssumption, FS_Subset
<1>4. \A i \in page.rows : entry[i].occurred \in Nat
  BY <1>1, <1>2 DEF Row
<1> QED BY <1>3, <1>4 DEF Drawable, Restrict

(* layout/timeline.go:38, layout.go:387: at every zoom, whichever order the*)
(* sort leaves dots of one instant in, a lane keeps its dots in the order  *)
(* of their events, a gap apart and close to the right of their instants.  *)
THEOREM GraphDotsInOrder == WebSpec => []DotsInOrder
<1>1. ASSUME IInv, PageForm PROVE DotsInOrder
  <2> DEFINE rows == Restrict(entry, page.rows)
  <2>1. Drawable(rows)
    BY <1>1, RowsDrawable
  <2>2. Densities \subseteq Int
    BY WebAssumption
  <2> HIDE DEF rows
  <2>3. ASSUME NEW home, NEW lane, NEW bucket \in T!Buckets(rows, home, lane),
               NEW ppd \in Densities
        PROVE  LET xs == T!DotXs(rows, bucket, ppd)
                   Event(k) == rows[bucket[k]].occurred
               IN  \A k \in DOMAIN xs :
                     /\ xs[k] - T!XOf(rows, ppd, Event(k)) \in 0 .. (k - 1) * T!MinGap
                     /\ \A j \in 1 .. k - 1 : /\ Event(j) <= Event(k)
                                             /\ xs[j] + T!MinGap <= xs[k]
    BY <2>1, <2>2, LaneInOrder
  <2> QED BY <2>3 DEF DotsInOrder, rows
<1> QED BY <1>1, PageInvariance, FormAlways, PTL

(* layout.go:354: a page that was read can be drawn: every entry has a home*)
(* and every lane an order, so what the theorem before says is not void.   *)
THEOREM GraphsCanBeDrawn ==
  WebSpec => [](LET rows == Restrict(entry, page.rows)
                IN  /\ T!LaneChoices(rows, page.links) # {}
                    /\ \A home \in T!LaneChoices(rows, page.links) :
                         \A lane \in Range(home) : T!Buckets(rows, home, lane) # {})
<1> DEFINE Drawn == LET rows == Restrict(entry, page.rows)
                    IN  /\ T!LaneChoices(rows, page.links) # {}
                        /\ \A home \in T!LaneChoices(rows, page.links) :
                             \A lane \in Range(home) : T!Buckets(rows, home, lane) # {}
<1>1. ASSUME IInv, PageForm PROVE Drawn
  <2> DEFINE rows == Restrict(entry, page.rows)
             links == page.links
             home == [i \in T!Dots(rows) |->
                        IF T!HomeGoals(rows, links, i) = {} THEN Orphan
                        ELSE CHOOSE g \in T!HomeGoals(rows, links, i) : TRUE]
  <2>1. Drawable(rows)
    BY <1>1, RowsDrawable
  <2> HIDE DEF rows, links
  <2>2. home \in T!LaneChoices(rows, links)
    <3>1. ASSUME NEW i \in T!Dots(rows)
          PROVE  IF T!HomeGoals(rows, links, i) = {}
                   THEN home[i] = Orphan
                   ELSE home[i] \in T!HomeGoals(rows, links, i)
      OBVIOUS
    <3>2. \A i : T!HomeGoals(rows, links, i) \subseteq T!Goals(rows)
      BY DEF T!HomeGoals
    <3>3. home \in [T!Dots(rows) -> T!Goals(rows) \cup {Orphan}]
      BY <3>1, <3>2
    <3> HIDE DEF home
    <3> QED BY <3>1, <3>3 DEF T!LaneChoices
  <2>3. \A h, lane : T!Buckets(rows, h, lane) # {}
    BY <2>1, LaneHasABucket
  <2> QED BY <2>2, <2>3 DEF rows, links
<1> QED BY <1>1, PageInvariance, FormAlways, PTL

=============================================================================
