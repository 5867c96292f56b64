------------------------- MODULE OrchestratorProofs -------------------------
(***************************************************************************)
(* Theorems about Orchestrator, for every set of entries, every relation   *)
(* of similarity, every answer of the provider and every set of callers.   *)
(***************************************************************************)
EXTENDS Orchestrator, SequenceTheorems, NatLemmas

-----------------------------------------------------------------------------
(* The inductive invariant.                                                *)

Steps == {"idle", "check", "cluster", "ask", "begin", "write", "relate",
          "done", "aborted"}

Call == [step : Steps, listed : SUBSET EntryIds, todo : SUBSET EntryIds,
         pending : SUBSET EntryIds, clusters : SUBSET SUBSET EntryIds,
         group : SUBSET EntryIds, answer : Seq(Draft), report : Report,
         made : SUBSET Nat, others : SUBSET EntryIds]

Tables ==
  /\ live \subseteq EntryIds /\ retired \subseteq EntryIds \ live
  /\ node \in Seq(Node)
  /\ map \subseteq (live \cup retired) \X (1 .. Len(node))
  /\ tx \in Transaction \cup {Null}
  /\ run \in [Callers -> Call]

(* The one connection.                                                     *)
OneWriter ==
  /\ \A r, q \in Callers : Writing(r) /\ Writing(q) => r = q
  /\ Free <=> \A r \in Callers : ~Writing(r)

(* What a call c of kind k holds in each of its steps.                     *)
Shape(k, c) ==
  /\ c.step = "idle" => c = Idle
  /\ k = "split" => c.pending = {} /\ c.clusters = {} /\ c.step # "cluster"
  /\ k = "aggregate" => c.step # "relate"
  /\ c.step \in {"check", "cluster", "done", "aborted"} => c.group = {}
  /\ c.step = "check" => c.clusters = {}
  /\ k = "aggregate" /\ c.step \in {"cluster", "ask", "begin", "write"} =>
       c.todo = {} /\ c.pending = {}
  /\ c.step = "done" => c.todo = {} /\ c.pending = {} /\ c.clusters = {}

(* What a call is about to merge or split, and what the answer is for.     *)
Groups(k, c) ==
  /\ \A C \in c.clusters : C # {}
  /\ \A C, D \in c.clusters : C # D => C \cap D = {}
  /\ c.step \in {"ask", "begin", "write", "relate"} =>
       /\ c.group # {} /\ SameType(c.group)
       /\ k = "split" => \A a, b \in c.group : a = b
  /\ k = "aggregate" /\ c.step \in {"begin", "write"} =>
       Len(c.answer) = 1 /\ \A a \in c.group : Type[a] = c.answer[1].type

(* The entries still to be dealt with, and those that are reported.        *)
Open(c) == c.todo \cup c.pending \cup (UNION c.clusters) \cup c.group
Closed(c) == c.report.skipped \cup c.report.done \cup Failed(c.report)

(* Every entry listed is in one place.                                     *)
Buckets(c) ==
  /\ c.todo \cap c.pending = {} /\ c.todo \cap c.group = {}
  /\ \A C \in c.clusters : C \cap c.group = {}
  /\ Open(c) \cap Closed(c) = {}
  /\ c.report.skipped \cap c.report.done = {}
  /\ c.report.skipped \cap Failed(c.report) = {}
  /\ c.report.done \cap Failed(c.report) = {}
  /\ Open(c) \cup Closed(c) \subseteq c.listed
  /\ c.step # "aborted" => c.listed \subseteq Open(c) \cup Closed(c)

(* Nodes of the group at work that are committed and not yet reported.     *)
Unreported(c) == IF c.step = "relate" THEN Len(c.answer) ELSE 0
AtRelate(c) == IF c.step = "relate" THEN c.group ELSE {}

(* The nodes of a call: where they are, how many, and whose.               *)
Counts(c) ==
  /\ c.made \subseteq 1 .. Len(node)
  /\ Cardinality(c.made) = c.report.nodes + Unreported(c)
  /\ c.report.skipped \subseteq Mapped
  /\ \A n \in c.made : EntriesOf(n) \subseteq c.report.done \cup AtRelate(c)

(* An entry with nodes that a call is still about to give nodes was mapped *)
(* by another call in between.                                             *)
AtWork(c) == IF c.step \in {"ask", "begin", "write"} THEN c.group ELSE {}
Raced(c) ==
  (c.pending \cup (UNION c.clusters) \cup AtWork(c)) \cap Mapped \subseteq c.others

(* What is in the transaction so far: the first drafts of the answer, all  *)
(* mapped but for the last one.                                            *)
Drafted(c, k) == [i \in 1 .. k |-> NodeFor(c.answer[i], c.group)]

Prefix(c) ==
  /\ Written \in 0 .. Len(c.answer)
  /\ tx.node = node \o Drafted(c, Written)
  /\ tx.unmapped \subseteq c.group
  /\ Written = 0 => tx.unmapped = {}
  /\ tx.map = map \cup ((c.group \X ((Len(node) + 1) .. (Len(node) + Written)))
                          \ (tx.unmapped \X {Len(node) + Written}))

(* A call of caller r is what it should be, but for the transaction.       *)
Sound(r, c) ==
  /\ c.listed \subseteq live \cup retired
  /\ Shape(Kind[r], c)
  /\ Groups(Kind[r], c)
  /\ Buckets(c)
  /\ Counts(c)
  /\ Raced(c)

IInv ==
  /\ Tables
  /\ OneWriter
  /\ \A r \in Callers : Sound(r, run[r]) /\ (Writing(r) => Prefix(run[r]))
  /\ NodesFitTheirEntries

-----------------------------------------------------------------------------
(* The operators.                                                          *)

(* The earliest entry of a group gives its nodes their time.               *)
LEMMA EarliestIsTime ==
  ASSUME NEW group \in SUBSET EntryIds, group # {}
  PROVE  Earliest(group) \in Nat
<1> DEFINE S == {Occurred[e] : e \in group}
<1>1. S \in SUBSET Nat /\ S # {}
  BY OrchestratorAssumption
<1>2. \A e \in group : Occurred[e] \in S
  OBVIOUS
<1>3. Earliest(group) = CHOOSE t \in S : \A e \in group : t <= Occurred[e]
  BY DEF Earliest
<1> HIDE DEF S
<1>4. PICK m \in S : \A n \in S : m <= n
  BY <1>1, LeastNat
<1>5. Earliest(group) \in S
  BY <1>2, <1>3, <1>4
<1> QED BY <1>1, <1>5

(* What becomes of a draft is a node.                                      *)
LEMMA NodeForIsNode ==
  ASSUME NEW draft \in Draft, NEW group \in SUBSET EntryIds, group # {}
  PROVE  NodeFor(draft, group) \in Node
BY EarliestIsTime DEF NodeFor, Node, Draft

(* What a queued entry adds to the entries that failed.                    *)
LEMMA QueueFails ==
  ASSUME NEW report \in Report, NEW group \in SUBSET EntryIds,
         NEW step \in {"split", "aggregate", "relate"}
  PROVE  /\ Queue(report, group, step) \in Report
         /\ Queue(report, group, step).skipped = report.skipped
         /\ Queue(report, group, step).done = report.done
         /\ Queue(report, group, step).nodes = report.nodes
         /\ step = "relate" => Failed(Queue(report, group, step)) = Failed(report)
         /\ step # "relate" =>
              Failed(Queue(report, group, step)) = Failed(report) \cup group
<1> DEFINE q == Queue(report, group, step)
<1>1. /\ q \in Report /\ q.skipped = report.skipped /\ q.done = report.done
      /\ q.nodes = report.nodes
      /\ q.queued = report.queued \cup (group \X {step})
  BY DEF Queue, Report
<1>2. \A e : e \in Failed(q) <=> \E p \in q.queued : p[2] # "relate" /\ p[1] = e
  BY DEF Failed
<1>3. \A e : e \in Failed(report) <=>
               \E p \in report.queued : p[2] # "relate" /\ p[1] = e
  BY DEF Failed
<1> HIDE DEF q
<1>4. \A p : p \in group \X {step} => p[2] = step /\ p[1] \in group
  OBVIOUS
<1>5. \A e \in group : <<e, step>> \in q.queued /\ <<e, step>>[1] = e
                         /\ <<e, step>>[2] = step
  BY <1>1
<1>6. step = "relate" => Failed(q) = Failed(report)
  <2> SUFFICES ASSUME step = "relate", NEW e
               PROVE  e \in Failed(q) <=> e \in Failed(report)
    OBVIOUS
  <2>1. \A p \in q.queued : p[2] # "relate" => p \in report.queued
    BY <1>1, <1>4
  <2>2. report.queued \subseteq q.queued
    BY <1>1
  <2> QED BY <1>2, <1>3, <2>1, <2>2
<1>7. step # "relate" => Failed(q) \subseteq Failed(report) \cup group
  <2> SUFFICES ASSUME NEW e \in Failed(q), e \notin Failed(report)
               PROVE  e \in group
    OBVIOUS
  <2>1. PICK p \in q.queued : p[2] # "relate" /\ p[1] = e
    BY <1>2
  <2>2. p \in group \X {step}
    BY <1>1, <1>3, <2>1
  <2> QED BY <1>4, <2>1, <2>2
<1>8. step # "relate" => Failed(report) \cup group \subseteq Failed(q)
  <2> SUFFICES ASSUME step # "relate", NEW e \in Failed(report) \cup group
               PROVE  e \in Failed(q)
    OBVIOUS
  <2>1. CASE e \in group
    BY <1>2, <1>5, <2>1
  <2>2. CASE e \in Failed(report)
    BY <1>1, <1>2, <1>3, <2>2
  <2> QED BY <2>1, <2>2
<1> QED BY <1>1, <1>6, <1>7, <1>8 DEF q

(* What a finished entry adds to the report.                               *)
LEMMA DoneReports ==
  ASSUME NEW report \in Report, NEW group \in SUBSET EntryIds, NEW n \in Nat
  PROVE  /\ Done(report, group, n) \in Report
         /\ Done(report, group, n).skipped = report.skipped
         /\ Done(report, group, n).done = report.done \cup group
         /\ Done(report, group, n).nodes = report.nodes + n
         /\ Failed(Done(report, group, n)) = Failed(report)
<1> DEFINE d == Done(report, group, n)
<1> DEFINE a == [report EXCEPT !.done = @ \cup group]
<1>1. /\ a \in Report /\ a.skipped = report.skipped /\ a.nodes = report.nodes
      /\ a.done = report.done \cup group /\ a.queued = report.queued
  BY DEF Report
<1>2. d = [a EXCEPT !.nodes = @ + n]
  BY <1>1 DEF Done
<1> HIDE DEF a
<1>3. /\ d \in Report /\ d.skipped = a.skipped /\ d.done = a.done
      /\ d.nodes = a.nodes + n /\ d.queued = a.queued
  BY <1>1, <1>2 DEF Report
<1>4. Failed(d) = Failed(report)
  BY <1>1, <1>3 DEF Failed
<1> QED BY <1>1, <1>3, <1>4

(* The clusters are a partition of what is clustered: no two share an      *)
(* entry, and none is left out.                                            *)
LEMMA ClustersPartition ==
  ASSUME NEW P
  PROVE  /\ \A C \in Clusters(P) : C # {} /\ C \subseteq P
         /\ \A C, D \in Clusters(P) : C # D => C \cap D = {}
         /\ UNION Clusters(P) = P
<1>1. \A C \in Clusters(P) :
        /\ C \in SUBSET P /\ C # {} /\ Apart(C, P)
        /\ \A D \in (SUBSET C) \ {{}} : Apart(D, P) => D = C
  BY DEF Clusters
<1>2. ASSUME NEW C \in Clusters(P), NEW D \in Clusters(P), C \cap D # {}
      PROVE  C = D
  <2>1. Apart(C \cap D, P)
    <3> SUFFICES ASSUME NEW a \in C \cap D, NEW b \in P \ (C \cap D)
                 PROVE  <<a, b>> \notin Similar /\ <<b, a>> \notin Similar
      BY DEF Apart
    <3>1. CASE b \notin C
      BY <1>1, <3>1 DEF Apart
    <3>2. CASE b \notin D
      BY <1>1, <3>2 DEF Apart
    <3> QED BY <3>1, <3>2
  <2>2. C \cap D = C /\ C \cap D = D
    BY <1>1, <1>2, <2>1
  <2> QED BY <2>2
<1>3. ASSUME NEW a \in P
      PROVE  \E C \in Clusters(P) : a \in C
  <2> DEFINE I == {x \in P : \A D \in SUBSET P : Apart(D, P) /\ a \in D => x \in D}
  <2>1. a \in I /\ I \in SUBSET P /\ I # {}
    OBVIOUS
  <2>2. Apart(I, P)
    <3> SUFFICES ASSUME NEW x \in I, NEW y \in P \ I
                 PROVE  <<x, y>> \notin Similar /\ <<y, x>> \notin Similar
      BY DEF Apart
    <3>1. PICK D \in SUBSET P : Apart(D, P) /\ a \in D /\ y \notin D
      OBVIOUS
    <3> QED BY <3>1 DEF Apart
  <2>3. ASSUME NEW D \in (SUBSET I) \ {{}}, Apart(D, P)
        PROVE  D = I
    <3>1. CASE a \in D
      BY <2>1, <2>3, <3>1
    <3>2. CASE a \notin D
      <4>1. Apart(P \ D, P)
        BY <2>1, <2>3 DEF Apart
      <4>2. I \subseteq P \ D
        BY <2>1, <4>1, <3>2
      <4> QED BY <2>3, <4>2
    <3> QED BY <3>1, <3>2
  <2>4. I \in Clusters(P)
    BY <2>1, <2>2, <2>3 DEF Clusters
  <2> QED BY <2>1, <2>4
<1>4. UNION Clusters(P) = P
  BY <1>1, <1>3
<1> QED BY <1>1, <1>2, <1>4

(* A chain of n links from a to b, each between two entries of P that are  *)
(* similar; EpsilonBall compares every pair once, so either order will do. *)
Near(a, b) == <<a, b>> \in Similar \/ <<b, a>> \in Similar

Walks(P, a, b, n) ==
  {f \in [0 .. n -> P] : f[0] = a /\ f[n] = b /\ \A k \in 1 .. n : Near(f[k - 1], f[k])}

Linked(P, a, b) == \E n \in Nat : Walks(P, a, b, n) # {}

(* A walk does not leave a set nothing outside is similar to.              *)
LEMMA WalkStaysInside ==
  ASSUME NEW P, NEW C \in SUBSET P, Apart(C, P), NEW a \in C, NEW b \in P,
         Linked(P, a, b)
  PROVE  b \in C
<1>1. PICK n \in Nat : Walks(P, a, b, n) # {}
  BY DEF Linked
<1>2. PICK f \in [0 .. n -> P] :
        f[0] = a /\ f[n] = b /\ \A k \in 1 .. n : Near(f[k - 1], f[k])
  BY <1>1 DEF Walks
<1> DEFINE S == {k \in Nat : k <= n => f[k] \in C}
<1>3. 0 \in S
  BY <1>2
<1>4. ASSUME NEW k \in Nat, k \in S PROVE k + 1 \in S
  <2> SUFFICES ASSUME k + 1 <= n PROVE f[k + 1] \in C
    OBVIOUS
  <2>1. f[k] \in C /\ k + 1 \in 1 .. n /\ (k + 1) - 1 = k
    BY <1>4
  <2>2. f[k + 1] \in P /\ Near(f[k], f[k + 1])
    BY <1>2, <2>1
  <2> QED BY <2>1, <2>2 DEF Near, Apart
<1>5. n \in S
  <2> HIDE DEF S
  <2> QED BY <1>3, <1>4, SetInduction
<1> QED BY <1>2, <1>5

(* A walk can be drawn out by one more similar entry.                      *)
LEMMA WalkGoesOn ==
  ASSUME NEW P, NEW a \in P, NEW b \in P, NEW c \in P, Linked(P, a, b), Near(b, c)
  PROVE  Linked(P, a, c)
<1>1. PICK n \in Nat : Walks(P, a, b, n) # {}
  BY DEF Linked
<1>2. PICK f \in [0 .. n -> P] :
        f[0] = a /\ f[n] = b /\ \A k \in 1 .. n : Near(f[k - 1], f[k])
  BY <1>1 DEF Walks
<1> DEFINE g == [k \in 0 .. n + 1 |-> IF k = n + 1 THEN c ELSE f[k]]
<1>3. g \in [0 .. n + 1 -> P] /\ g[n + 1] = c /\ \A k \in 0 .. n : g[k] = f[k]
  OBVIOUS
<1> HIDE DEF g
<1>4. ASSUME NEW k \in 1 .. n + 1 PROVE Near(g[k - 1], g[k])
  <2>1. CASE k = n + 1
    <3>1. g[k - 1] = b /\ g[k] = c
      BY <1>2, <1>3, <2>1
    <3> QED BY <3>1
  <2>2. CASE k \in 1 .. n
    <3>1. g[k - 1] = f[k - 1] /\ g[k] = f[k]
      BY <1>3, <2>2
    <3> QED BY <1>2, <2>2, <3>1
  <2> QED BY <2>1, <2>2
<1>5. g[0] = a
  BY <1>2, <1>3
<1>6. g \in Walks(P, a, c, n + 1)
  BY <1>3, <1>4, <1>5 DEF Walks
<1> QED BY <1>6 DEF Linked

LEMMA WalkOfNone == ASSUME NEW P, NEW a \in P PROVE Linked(P, a, a)
<1> DEFINE f == [k \in 0 .. 0 |-> a]
<1>1. f \in Walks(P, a, a, 0)
  BY DEF Walks
<1> HIDE DEF f
<1> QED BY <1>1 DEF Linked

(* cluster.go:31, "linkage is transitive": two entries land in one cluster *)
(* exactly when a chain of similar entries leads from one to the other,    *)
(* however far apart the two are themselves.                               *)
THEOREM ClustersAreSingleLinkage ==
  ASSUME NEW P, NEW a \in P, NEW b \in P
  PROVE  (\E C \in Clusters(P) : a \in C /\ b \in C) <=> Linked(P, a, b)
<1>1. ASSUME NEW C \in Clusters(P), a \in C, b \in C PROVE Linked(P, a, b)
  <2> DEFINE R == {x \in P : Linked(P, a, x)}
  <2>1. C \in SUBSET P /\ Apart(C, P)
        /\ \A D \in (SUBSET C) \ {{}} : Apart(D, P) => D = C
    BY DEF Clusters
  <2>2. R \in SUBSET C
    BY <1>1, <2>1, WalkStaysInside
  <2>3. a \in R
    BY WalkOfNone
  <2>4. Apart(R, P)
    <3> SUFFICES ASSUME NEW x \in R, NEW y \in P \ R
                 PROVE  <<x, y>> \notin Similar /\ <<y, x>> \notin Similar
      BY DEF Apart
    <3>1. x \in P /\ Linked(P, a, x) /\ ~Linked(P, a, y)
      OBVIOUS
    <3>2. ~Near(x, y)
      BY <3>1, WalkGoesOn
    <3> QED BY <3>2 DEF Near
  <2>5. R = C
    <3> HIDE DEF R
    <3> QED BY <2>1, <2>2, <2>3, <2>4
  <2> QED BY <1>1, <2>5
<1>2. ASSUME Linked(P, a, b) PROVE \E C \in Clusters(P) : a \in C /\ b \in C
  <2>1. PICK C \in Clusters(P) : a \in C
    BY ClustersPartition
  <2>2. C \in SUBSET P /\ Apart(C, P)
    BY DEF Clusters
  <2> QED BY <1>2, <2>1, <2>2, WalkStaysInside
<1> QED BY <1>1, <1>2

(* orchestrator_aggregate.go:93: a run over more entries, a retry after an *)
(* ingest or a wider filter, only joins clusters; it never tears one apart.*)
THEOREM ClustersOnlyJoin ==
  ASSUME NEW Q, NEW P \in SUBSET Q, NEW C \in Clusters(P)
  PROVE  \E D \in Clusters(Q) : C \subseteq D
<1>1. PICK a \in C : TRUE
  BY ClustersPartition
<1>2. C \subseteq P
  BY ClustersPartition
<1>3. PICK D \in Clusters(Q) : a \in D
  BY <1>1, <1>2, ClustersPartition
<1>4. ASSUME NEW b \in C PROVE b \in D
  <2>1. Linked(P, a, b)
    BY <1>1, <1>2, ClustersAreSingleLinkage
  <2>2. Linked(Q, a, b)
    <3>1. PICK n \in Nat : Walks(P, a, b, n) # {}
      BY <2>1 DEF Linked
    <3>2. \A f \in [0 .. n -> P] : f \in [0 .. n -> Q]
      OBVIOUS
    <3>3. Walks(P, a, b, n) \subseteq Walks(Q, a, b, n)
      BY <3>2 DEF Walks
    <3> QED BY <3>1, <3>3 DEF Linked
  <2>3. D \in SUBSET Q /\ Apart(D, Q) /\ b \in Q
    BY <1>2 DEF Clusters
  <2> QED BY <1>3, <2>2, <2>3, WalkStaysInside
<1> QED BY <1>3, <1>4

(* What a commit adds to the map: nodes with new ids, each of the entries  *)
(* of the group; the nodes that were there keep theirs.                    *)
LEMMA MapGrows ==
  ASSUME NEW M, NEW len \in Nat, NEW k \in Nat, NEW group \in SUBSET EntryIds,
         M \subseteq EntryIds \X (1 .. len)
  PROVE  LET N == M \cup (group \X ((len + 1) .. (len + k)))
             Of(S, n) == {p[1] : p \in {q \in S : q[2] = n}}
             In(S) == {p[1] : p \in S}
         IN  /\ \A n \in 1 .. len : Of(N, n) = Of(M, n)
             /\ \A n \in (len + 1) .. (len + k) : Of(N, n) = group
             /\ In(M) \subseteq In(N) /\ In(N) \subseteq In(M) \cup group
<1> DEFINE X == group \X ((len + 1) .. (len + k))
           N == M \cup X
           Of(S, n) == {p[1] : p \in {q \in S : q[2] = n}}
           In(S) == {p[1] : p \in S}
<1>1. \A p \in M : p[1] \in EntryIds /\ p[2] \in 1 .. len
  OBVIOUS
<1>2. \A p \in X : p[1] \in group /\ p[2] \in (len + 1) .. (len + k)
  OBVIOUS
<1>3. \A e \in group, n \in (len + 1) .. (len + k) :
        <<e, n>> \in X /\ <<e, n>>[1] = e /\ <<e, n>>[2] = n
  OBVIOUS
<1>4. \A i \in 1 .. len, j \in (len + 1) .. (len + k) : i # j
  OBVIOUS
<1> HIDE DEF X
<1>5. \A n \in 1 .. len : {q \in N : q[2] = n} = {q \in M : q[2] = n}
  BY <1>2, <1>4
<1>6. ASSUME NEW n \in (len + 1) .. (len + k)
      PROVE  Of(N, n) = group
  <2>1. {q \in N : q[2] = n} = {q \in X : q[2] = n}
    BY <1>1, <1>4
  <2>2. Of(X, n) \subseteq group
    BY <1>2
  <2>3. group \subseteq Of(X, n)
    BY <1>3
  <2> QED BY <2>1, <2>2, <2>3
<1>7. In(M) \subseteq In(N) /\ In(N) \subseteq In(M) \cup group
  BY <1>2
<1> QED BY <1>5, <1>6, <1>7 DEF X

-----------------------------------------------------------------------------
(* Steps that leave the tables alone.                                      *)

(* A caller splits or merges.                                              *)
LEMMA KindIsOneOf ==
  ASSUME NEW r \in Callers
  PROVE  Kind[r] \in {"split", "aggregate"}
BY OrchestratorAssumption

(* A call moves on and does not touch the connection.                      *)
LEMMA QuietStep ==
  ASSUME IInv, NEW r \in Callers, NEW c \in Call, Sound(r, c),
         run' = [run EXCEPT ![r] = c],
         ~Writing(r), c.step # "write",
         UNCHANGED <<live, retired, node, map, tx>>
  PROVE  IInv'
<1>1. /\ run' \in [Callers -> Call] /\ run'[r] = c
      /\ \A q \in Callers \ {r} : run'[q] = run[q]
  BY DEF IInv, Tables
<1>2. Tables'
  BY <1>1 DEF IInv, Tables
<1>3. \A q \in Callers : Writing(q)' <=> Writing(q)
  BY <1>1 DEF Writing
<1>4. OneWriter'
  BY <1>3 DEF IInv, OneWriter, Free
<1>5. \A q \in Callers : Sound(q, run[q])' <=> Sound(q, run'[q])
  BY DEF Sound, Counts, Raced, Mapped, EntriesOf
<1>6. ASSUME NEW q \in Callers
      PROVE  Sound(q, run[q])' /\ (Writing(q)' => Prefix(run[q])')
  <2>1. CASE q = r
    BY <1>1, <1>3, <1>5, <2>1
  <2>2. CASE q # r
    BY <1>1, <1>3, <1>5, <2>2 DEF IInv, Prefix, Written
  <2> QED BY <2>1, <2>2
<1>7. NodesFitTheirEntries'
  BY DEF IInv, NodesFitTheirEntries, EntriesOf
<1> QED BY <1>2, <1>4, <1>6, <1>7 DEF IInv

(* The call that holds the connection lets go of it, and nothing it wrote  *)
(* stays.                                                                  *)
LEMMA ReleaseStep ==
  ASSUME IInv, NEW r \in Callers, NEW c \in Call, Sound(r, c),
         run' = [run EXCEPT ![r] = c],
         Writing(r), c.step # "write", tx' = Null,
         UNCHANGED <<live, retired, node, map>>
  PROVE  IInv'
<1>1. /\ run' \in [Callers -> Call] /\ run'[r] = c
      /\ \A q \in Callers \ {r} : run'[q] = run[q]
  BY DEF IInv, Tables
<1>2. Tables'
  BY <1>1 DEF IInv, Tables
<1>3. \A q \in Callers : ~Writing(q)'
  BY <1>1 DEF Writing, IInv, OneWriter
<1>4. OneWriter'
  BY <1>3 DEF OneWriter, Free
<1>5. \A q \in Callers : Sound(q, run[q])' <=> Sound(q, run'[q])
  BY DEF Sound, Counts, Raced, Mapped, EntriesOf
<1>6. \A q \in Callers : Sound(q, run[q])'
  BY <1>1, <1>5 DEF IInv
<1>7. NodesFitTheirEntries'
  BY DEF IInv, NodesFitTheirEntries, EntriesOf
<1> QED BY <1>2, <1>3, <1>4, <1>6, <1>7 DEF IInv

(* An idle call is sound.                                                  *)
LEMMA IdleIsSound ==
  ASSUME NEW r \in Callers
  PROVE  Idle \in Call /\ Sound(r, Idle)
<1>1. /\ Idle.step = "idle" /\ Idle.listed = {} /\ Idle.todo = {}
      /\ Idle.pending = {} /\ Idle.clusters = {} /\ Idle.group = {}
      /\ Idle.answer = << >> /\ Idle.report = NoReport /\ Idle.made = {}
      /\ Idle.others = {}
  BY DEF Idle
<1>2. /\ NoReport \in Report /\ NoReport.skipped = {} /\ NoReport.done = {}
      /\ NoReport.nodes = 0 /\ NoReport.queued = {}
  BY DEF NoReport, Report
<1>3. Idle \in Call
  BY <1>2 DEF Idle, Call, Steps
<1>4. Failed(NoReport) = {}
  BY <1>2 DEF Failed
<1>5. Shape(Kind[r], Idle) /\ Groups(Kind[r], Idle)
  BY <1>1 DEF Shape, Groups
<1>6. Buckets(Idle)
  BY <1>1, <1>2, <1>4 DEF Buckets, Open, Closed
<1>7. Counts(Idle)
  BY <1>1, <1>2, FS_EmptySet DEF Counts, Unreported
<1>8. Raced(Idle)
  BY <1>1 DEF Raced, AtWork
<1> QED BY <1>1, <1>3, <1>5, <1>6, <1>7, <1>8 DEF Sound

(* The facts every step of a call starts from.                             *)
LEMMA CallFacts ==
  ASSUME IInv, NEW r \in Callers
  PROVE  /\ run[r] \in Call /\ run[r].report \in Report
         /\ run[r].group \in SUBSET EntryIds /\ run[r].pending \in SUBSET EntryIds
         /\ run[r].todo \in SUBSET EntryIds /\ run[r].answer \in Seq(Draft)
         /\ Sound(r, run[r])
BY DEF IInv, Tables, Call

(* Start: the call has everything it lists before it.                      *)
LEMMA StartPreserves ==
  ASSUME IInv, NEW r \in Callers, NEW filter \in Filters[r], Start(r, filter)
  PROVE  IInv'
<1> DEFINE L == live \cap filter
           c == [Idle EXCEPT !.step = "check", !.listed = L, !.todo = L]
<1>1. /\ run' = [run EXCEPT ![r] = c] /\ run[r].step = "idle"
      /\ UNCHANGED <<live, retired, node, map, tx>>
  BY DEF Start
<1>2. L \in SUBSET EntryIds /\ L \subseteq live \cup retired
  BY DEF IInv, Tables
<1>3. /\ Idle.listed = {} /\ Idle.pending = {} /\ Idle.clusters = {}
      /\ Idle.group = {} /\ Idle.report = NoReport /\ Idle.made = {}
  BY DEF Idle
<1>4. Idle \in Call /\ Sound(r, Idle)
  BY IdleIsSound
<1> HIDE DEF L
<1>5. /\ c \in Call /\ c.step = "check" /\ c.listed = L /\ c.todo = L
      /\ c.pending = {} /\ c.clusters = {} /\ c.group = {}
      /\ c.report = NoReport /\ c.made = {}
  BY <1>2, <1>3, <1>4 DEF Call, Steps
<1> HIDE DEF c
<1>6. NoReport.skipped = {} /\ NoReport.done = {} /\ NoReport.nodes = 0
  BY DEF NoReport
<1>7. Failed(NoReport) = {}
  BY DEF Failed, NoReport
<1>8. Shape(Kind[r], c) /\ Groups(Kind[r], c)
  BY <1>5 DEF Shape, Groups
<1>9. Buckets(c)
  BY <1>5, <1>6, <1>7 DEF Buckets, Open, Closed
<1>10. Counts(c)
  BY <1>5, <1>6, FS_EmptySet DEF Counts, Unreported
<1>11. Raced(c)
  BY <1>5 DEF Raced, AtWork
<1>12. Sound(r, c)
  BY <1>2, <1>5, <1>8, <1>9, <1>10, <1>11 DEF Sound
<1> QED BY <1>1, <1>5, <1>12, QuietStep DEF Writing

(* entryHasNodes: the entry is skipped, split, or kept for clustering.     *)
LEMMA CheckPreserves ==
  ASSUME IInv, NEW r \in Callers, NEW e \in EntryIds, Check(r, e)
  PROVE  IInv'
<1> DEFINE d == run[r]
<1>1. /\ d.step = "check" /\ e \in d.todo /\ Ask(r, e)
      /\ UNCHANGED <<live, retired, node, map, tx>>
  BY DEF Check
<1>2. /\ d \in Call /\ d.report \in Report /\ d.pending \in SUBSET EntryIds
      /\ Sound(r, d) /\ run \in [Callers -> Call]
  BY CallFacts DEF IInv, Tables
<1>3. Kind[r] \in {"split", "aggregate"}
  BY KindIsOneOf
<1>4. /\ d.group = {} /\ d.clusters = {} /\ e \in d.listed
      /\ Kind[r] = "split" => d.pending = {}
  BY <1>1, <1>2 DEF Sound, Shape, Buckets, Open
<1>5. CASE /\ e \in Mapped
           /\ run' = [run EXCEPT ![r].todo = @ \ {e}, ![r].report.skipped = @ \cup {e}]
  <2> DEFINE p == [d.report EXCEPT !.skipped = @ \cup {e}]
             c == [d EXCEPT !.todo = @ \ {e}, !.report = p]
  <2>1. /\ p \in Report /\ p.skipped = d.report.skipped \cup {e}
        /\ p.done = d.report.done /\ p.nodes = d.report.nodes
        /\ p.queued = d.report.queued
    BY <1>2 DEF Report
  <2>2. run' = [run EXCEPT ![r] = c]
    BY <1>2, <1>5 DEF Call, Report
  <2>3. Failed(p) = Failed(d.report)
    BY <2>1 DEF Failed
  <2> HIDE DEF p
  <2>4. /\ c \in Call /\ c.step = "check" /\ c.listed = d.listed
        /\ c.todo = d.todo \ {e} /\ c.pending = d.pending
        /\ c.clusters = {} /\ c.group = {} /\ c.report = p
        /\ c.made = d.made /\ c.others = d.others
    BY <1>1, <1>2, <1>4, <2>1 DEF Call
  <2> HIDE DEF c, d
  <2>5. Shape(Kind[r], c) /\ Groups(Kind[r], c)
    BY <1>1, <1>4, <2>4 DEF Shape, Groups
  <2>6. Buckets(c)
    BY <1>1, <1>2, <1>4, <2>1, <2>3, <2>4 DEF Sound, Buckets, Open, Closed
  <2>7. Counts(c)
    BY <1>1, <1>2, <1>5, <2>1, <2>4 DEF Sound, Counts, Unreported, AtRelate
  <2>8. Raced(c)
    BY <1>1, <1>2, <2>4 DEF Sound, Raced, AtWork
  <2>9. Sound(r, c)
    BY <1>2, <2>4, <2>5, <2>6, <2>7, <2>8 DEF Sound
  <2> QED BY <1>1, <2>2, <2>4, <2>9, QuietStep DEF Writing, d
<1>6. CASE /\ e \notin Mapped /\ Kind[r] = "split"
           /\ run' = [run EXCEPT ![r].step = "ask", ![r].todo = @ \ {e}, ![r].group = {e}]
  <2> DEFINE c == [d EXCEPT !.step = "ask", !.todo = @ \ {e}, !.group = {e}]
  <2>1. run' = [run EXCEPT ![r] = c]
    BY <1>2, <1>6 DEF Call
  <2>2. /\ c \in Call /\ c.step = "ask" /\ c.listed = d.listed
        /\ c.todo = d.todo \ {e} /\ c.pending = {}
        /\ c.clusters = {} /\ c.group = {e} /\ c.report = d.report
        /\ c.made = d.made /\ c.others = d.others
    BY <1>2, <1>4, <1>6 DEF Call, Steps
  <2> HIDE DEF c, d
  <2>3. Shape(Kind[r], c) /\ Groups(Kind[r], c)
    BY <1>6, <2>2 DEF Shape, Groups, SameType
  <2>4. Buckets(c)
    BY <1>1, <1>2, <1>4, <1>6, <2>2 DEF Sound, Buckets, Open, Closed
  <2>5. Counts(c)
    BY <1>1, <1>2, <2>2 DEF Sound, Counts, Unreported, AtRelate
  <2>6. Raced(c)
    BY <1>6, <2>2 DEF Raced, AtWork
  <2>7. Sound(r, c)
    BY <1>2, <2>2, <2>3, <2>4, <2>5, <2>6 DEF Sound
  <2> QED BY <1>1, <2>1, <2>2, <2>7, QuietStep DEF Writing, d
<1>7. CASE /\ e \notin Mapped /\ Kind[r] = "aggregate"
           /\ run' = [run EXCEPT ![r].todo = @ \ {e}, ![r].pending = @ \cup {e}]
  <2> DEFINE c == [d EXCEPT !.todo = @ \ {e}, !.pending = @ \cup {e}]
  <2>1. run' = [run EXCEPT ![r] = c]
    BY <1>2, <1>7 DEF Call
  <2>2. /\ c \in Call /\ c.step = "check" /\ c.listed = d.listed
        /\ c.todo = d.todo \ {e} /\ c.pending = d.pending \cup {e}
        /\ c.clusters = {} /\ c.group = {} /\ c.report = d.report
        /\ c.made = d.made /\ c.others = d.others
    BY <1>1, <1>2, <1>4, <1>7 DEF Call
  <2> HIDE DEF c, d
  <2>3. Shape(Kind[r], c) /\ Groups(Kind[r], c)
    BY <1>7, <2>2 DEF Shape, Groups
  <2>4. Buckets(c)
    BY <1>1, <1>2, <1>4, <2>2 DEF Sound, Buckets, Open, Closed
  <2>5. Counts(c)
    BY <1>1, <1>2, <2>2 DEF Sound, Counts, Unreported, AtRelate
  <2>6. Raced(c)
    BY <1>1, <1>2, <1>7, <2>2 DEF Sound, Raced, AtWork
  <2>7. Sound(r, c)
    BY <1>2, <2>2, <2>3, <2>4, <2>5, <2>6 DEF Sound
  <2> QED BY <1>1, <2>1, <2>2, <2>7, QuietStep DEF Writing, d
<1> QED BY <1>1, <1>5, <1>6, <1>7 DEF Ask

(* Embed: what is not blank is clustered, what is blank is queued.         *)
LEMMA EmbedPreserves ==
  ASSUME IInv, NEW r \in Callers, Embed(r)
  PROVE  IInv'
<1> DEFINE d == run[r]
           P == d.pending \ Blank
           B == d.pending \cap Blank
           q == Queue(d.report, B, "aggregate")
           K == Clusters(P)
           c == [d EXCEPT !.step = "cluster", !.pending = {}, !.clusters = K,
                          !.report = q]
<1>1. /\ Kind[r] = "aggregate" /\ d.step = "check" /\ d.todo = {}
      /\ UNCHANGED <<live, retired, node, map, tx>>
  BY DEF Embed
<1>2. /\ d \in Call /\ d.report \in Report /\ d.pending \in SUBSET EntryIds
      /\ Sound(r, d) /\ run \in [Callers -> Call]
  BY CallFacts DEF IInv, Tables
<1>3. d.group = {} /\ d.clusters = {}
  BY <1>1, <1>2 DEF Sound, Shape
<1>4. B \in SUBSET EntryIds /\ P \cup B = d.pending /\ P \cap B = {}
  BY <1>2
<1>5. /\ q \in Report /\ q.skipped = d.report.skipped
      /\ q.done = d.report.done /\ q.nodes = d.report.nodes
      /\ Failed(q) = Failed(d.report) \cup B
  BY <1>2, <1>4, QueueFails
<1>6. /\ \A C \in K : C # {} /\ C \subseteq P
      /\ \A C, D \in K : C # D => C \cap D = {}
      /\ UNION K = P
  BY ClustersPartition
<1>7. K \in SUBSET SUBSET EntryIds
  BY <1>2, <1>6
<1>8. run' = [run EXCEPT ![r] = c]
  BY <1>2 DEF Embed, Call
<1> HIDE DEF q, K, P, B
<1>9. /\ c \in Call /\ c.step = "cluster" /\ c.listed = d.listed
      /\ c.todo = {} /\ c.pending = {} /\ c.clusters = K /\ c.group = {}
      /\ c.report = q /\ c.made = d.made /\ c.others = d.others
  BY <1>1, <1>2, <1>3, <1>5, <1>7 DEF Call, Steps
<1> HIDE DEF c, d
<1>10. Shape(Kind[r], c)
  BY <1>1, <1>9 DEF Shape
<1>11. Groups(Kind[r], c)
  BY <1>6, <1>9 DEF Groups
<1>12. Buckets(c)
  BY <1>1, <1>2, <1>3, <1>4, <1>5, <1>6, <1>9 DEF Sound, Buckets, Open, Closed
<1>13. Counts(c)
  BY <1>1, <1>2, <1>5, <1>9 DEF Sound, Counts, Unreported, AtRelate
<1>14. Raced(c)
  BY <1>2, <1>4, <1>6, <1>9 DEF Sound, Raced, AtWork
<1>15. Sound(r, c)
  BY <1>2, <1>9, <1>10, <1>11, <1>12, <1>13, <1>14 DEF Sound
<1> QED BY <1>1, <1>8, <1>9, <1>15, QuietStep DEF Writing, d

(* The next cluster is merged or, of mixed types, queued.                  *)
LEMMA NextClusterPreserves ==
  ASSUME IInv, NEW r \in Callers, NEW C \in run[r].clusters, NextCluster(r, C)
  PROVE  IInv'
<1> DEFINE d == run[r]
<1>1. /\ d.step = "cluster" /\ C \in d.clusters /\ Take(r, C)
      /\ UNCHANGED <<live, retired, node, map, tx>>
  BY DEF NextCluster
<1>2. /\ d \in Call /\ d.report \in Report /\ d.clusters \in SUBSET SUBSET EntryIds
      /\ Sound(r, d) /\ run \in [Callers -> Call]
  BY CallFacts DEF IInv, Tables, Call
<1>3. Kind[r] = "aggregate"
  BY <1>1, <1>2, KindIsOneOf DEF Sound, Shape
<1>4. d.todo = {} /\ d.pending = {} /\ d.group = {}
  BY <1>1, <1>2, <1>3 DEF Sound, Shape
<1>5. /\ C # {} /\ C \in SUBSET EntryIds
      /\ \A D \in d.clusters \ {C} : C \cap D = {}
      /\ UNION d.clusters = C \cup UNION (d.clusters \ {C})
  BY <1>1, <1>2 DEF Sound, Groups
<1>6. CASE /\ SameType(C)
           /\ run' = [run EXCEPT ![r].step = "ask", ![r].clusters = @ \ {C},
                                 ![r].group = C]
  <2> DEFINE c == [d EXCEPT !.step = "ask", !.clusters = @ \ {C}, !.group = C]
  <2>1. run' = [run EXCEPT ![r] = c]
    BY <1>2, <1>6 DEF Call
  <2>2. /\ c \in Call /\ c.step = "ask" /\ c.listed = d.listed
        /\ c.todo = {} /\ c.pending = {} /\ c.clusters = d.clusters \ {C}
        /\ c.group = C /\ c.report = d.report
        /\ c.made = d.made /\ c.others = d.others
    BY <1>2, <1>4, <1>5 DEF Call, Steps
  <2>3. SameType(C)
    BY <1>6
  <2> HIDE DEF c, d
  <2>4. Shape(Kind[r], c)
    BY <1>3, <2>2 DEF Shape
  <2>5. Groups(Kind[r], c)
    BY <1>2, <1>3, <1>5, <2>2, <2>3 DEF Sound, Groups
  <2>6. Buckets(c)
    BY <1>1, <1>2, <1>4, <1>5, <2>2 DEF Sound, Buckets, Open, Closed
  <2>7. Counts(c)
    BY <1>1, <1>2, <2>2 DEF Sound, Counts, Unreported, AtRelate
  <2>8. Raced(c)
    BY <1>2, <1>5, <2>2 DEF Sound, Raced, AtWork
  <2>9. Sound(r, c)
    BY <1>2, <2>2, <2>4, <2>5, <2>6, <2>7, <2>8 DEF Sound
  <2> QED BY <1>1, <2>1, <2>2, <2>9, QuietStep DEF Writing, d
<1>7. CASE run' = [run EXCEPT ![r].clusters = @ \ {C},
                              ![r].report = Queue(@, C, "aggregate")]
  <2> DEFINE q == Queue(d.report, C, "aggregate")
             c == [d EXCEPT !.clusters = @ \ {C}, !.report = q]
  <2>1. run' = [run EXCEPT ![r] = c]
    BY <1>2, <1>7 DEF Call
  <2>2. /\ q \in Report /\ q.skipped = d.report.skipped
        /\ q.done = d.report.done /\ q.nodes = d.report.nodes
        /\ Failed(q) = Failed(d.report) \cup C
    BY <1>2, <1>5, QueueFails
  <2> HIDE DEF q
  <2>3. /\ c \in Call /\ c.step = "cluster" /\ c.listed = d.listed
        /\ c.todo = {} /\ c.pending = {} /\ c.clusters = d.clusters \ {C}
        /\ c.group = {} /\ c.report = q
        /\ c.made = d.made /\ c.others = d.others
    BY <1>1, <1>2, <1>4, <2>2 DEF Call
  <2> HIDE DEF c, d
  <2>4. Shape(Kind[r], c)
    BY <1>3, <2>3 DEF Shape
  <2>5. Groups(Kind[r], c)
    BY <1>2, <2>3 DEF Sound, Groups
  <2>6. Buckets(c)
    BY <1>1, <1>2, <1>4, <1>5, <2>2, <2>3 DEF Sound, Buckets, Open, Closed
  <2>7. Counts(c)
    BY <1>1, <1>2, <2>2, <2>3 DEF Sound, Counts, Unreported, AtRelate
  <2>8. Raced(c)
    BY <1>2, <1>5, <2>3 DEF Sound, Raced, AtWork
  <2>9. Sound(r, c)
    BY <1>2, <2>3, <2>4, <2>5, <2>6, <2>7, <2>8 DEF Sound
  <2> QED BY <1>1, <2>1, <2>3, <2>9, QuietStep DEF Writing, d
<1> QED BY <1>1, <1>6, <1>7 DEF Take

(* Giving up on a group queues it and leads back to the loop.              *)
LEMMA HaltIsSound ==
  ASSUME IInv, NEW r \in Callers, NEW step \in {"split", "aggregate"},
         run[r].step \in {"ask", "write"}, Halt(r, step)
  PROVE  \E c \in Call : /\ run' = [run EXCEPT ![r] = c]
                         /\ c.step \in {"check", "cluster"}
                         /\ Sound(r, c)
<1> DEFINE d == run[r]
           q == Queue(d.report, d.group, step)
           c == [d EXCEPT !.step = Loop(r), !.group = {}, !.answer = << >>,
                          !.report = q]
<1>1. /\ d \in Call /\ d.report \in Report /\ d.group \in SUBSET EntryIds
      /\ Sound(r, d) /\ run \in [Callers -> Call]
  BY CallFacts DEF IInv, Tables
<1>2. /\ q \in Report /\ q.skipped = d.report.skipped
      /\ q.done = d.report.done /\ q.nodes = d.report.nodes
      /\ Failed(q) = Failed(d.report) \cup d.group
  BY <1>1, QueueFails
<1>3. run' = [run EXCEPT ![r] = c]
  BY <1>1 DEF Halt, Call
<1>4. /\ Loop(r) \in {"check", "cluster"}
      /\ Kind[r] = "split" => Loop(r) = "check"
      /\ Kind[r] = "aggregate" => Loop(r) = "cluster"
      /\ Kind[r] \in {"split", "aggregate"}
  BY KindIsOneOf DEF Loop
<1> HIDE DEF q
<1>5. << >> \in Seq(Draft)
  OBVIOUS
<1>6. /\ c \in Call /\ c.step = Loop(r) /\ c.listed = d.listed
      /\ c.todo = d.todo /\ c.pending = d.pending /\ c.clusters = d.clusters
      /\ c.group = {} /\ c.report = q
      /\ c.made = d.made /\ c.others = d.others
  BY <1>1, <1>2, <1>4, <1>5 DEF Call, Steps
<1>7. d.step \in {"ask", "write"}
  OBVIOUS
<1> HIDE DEF c, d
<1>8. Shape(Kind[r], c)
  BY <1>1, <1>4, <1>6, <1>7 DEF Sound, Shape
<1>9. Groups(Kind[r], c)
  BY <1>1, <1>4, <1>6 DEF Sound, Groups
<1>10. Buckets(c)
  BY <1>1, <1>2, <1>4, <1>6, <1>7 DEF Sound, Shape, Buckets, Open, Closed
<1>11. Counts(c)
  BY <1>1, <1>2, <1>4, <1>6, <1>7 DEF Sound, Counts, Unreported, AtRelate
<1>12. Raced(c)
  BY <1>1, <1>4, <1>6 DEF Sound, Raced, AtWork
<1>13. Sound(r, c)
  BY <1>1, <1>6, <1>8, <1>9, <1>10, <1>11, <1>12 DEF Sound
<1> QED BY <1>3, <1>4, <1>6, <1>13

(* An answer of the provider is taken to the transaction.                  *)
LEMMA AnswerPreserves ==
  ASSUME IInv, NEW r \in Callers, run[r].step = "ask", NEW answer \in Seq(Draft),
         run' = [run EXCEPT ![r].step = "begin", ![r].answer = answer],
         Kind[r] = "aggregate" =>
           Len(answer) = 1 /\ \A a \in run[r].group : Type[a] = answer[1].type,
         UNCHANGED <<live, retired, node, map, tx>>
  PROVE  IInv'
<1> DEFINE d == run[r]
           c == [d EXCEPT !.step = "begin", !.answer = answer]
<1>1. /\ d \in Call /\ Sound(r, d) /\ run \in [Callers -> Call] /\ d.step = "ask"
  BY CallFacts DEF IInv, Tables
<1>2. run' = [run EXCEPT ![r] = c]
  BY <1>1 DEF Call
<1>3. /\ c \in Call /\ c.step = "begin" /\ c.listed = d.listed
      /\ c.todo = d.todo /\ c.pending = d.pending /\ c.clusters = d.clusters
      /\ c.group = d.group /\ c.report = d.report /\ c.answer = answer
      /\ c.made = d.made /\ c.others = d.others
  BY <1>1 DEF Call, Steps
<1>4. Kind[r] = "aggregate" =>
        Len(answer) = 1 /\ \A a \in d.group : Type[a] = answer[1].type
  OBVIOUS
<1> HIDE DEF c, d
<1>5. Shape(Kind[r], c)
  BY <1>1, <1>3 DEF Sound, Shape
<1>6. Groups(Kind[r], c)
  BY <1>1, <1>3, <1>4 DEF Sound, Groups
<1>7. Buckets(c)
  BY <1>1, <1>3 DEF Sound, Buckets, Open, Closed
<1>8. Counts(c)
  BY <1>1, <1>3 DEF Sound, Counts, Unreported, AtRelate
<1>9. Raced(c)
  BY <1>1, <1>3 DEF Sound, Raced, AtWork
<1>10. Sound(r, c)
  BY <1>1, <1>3, <1>5, <1>6, <1>7, <1>8, <1>9 DEF Sound
<1> QED BY <1>1, <1>2, <1>3, <1>10, QuietStep DEF Writing, d

(* Split and Summarize answer with drafts, or fail.                        *)
LEMMA CallProviderPreserves ==
  ASSUME IInv, NEW r \in Callers, CallProvider(r)
  PROVE  IInv'
<1>1. run[r].step = "ask" /\ UNCHANGED <<live, retired, node, map, tx>>
  BY DEF CallProvider
<1>2. Kind[r] \in {"split", "aggregate"}
  BY KindIsOneOf
<1>3. CASE Kind[r] = "split" /\
           \E answer \in Answers :
             run' = [run EXCEPT ![r].step = "begin", ![r].answer = answer]
  <2>1. PICK answer \in Answers :
          run' = [run EXCEPT ![r].step = "begin", ![r].answer = answer]
    BY <1>3
  <2>2. answer \in Seq(Draft)
    BY OrchestratorAssumption
  <2> QED BY <1>1, <1>3, <2>1, <2>2, AnswerPreserves
<1>4. CASE Kind[r] = "aggregate" /\
           \E valid \in BOOLEAN, e \in run[r].group :
             run' = [run EXCEPT ![r].step = "begin",
                                ![r].answer = <<[type |-> Type[e], valid |-> valid]>>]
  <2>1. PICK valid \in BOOLEAN, e \in run[r].group :
          run' = [run EXCEPT ![r].step = "begin",
                             ![r].answer = <<[type |-> Type[e], valid |-> valid]>>]
    BY <1>4
  <2> DEFINE draft == [type |-> Type[e], valid |-> valid]
  <2>2. run[r].group \in SUBSET EntryIds /\ Sound(r, run[r])
    BY CallFacts
  <2>3. draft \in Draft /\ draft.type = Type[e]
    BY <2>2, OrchestratorAssumption DEF Draft
  <2>4. \A a \in run[r].group : Type[a] = Type[e]
    BY <1>1, <2>2 DEF Sound, Groups, SameType
  <2> HIDE DEF draft
  <2>5. <<draft>> \in Seq(Draft) /\ Len(<<draft>>) = 1 /\ <<draft>>[1] = draft
    BY <2>3
  <2>6. \A a \in run[r].group : Type[a] = <<draft>>[1].type
    BY <2>3, <2>4, <2>5
  <2>7. run' = [run EXCEPT ![r].step = "begin", ![r].answer = <<draft>>]
    BY <2>1 DEF draft
  <2> QED BY <1>1, <2>5, <2>6, <2>7, AnswerPreserves
<1>5. CASE Halt(r, Kind[r])
  <2>1. PICK c \in Call : /\ run' = [run EXCEPT ![r] = c]
                          /\ c.step \in {"check", "cluster"}
                          /\ Sound(r, c)
    BY <1>1, <1>2, <1>5, HaltIsSound
  <2> QED BY <1>1, <2>1, QuietStep DEF Writing
<1> QED BY <1>3, <1>4, <1>5 DEF CallProvider

(* Relate: the entry is reported with its nodes, whether or not it fails.  *)
LEMMA RelatePreserves ==
  ASSUME IInv, NEW r \in Callers, Relate(r)
  PROVE  IInv'
<1> DEFINE d == run[r]
           n == Len(d.answer)
<1>1. /\ d.step = "relate" /\ UNCHANGED <<live, retired, node, map, tx>>
  BY DEF Relate
<1>2. /\ d \in Call /\ d.report \in Report /\ d.group \in SUBSET EntryIds
      /\ n \in Nat /\ Sound(r, d) /\ run \in [Callers -> Call]
  BY CallFacts DEF IInv, Tables
<1>3. Kind[r] = "split" /\ d.pending = {} /\ d.clusters = {}
  BY <1>1, <1>2, KindIsOneOf DEF Sound, Shape
<1> HIDE DEF n
<1> DEFINE done == Done(d.report, d.group, n)
<1>4. /\ done \in Report /\ done.skipped = d.report.skipped
      /\ done.done = d.report.done \cup d.group
      /\ done.nodes = d.report.nodes + n
      /\ Failed(done) = Failed(d.report)
  BY <1>2, DoneReports
<1>5. PICK report \in {done, Queue(done, d.group, "relate")} :
        run' = [run EXCEPT ![r].step = "check", ![r].group = {}, ![r].answer = << >>,
                           ![r].report = report]
  BY DEF Relate, RelateFails, n
<1>6. /\ report \in Report /\ report.skipped = d.report.skipped
      /\ report.done = d.report.done \cup d.group
      /\ report.nodes = d.report.nodes + n
      /\ Failed(report) = Failed(d.report)
  BY <1>2, <1>4, <1>5, QueueFails
<1> DEFINE c == [d EXCEPT !.step = "check", !.group = {}, !.answer = << >>,
                          !.report = report]
<1>7. run' = [run EXCEPT ![r] = c]
  BY <1>2, <1>5 DEF Call
<1> HIDE DEF done
<1>8. << >> \in Seq(Draft)
  OBVIOUS
<1>9. /\ c \in Call /\ c.step = "check" /\ c.listed = d.listed
      /\ c.todo = d.todo /\ c.pending = {} /\ c.clusters = {}
      /\ c.group = {} /\ c.report = report
      /\ c.made = d.made /\ c.others = d.others
  BY <1>2, <1>3, <1>6, <1>8 DEF Call, Steps
<1> HIDE DEF c, d
<1>10. Shape(Kind[r], c) /\ Groups(Kind[r], c)
  BY <1>3, <1>9 DEF Shape, Groups
<1>11. Buckets(c)
  BY <1>1, <1>2, <1>3, <1>6, <1>9 DEF Sound, Buckets, Open, Closed
<1>12. Counts(c)
  <2>1. /\ Unreported(d) = n /\ AtRelate(d) = d.group
        /\ Unreported(c) = 0 /\ AtRelate(c) = {}
    BY <1>1, <1>9 DEF Unreported, AtRelate, n
  <2>2. d.report.nodes \in Nat
    BY <1>2 DEF Report
  <2>3. Counts(d)
    BY <1>2 DEF Sound
  <2>4. Cardinality(c.made) = c.report.nodes + Unreported(c)
    BY <1>2, <1>6, <1>9, <2>1, <2>2, <2>3 DEF Counts
  <2>5. /\ c.made \subseteq 1 .. Len(node) /\ c.report.skipped \subseteq Mapped
        /\ \A i \in c.made : EntriesOf(i) \subseteq c.report.done \cup AtRelate(c)
    BY <1>6, <1>9, <2>1, <2>3 DEF Counts
  <2> QED BY <2>4, <2>5 DEF Counts
<1>13. Raced(c)
  BY <1>9 DEF Raced, AtWork
<1>14. Sound(r, c)
  BY <1>2, <1>9, <1>10, <1>11, <1>12, <1>13 DEF Sound
<1> QED BY <1>1, <1>7, <1>9, <1>14, QuietStep DEF Writing, d

(* The end of the loop: nothing is left to do.                             *)
LEMMA FinishPreserves ==
  ASSUME IInv, NEW r \in Callers, Finish(r)
  PROVE  IInv'
<1> DEFINE d == run[r]
           c == [d EXCEPT !.step = "done"]
<1>1. /\ run' = [run EXCEPT ![r].step = "done"]
      /\ \/ Kind[r] = "split" /\ d.step = "check" /\ d.todo = {}
         \/ d.step = "cluster" /\ d.clusters = {}
      /\ UNCHANGED <<live, retired, node, map, tx>>
  BY DEF Finish
<1>2. d \in Call /\ Sound(r, d) /\ run \in [Callers -> Call]
  BY CallFacts DEF IInv, Tables
<1>3. run' = [run EXCEPT ![r] = c]
  BY <1>1, <1>2 DEF Call
<1>4. /\ d.todo = {} /\ d.pending = {} /\ d.clusters = {} /\ d.group = {}
      /\ d.step \in {"check", "cluster"}
  BY <1>1, <1>2, KindIsOneOf DEF Sound, Shape
<1>5. /\ c \in Call /\ c.step = "done" /\ c.listed = d.listed
      /\ c.todo = {} /\ c.pending = {} /\ c.clusters = {}
      /\ c.group = {} /\ c.report = d.report
      /\ c.made = d.made /\ c.others = d.others
  BY <1>2, <1>4 DEF Call, Steps
<1> HIDE DEF c, d
<1>6. Shape(Kind[r], c) /\ Groups(Kind[r], c)
  BY <1>5 DEF Shape, Groups
<1>7. Buckets(c)
  BY <1>2, <1>4, <1>5 DEF Sound, Buckets, Open, Closed
<1>8. Counts(c)
  BY <1>2, <1>4, <1>5 DEF Sound, Counts, Unreported, AtRelate
<1>9. Raced(c)
  BY <1>5 DEF Raced, AtWork
<1>10. Sound(r, c)
  BY <1>2, <1>5, <1>6, <1>7, <1>8, <1>9 DEF Sound
<1> QED BY <1>1, <1>3, <1>4, <1>5, <1>10, QuietStep DEF Writing, d

(* The caller has the report.                                              *)
LEMMA ReturnPreserves ==
  ASSUME IInv, NEW r \in Callers, Return(r)
  PROVE  IInv'
<1>1. /\ run[r].step \in {"done", "aborted"} /\ run' = [run EXCEPT ![r] = Idle]
      /\ UNCHANGED <<live, retired, node, map, tx>>
  BY DEF Return
<1>2. Idle.step = "idle"
  BY DEF Idle
<1> QED BY <1>1, <1>2, IdleIsSound, QuietStep DEF Writing

(* An error ends the call, and its transaction if it has one.              *)
LEMMA AbortPreserves ==
  ASSUME IInv, NEW r \in Callers, Abort(r)
  PROVE  IInv'
<1> DEFINE d == run[r]
           c == [d EXCEPT !.step = "aborted", !.group = {}, !.answer = << >>]
<1>1. /\ d.step \in {"check", "begin", "write"}
      /\ run' = [run EXCEPT ![r].step = "aborted", ![r].group = {}, ![r].answer = << >>]
      /\ tx' = IF Writing(r) THEN Null ELSE tx
      /\ UNCHANGED <<live, retired, node, map>>
  BY DEF Abort
<1>2. d \in Call /\ Sound(r, d) /\ run \in [Callers -> Call]
  BY CallFacts DEF IInv, Tables
<1>3. run' = [run EXCEPT ![r] = c]
  BY <1>1, <1>2 DEF Call
<1>4. << >> \in Seq(Draft)
  OBVIOUS
<1>5. /\ c \in Call /\ c.step = "aborted" /\ c.listed = d.listed
      /\ c.todo = d.todo /\ c.pending = d.pending /\ c.clusters = d.clusters
      /\ c.group = {} /\ c.report = d.report
      /\ c.made = d.made /\ c.others = d.others
  BY <1>2, <1>4 DEF Call, Steps
<1> HIDE DEF c, d
<1>6. Shape(Kind[r], c)
  BY <1>1, <1>2, <1>5 DEF Sound, Shape
<1>7. Groups(Kind[r], c)
  BY <1>2, <1>5 DEF Sound, Groups
<1>8. Buckets(c)
  BY <1>2, <1>5 DEF Sound, Buckets, Open, Closed
<1>9. Counts(c)
  BY <1>1, <1>2, <1>5 DEF Sound, Counts, Unreported, AtRelate
<1>10. Raced(c)
  BY <1>2, <1>5 DEF Sound, Raced, AtWork
<1>11. Sound(r, c)
  BY <1>2, <1>5, <1>6, <1>7, <1>8, <1>9, <1>10 DEF Sound
<1>12. CASE Writing(r)
  BY <1>1, <1>3, <1>5, <1>11, <1>12, ReleaseStep
<1>13. CASE ~Writing(r)
  BY <1>1, <1>3, <1>5, <1>11, <1>13, QuietStep
<1> QED BY <1>12, <1>13

-----------------------------------------------------------------------------
(* Steps of a transaction.                                                 *)

(* The nodes the first drafts become, and what one more draft adds.        *)
LEMMA DraftedNodes ==
  ASSUME NEW s \in Seq(Node), NEW c \in Call, c.group # {},
         NEW k \in 0 .. Len(c.answer)
  PROVE  /\ Drafted(c, k) \in Seq(Node) /\ Len(Drafted(c, k)) = k
         /\ s \o Drafted(c, k) \in Seq(Node)
         /\ Len(s \o Drafted(c, k)) = Len(s) + k
         /\ k = 0 => s \o Drafted(c, k) = s
         /\ \A i \in 1 .. Len(s) : (s \o Drafted(c, k))[i] = s[i]
         /\ \A i \in (Len(s) + 1) .. (Len(s) + k) :
              (s \o Drafted(c, k))[i] = NodeFor(c.answer[i - Len(s)], c.group)
<1>1. c.group \in SUBSET EntryIds /\ c.answer \in Seq(Draft) /\ k \in Nat
  BY DEF Call
<1>2. \A i \in 1 .. k : NodeFor(c.answer[i], c.group) \in Node
  <2> TAKE i \in 1 .. k
  <2>1. c.answer[i] \in Draft
    BY <1>1
  <2> QED BY <1>1, <2>1, NodeForIsNode
<1>3. /\ Drafted(c, k) \in Seq(Node) /\ Len(Drafted(c, k)) = k
      /\ \A i \in 1 .. k : Drafted(c, k)[i] = NodeFor(c.answer[i], c.group)
  BY <1>1, <1>2 DEF Drafted
<1>4. /\ s \o Drafted(c, k) \in Seq(Node)
      /\ Len(s \o Drafted(c, k)) = Len(s) + k
      /\ \A i \in 1 .. Len(s) + k :
           (s \o Drafted(c, k))[i] =
             IF i <= Len(s) THEN s[i] ELSE Drafted(c, k)[i - Len(s)]
  BY <1>3, ConcatProperties
<1>5. k = 0 => s \o Drafted(c, k) = s
  BY <1>3, ConcatEqualIffEmpty, EmptySeq, Z3
<1>6. Len(s) \in Nat
  BY LenProperties
<1>7. \A i \in 1 .. Len(s) : (s \o Drafted(c, k))[i] = s[i]
  BY <1>1, <1>4, <1>6
<1>8. \A i \in (Len(s) + 1) .. (Len(s) + k) :
        (s \o Drafted(c, k))[i] = NodeFor(c.answer[i - Len(s)], c.group)
  BY <1>1, <1>3, <1>4, <1>6
<1> QED BY <1>3, <1>4, <1>5, <1>7, <1>8

(* A statement of the open transaction.                                    *)
LEMMA StatementStep ==
  ASSUME IInv, NEW r \in Callers, Writing(r), tx' \in Transaction,
         Prefix(run[r])', UNCHANGED <<live, retired, node, map, run>>
  PROVE  IInv'
<1>1. Tables'
  BY DEF IInv, Tables
<1>2. tx' # Null
  BY OrchestratorAssumption
<1>3. \A q \in Callers : Writing(q)' <=> Writing(q)
  BY DEF Writing
<1>4. OneWriter' /\ \A q \in Callers : Writing(q)' => q = r
  BY <1>2, <1>3 DEF IInv, OneWriter, Free
<1>5. \A q \in Callers : Sound(q, run[q])'
  BY DEF IInv, Sound, Counts, Raced, Mapped, EntriesOf
<1>6. NodesFitTheirEntries'
  BY DEF IInv, NodesFitTheirEntries, EntriesOf
<1> QED BY <1>1, <1>4, <1>5, <1>6 DEF IInv

(* What holds while a call holds the connection.                           *)
LEMMA WriterFacts ==
  ASSUME IInv, NEW r \in Callers, Writing(r)
  PROVE  /\ tx \in Transaction /\ tx.node \in Seq(Node)
         /\ tx.map \in SUBSET (EntryIds \X Nat) /\ tx.unmapped \in SUBSET EntryIds
         /\ node \in Seq(Node) /\ map \in SUBSET (EntryIds \X (1 .. Len(node)))
         /\ run[r] \in Call /\ run[r].group \in SUBSET EntryIds /\ run[r].group # {}
         /\ run[r].answer \in Seq(Draft)
         /\ Sound(r, run[r]) /\ Prefix(run[r])
<1>1. tx # Null
  BY DEF IInv, OneWriter, Free
<1>2. tx \in Transaction
  BY <1>1 DEF IInv, Tables
<1>3. /\ tx.node \in Seq(Node) /\ tx.map \in SUBSET (EntryIds \X Nat)
      /\ tx.unmapped \in SUBSET EntryIds
  BY <1>2 DEF Transaction
<1>4. Sound(r, run[r]) /\ Prefix(run[r])
  BY DEF IInv
<1>5. run[r].group # {}
  BY <1>4 DEF Sound, Groups, Writing
<1>6. map \in SUBSET (EntryIds \X (1 .. Len(node))) /\ node \in Seq(Node)
  BY DEF IInv, Tables
<1> QED BY <1>2, <1>3, <1>4, <1>5, <1>6, CallFacts

(* BEGIN: nothing is written yet.                                          *)
LEMMA BeginPreserves ==
  ASSUME IInv, NEW r \in Callers, Begin(r)
  PROVE  IInv'
<1> DEFINE d == run[r]
           c == [d EXCEPT !.step = "write"]
<1>1. /\ d.step = "begin" /\ Free
      /\ tx' = [node |-> node, map |-> map, unmapped |-> {}]
      /\ run' = [run EXCEPT ![r].step = "write"]
      /\ UNCHANGED <<live, retired, node, map>>
  BY DEF Begin
<1>2. d \in Call /\ Sound(r, d) /\ run \in [Callers -> Call]
  BY CallFacts DEF IInv, Tables
<1>3. run' = [run EXCEPT ![r] = c]
  BY <1>1, <1>2 DEF Call
<1>4. /\ c \in Call /\ c.step = "write" /\ c.listed = d.listed
      /\ c.todo = d.todo /\ c.pending = d.pending /\ c.clusters = d.clusters
      /\ c.group = d.group /\ c.report = d.report /\ c.answer = d.answer
      /\ c.made = d.made /\ c.others = d.others
  BY <1>2 DEF Call, Steps
<1>5. d.step = "begin"
  BY <1>1
<1> HIDE DEF c, d
<1>6. Sound(r, c)
  <2>1. Shape(Kind[r], c)
    BY <1>2, <1>4, <1>5 DEF Sound, Shape
  <2>2. Groups(Kind[r], c)
    BY <1>2, <1>4, <1>5 DEF Sound, Groups
  <2>3. Buckets(c)
    BY <1>2, <1>4, <1>5 DEF Sound, Buckets, Open, Closed
  <2>4. Counts(c)
    BY <1>2, <1>4, <1>5 DEF Sound, Counts, Unreported, AtRelate
  <2>5. Raced(c)
    BY <1>2, <1>4, <1>5 DEF Sound, Raced, AtWork
  <2> QED BY <1>2, <1>4, <2>1, <2>2, <2>3, <2>4, <2>5 DEF Sound
<1>7. /\ run' \in [Callers -> Call] /\ run'[r] = c
      /\ \A q \in Callers \ {r} : run'[q] = run[q]
  BY <1>2, <1>3, <1>4
<1>8. node \in Seq(Node) /\ map \in SUBSET (EntryIds \X Nat)
  BY DEF IInv, Tables
<1>9. /\ tx' \in Transaction /\ tx' # Null
      /\ tx'.node = node /\ tx'.map = map /\ tx'.unmapped = {}
  BY <1>1, <1>8, OrchestratorAssumption DEF Transaction
<1>10. Tables'
  BY <1>1, <1>7, <1>9 DEF IInv, Tables
<1>11. \A q \in Callers : Writing(q)' <=> q = r
  BY <1>1, <1>4, <1>7 DEF Writing, IInv, OneWriter
<1>12. OneWriter'
  BY <1>9, <1>11 DEF OneWriter, Free
<1>13. \A q \in Callers : Sound(q, run[q])' <=> Sound(q, run'[q])
  BY <1>1 DEF Sound, Counts, Raced, Mapped, EntriesOf
<1>14. \A q \in Callers : Sound(q, run[q])'
  BY <1>6, <1>7, <1>13 DEF IInv
<1>15. Prefix(run[r])'
  <2>1. Written' = 0
    BY <1>1, <1>8, <1>9, LenProperties DEF Written
  <2>2. c.answer \in Seq(Draft) /\ c.group # {}
    BY <1>4, <1>6 DEF Call, Sound, Groups
  <2>3. 0 \in 0 .. Len(c.answer)
    BY <2>2, LenProperties
  <2>4. node \o Drafted(c, 0) = node
    BY <1>4, <1>8, <2>2, <2>3, DraftedNodes
  <2>5. (Len(node) + 1) .. (Len(node) + 0) = {}
    BY <1>8, LenProperties
  <2> QED BY <1>1, <1>7, <1>9, <2>1, <2>3, <2>4, <2>5 DEF Prefix
<1>16. NodesFitTheirEntries'
  BY <1>1 DEF IInv, NodesFitTheirEntries, EntriesOf
<1> QED BY <1>10, <1>11, <1>12, <1>14, <1>15, <1>16 DEF IInv

(* createNodeTx: one more draft becomes a node, unmapped so far.           *)
LEMMA CreateNodePreserves ==
  ASSUME IInv, NEW r \in Callers, CreateNode(r)
  PROVE  IInv'
<1> DEFINE d == run[r]
           k == Written
           n == NodeFor(d.answer[k + 1], d.group)
<1>1. /\ Writing(r) /\ tx.unmapped = {} /\ k < Len(d.answer)
      /\ tx' = [tx EXCEPT !.node = Append(@, n), !.unmapped = d.group]
      /\ UNCHANGED <<live, retired, node, map, run>>
  BY DEF CreateNode
<1>2. /\ tx \in Transaction /\ tx.node \in Seq(Node) /\ tx.map \in SUBSET (EntryIds \X Nat)
      /\ node \in Seq(Node) /\ d \in Call /\ d.group \in SUBSET EntryIds /\ d.group # {}
      /\ d.answer \in Seq(Draft) /\ Prefix(d)
  BY <1>1, WriterFacts
<1>3. k \in Nat /\ k + 1 \in 0 .. Len(d.answer) /\ k \in 0 .. Len(d.answer)
      /\ k + 1 \in 1 .. Len(d.answer) /\ Len(node) \in Nat
  BY <1>1, <1>2, LenProperties DEF Prefix
<1>4. n \in Node
  BY <1>2, <1>3, NodeForIsNode
<1>5. /\ Drafted(d, k) \in Seq(Node) /\ Drafted(d, k + 1) \in Seq(Node)
      /\ node \o Drafted(d, k) \in Seq(Node)
      /\ Len(node \o Drafted(d, k)) = Len(node) + k
      /\ node \o Drafted(d, k + 1) \in Seq(Node)
      /\ Len(node \o Drafted(d, k + 1)) = Len(node) + (k + 1)
  BY <1>2, <1>3, DraftedNodes
<1>6. tx.node = node \o Drafted(d, k)
  BY <1>2 DEF Prefix
<1> HIDE DEF n, k
<1>7. Append(tx.node, n) = node \o Drafted(d, k + 1)
  <2> DEFINE s == Append(tx.node, n)
             t == node \o Drafted(d, k + 1)
  <2>1. /\ s \in Seq(Node) /\ Len(s) = Len(node) + k + 1
        /\ \A i \in 1 .. Len(node) + k : s[i] = tx.node[i]
        /\ s[Len(node) + k + 1] = n
    <3>1. Len(tx.node) = Len(node) + k
      BY <1>5, <1>6
    <3>2. /\ s \in Seq(Node) /\ Len(s) = Len(tx.node) + 1
          /\ \A i \in 1 .. Len(tx.node) : s[i] = tx.node[i]
          /\ s[Len(tx.node) + 1] = n
      BY <1>2, <1>4, AppendProperties
    <3> QED BY <3>1, <3>2
  <2>2. /\ \A i \in 1 .. Len(node) : t[i] = node[i] /\ tx.node[i] = node[i]
        /\ \A i \in (Len(node) + 1) .. (Len(node) + k) :
             tx.node[i] = NodeFor(d.answer[i - Len(node)], d.group)
        /\ \A i \in (Len(node) + 1) .. (Len(node) + (k + 1)) :
             t[i] = NodeFor(d.answer[i - Len(node)], d.group)
    <3>1. /\ \A i \in 1 .. Len(node) : t[i] = node[i]
          /\ \A i \in (Len(node) + 1) .. (Len(node) + (k + 1)) :
               t[i] = NodeFor(d.answer[i - Len(node)], d.group)
      BY <1>2, <1>3, DraftedNodes
    <3>2. /\ \A i \in 1 .. Len(node) : tx.node[i] = node[i]
          /\ \A i \in (Len(node) + 1) .. (Len(node) + k) :
               tx.node[i] = NodeFor(d.answer[i - Len(node)], d.group)
      <4>1. /\ \A i \in 1 .. Len(node) : (node \o Drafted(d, k))[i] = node[i]
            /\ \A i \in (Len(node) + 1) .. (Len(node) + k) :
                 (node \o Drafted(d, k))[i] = NodeFor(d.answer[i - Len(node)], d.group)
        BY <1>2, <1>3, DraftedNodes
      <4> QED BY <1>6, <4>1
    <3> QED BY <3>1, <3>2
  <2>3. t[Len(node) + k + 1] = n
    <3>1. (Len(node) + k + 1) - Len(node) = k + 1
      BY <1>3
    <3>2. Len(node) + k + 1 \in (Len(node) + 1) .. (Len(node) + (k + 1))
      BY <1>3
    <3> QED BY <2>2, <3>1, <3>2 DEF n
  <2> HIDE DEF s, t
  <2>4. ASSUME NEW i \in 1 .. Len(s)
        PROVE  s[i] = t[i]
    <3>1. CASE i \in 1 .. Len(node)
      BY <1>3, <2>1, <2>2, <3>1
    <3>2. CASE i \in (Len(node) + 1) .. (Len(node) + k)
      BY <1>3, <2>1, <2>2, <3>2
    <3>3. CASE i = Len(node) + k + 1
      BY <2>1, <2>3, <3>3
    <3> QED BY <1>3, <2>1, <3>1, <3>2, <3>3
  <2>5. t \in Seq(Node) /\ Len(t) = Len(s)
    BY <1>3, <1>5, <2>1 DEF t
  <2>6. s = t
    BY <2>1, <2>4, <2>5, SeqEqual
  <2> QED BY <2>6 DEF s, t
<1>8. /\ tx' \in Transaction /\ tx'.node = Append(tx.node, n) /\ tx'.map = tx.map
      /\ tx'.unmapped = d.group
  <2>1. Append(tx.node, n) \in Seq(Node)
    BY <1>2, <1>4, AppendProperties
  <2>2. tx' = [tx EXCEPT !.node = Append(@, n), !.unmapped = d.group]
    BY <1>1 DEF n, k
  <2> QED BY <1>2, <2>1, <2>2 DEF Transaction
<1>9. Written' = k + 1
  BY <1>1, <1>3, <1>5, <1>7, <1>8 DEF Written
<1>10. tx.map = map \cup (d.group \X ((Len(node) + 1) .. (Len(node) + k)))
  BY <1>1, <1>2 DEF Prefix, k
<1>11. tx.map = map \cup ((d.group \X ((Len(node) + 1) .. (Len(node) + (k + 1))))
                           \ (d.group \X {Len(node) + (k + 1)}))
  <2>1. (Len(node) + 1) .. (Len(node) + k) =
          ((Len(node) + 1) .. (Len(node) + (k + 1))) \ {Len(node) + (k + 1)}
    BY <1>3
  <2>2. \A S, G, T : (G \X S) \ (G \X T) = G \X (S \ T)
    OBVIOUS
  <2> QED BY <1>10, <2>1, <2>2
<1>12. Prefix(d)'
  BY <1>1, <1>3, <1>7, <1>8, <1>9, <1>11 DEF Prefix
<1> QED BY <1>1, <1>8, <1>12, StatementStep

(* mapEntryToNodeTx: one entry less to be mapped to it.                    *)
LEMMA MapEntryToNodePreserves ==
  ASSUME IInv, NEW r \in Callers, NEW e \in EntryIds, MapEntryToNode(r, e)
  PROVE  IInv'
<1> DEFINE d == run[r]
           U == tx.unmapped
           last == Len(node) + Written
<1>1. /\ Writing(r) /\ e \in U
      /\ tx' = [tx EXCEPT !.map = @ \cup {<<e, Len(tx.node)>>}, !.unmapped = @ \ {e}]
      /\ UNCHANGED <<live, retired, node, map, run>>
  BY DEF MapEntryToNode
<1>2. /\ tx \in Transaction /\ tx.node \in Seq(Node) /\ tx.map \in SUBSET (EntryIds \X Nat)
      /\ U \in SUBSET EntryIds /\ node \in Seq(Node) /\ Prefix(d)
  BY <1>1, WriterFacts
<1>3. Len(node) \in Nat /\ Len(tx.node) \in Nat /\ Len(tx.node) = last
  BY <1>2, LenProperties DEF Written
<1>4. /\ tx' \in Transaction /\ tx'.node = tx.node /\ tx'.unmapped = U \ {e}
      /\ tx'.map = tx.map \cup {<<e, last>>}
  <2>1. last \in Nat /\ <<e, last>> \in EntryIds \X Nat
    BY <1>3
  <2>2. tx' = [tx EXCEPT !.map = @ \cup {<<e, last>>}, !.unmapped = @ \ {e}]
    BY <1>1, <1>3
  <2> HIDE DEF last
  <2> QED BY <1>2, <2>1, <2>2 DEF Transaction
<1>5. Written' = Written
  BY <1>1, <1>4 DEF Written
<1>6. e \in d.group /\ Written # 0 /\ Written \in Nat /\ U \subseteq d.group
  BY <1>1, <1>2 DEF Prefix
<1> DEFINE ids == (Len(node) + 1) .. (Len(node) + Written)
<1>7. last \in ids
  BY <1>3, <1>6
<1>8. tx.map = map \cup ((d.group \X ids) \ (U \X {last}))
  BY <1>2 DEF Prefix
<1> HIDE DEF U, last, ids
<1>9. tx'.map = map \cup ((d.group \X ids) \ ((U \ {e}) \X {last}))
  <2>1. (U \X {last}) = ((U \ {e}) \X {last}) \cup {<<e, last>>}
    BY <1>1
  <2>2. <<e, last>> \in d.group \X ids /\ <<e, last>> \notin (U \ {e}) \X {last}
    BY <1>6, <1>7
  <2> QED BY <1>4, <1>8, <2>1, <2>2
<1>10. Prefix(d)'
  BY <1>1, <1>2, <1>4, <1>5, <1>6, <1>9 DEF Prefix, U, last, ids
<1> QED BY <1>1, <1>4, <1>10, StatementStep

(* An invalid draft ends the transaction, and nothing stays.               *)
LEMMA RejectPreserves ==
  ASSUME IInv, NEW r \in Callers, Reject(r)
  PROVE  IInv'
<1>1. /\ Writing(r) /\ tx' = Null /\ Halt(r, "aggregate")
      /\ UNCHANGED <<live, retired, node, map>>
  BY DEF Reject, Rollback
<1>2. PICK c \in Call : /\ run' = [run EXCEPT ![r] = c]
                        /\ c.step \in {"check", "cluster"}
                        /\ Sound(r, c)
  BY <1>1, HaltIsSound DEF Writing
<1> QED BY <1>1, <1>2, ReleaseStep

(* What a commit leaves: a node for every draft, each of all the entries   *)
(* of the group.                                                           *)
Committed(r) ==
  LET c   == run[r]
      ids == (Len(node) + 1) .. (Len(node) + Len(c.answer))
  IN  /\ node' = node \o Drafted(c, Len(c.answer))
      /\ map' = map \cup (c.group \X ids)

(* COMMIT happens only when every draft is written and mapped.             *)
LEMMA CommitCommits ==
  ASSUME IInv, NEW r \in Callers, Commit(r)
  PROVE  Committed(r)
<1>1. /\ Writing(r) /\ tx.unmapped = {} /\ Written = Len(run[r].answer)
      /\ node' = tx.node /\ map' = tx.map
  BY DEF Commit
<1>2. Prefix(run[r])
  BY <1>1, WriterFacts
<1> QED BY <1>1, <1>2 DEF Prefix, Committed

(* What that does to who has nodes and whose they are.                     *)
LEMMA CommittedMaps ==
  ASSUME IInv, NEW r \in Callers, Writing(r), Committed(r)
  PROVE  LET c   == run[r]
             len == Len(node)
             k   == Len(c.answer)
         IN  /\ len \in Nat /\ k \in Nat
             /\ node' \in Seq(Node) /\ Len(node') = len + k
             /\ \A n \in 1 .. len :
                  node'[n] = node[n] /\ EntriesOf(n)' = EntriesOf(n)
             /\ \A n \in (len + 1) .. (len + k) :
                  /\ node'[n] = NodeFor(c.answer[n - len], c.group)
                  /\ EntriesOf(n)' = c.group
             /\ Mapped \subseteq Mapped' /\ Mapped' \subseteq Mapped \cup c.group
<1> DEFINE c == run[r]
           len == Len(node)
           k == Len(c.answer)
<1>1. /\ node \in Seq(Node) /\ map \subseteq EntryIds \X (1 .. len)
      /\ c \in Call /\ c.group \in SUBSET EntryIds /\ c.group # {}
      /\ c.answer \in Seq(Draft)
  BY WriterFacts
<1>2. len \in Nat /\ k \in Nat /\ k \in 0 .. k
  BY <1>1, LenProperties
<1>3. /\ node' = node \o Drafted(c, k)
      /\ map' = map \cup (c.group \X ((len + 1) .. (len + k)))
  BY DEF Committed
<1> HIDE DEF c, len, k
<1>4. /\ node \o Drafted(c, k) \in Seq(Node)
      /\ Len(node \o Drafted(c, k)) = len + k
      /\ \A i \in 1 .. len : (node \o Drafted(c, k))[i] = node[i]
      /\ \A i \in (len + 1) .. (len + k) :
           (node \o Drafted(c, k))[i] = NodeFor(c.answer[i - len], c.group)
  BY <1>1, <1>2, DraftedNodes DEF len, k
<1> DEFINE Of(S, n) == {p[1] : p \in {q \in S : q[2] = n}}
           In(S) == {p[1] : p \in S}
           N == map \cup (c.group \X ((len + 1) .. (len + k)))
<1>5. /\ \A n \in 1 .. len : Of(N, n) = Of(map, n)
      /\ \A n \in (len + 1) .. (len + k) : Of(N, n) = c.group
      /\ In(map) \subseteq In(N) /\ In(N) \subseteq In(map) \cup c.group
  BY <1>1, <1>2, MapGrows
<1>6. /\ \A n : EntriesOf(n) = Of(map, n) /\ EntriesOf(n)' = Of(N, n)
      /\ Mapped = In(map) /\ Mapped' = In(N)
  BY <1>3 DEF EntriesOf, Mapped
<1> HIDE DEF Of, In, N
<1>7. /\ \A n \in 1 .. len : EntriesOf(n)' = EntriesOf(n)
      /\ \A n \in (len + 1) .. (len + k) : EntriesOf(n)' = c.group
      /\ Mapped \subseteq Mapped' /\ Mapped' \subseteq Mapped \cup c.group
  BY <1>5, <1>6
<1> QED BY <1>2, <1>3, <1>4, <1>7 DEF c, len, k

(* The new nodes are dated and typed like the entries they are made of.    *)
LEMMA CommittedNodesFit ==
  ASSUME IInv, NEW r \in Callers, Writing(r), Committed(r)
  PROVE  NodesFitTheirEntries'
<1> DEFINE c == run[r]
           len == Len(node)
           k == Len(c.answer)
<1>1. /\ len \in Nat /\ k \in Nat
      /\ node' \in Seq(Node) /\ Len(node') = len + k
      /\ \A n \in 1 .. len : node'[n] = node[n] /\ EntriesOf(n)' = EntriesOf(n)
      /\ \A n \in (len + 1) .. (len + k) :
           /\ node'[n] = NodeFor(c.answer[n - len], c.group)
           /\ EntriesOf(n)' = c.group
  BY CommittedMaps
<1>2. /\ node \in Seq(Node) /\ c.group # {} /\ Sound(r, c) /\ c.answer \in Seq(Draft)
  BY WriterFacts
<1>3. DOMAIN node = 1 .. len /\ DOMAIN node' = 1 .. (len + k)
  BY <1>1, <1>2, LenProperties
<1>4. c.step = "write"
  BY DEF Writing
<1>5. /\ Kind[r] = "split" => \A a, b \in c.group : a = b
      /\ Kind[r] = "aggregate" =>
           k = 1 /\ \A a \in c.group : Type[a] = c.answer[1].type
  BY <1>2, <1>4 DEF Sound, Groups
<1> HIDE DEF c, len, k
<1> SUFFICES ASSUME NEW n \in DOMAIN node'
             PROVE  /\ EntriesOf(n)' # {} /\ node'[n].occurred = Earliest(EntriesOf(n)')
                    /\ \A a, b \in EntriesOf(n)' : a # b => Type[a] = node'[n].type
  BY DEF NodesFitTheirEntries, Earliest
<1>6. CASE n \in 1 .. len
  BY <1>1, <1>3, <1>6 DEF IInv, NodesFitTheirEntries
<1>7. CASE n \in (len + 1) .. (len + k)
  <2>1. /\ EntriesOf(n)' = c.group
        /\ node'[n].type = c.answer[n - len].type
        /\ node'[n].occurred = Earliest(c.group)
    <3>1. EntriesOf(n)' = c.group /\ node'[n] = NodeFor(c.answer[n - len], c.group)
      BY <1>1, <1>7
    <3> QED BY <3>1 DEF NodeFor
  <2>2. CASE Kind[r] = "split"
    BY <1>2, <1>5, <2>1, <2>2
  <2>3. CASE Kind[r] = "aggregate"
    <3>1. n - len = 1
      BY <1>1, <1>5, <1>7, <2>3
    <3> QED BY <1>2, <1>5, <2>1, <2>3, <3>1
  <2> QED BY <2>2, <2>3, KindIsOneOf
<1> QED BY <1>1, <1>3, <1>6, <1>7

(* The commit of a call seen by another: all that changes is that entries  *)
(* were mapped meanwhile.                                                  *)
LEMMA BystanderIsSound ==
  ASSUME IInv, NEW r \in Callers, Writing(r), Committed(r),
         NEW q \in Callers, q # r, UNCHANGED <<live, retired>>,
         run'[q] = IF run[q].step = "idle" THEN run[q]
                   ELSE [run[q] EXCEPT !.others = @ \cup run[r].group]
  PROVE  run'[q] \in Call /\ run'[q].step = run[q].step /\ Sound(q, run[q])'
<1> DEFINE d == run[q]
           c == run'[q]
           len == Len(node)
           G == run[r].group
<1>1. d \in Call /\ Sound(q, d) /\ G \in SUBSET EntryIds
  BY CallFacts
<1>2. /\ len \in Nat /\ Len(node') \in Nat /\ len <= Len(node')
      /\ \A n \in 1 .. len : EntriesOf(n)' = EntriesOf(n)
      /\ Mapped \subseteq Mapped' /\ Mapped' \subseteq Mapped \cup G
  BY CommittedMaps
<1>3. /\ c \in Call /\ c.step = d.step /\ c.listed = d.listed
      /\ c.todo = d.todo /\ c.pending = d.pending /\ c.clusters = d.clusters
      /\ c.group = d.group /\ c.report = d.report /\ c.answer = d.answer
      /\ c.made = d.made /\ d.others \subseteq c.others
  BY <1>1 DEF Call
<1>4. d.step = "idle" => c = Idle
  BY <1>1 DEF Sound, Shape
<1>5. d.step # "idle" => G \subseteq c.others
  BY <1>1 DEF Call
<1> HIDE DEF c, d, len, G
<1>6. Shape(Kind[q], c)
  BY <1>1, <1>3, <1>4 DEF Sound, Shape
<1>7. Groups(Kind[q], c)
  BY <1>1, <1>3 DEF Sound, Groups
<1>8. Buckets(c)
  BY <1>1, <1>3 DEF Sound, Buckets, Open, Closed
<1>9. Counts(d) /\ Raced(d)
  BY <1>1 DEF Sound
<1>10. Counts(run[q])'
  <2>1. Unreported(c) = Unreported(d) /\ AtRelate(c) = AtRelate(d)
    BY <1>3 DEF Unreported, AtRelate
  <2>2. d.made \subseteq 1 .. len
    BY <1>9 DEF Counts, len
  <2>3. c.made \subseteq 1 .. Len(node') /\ c.report.skipped \subseteq Mapped'
    BY <1>2, <1>3, <1>9, <2>2 DEF Counts
  <2>4. Cardinality(c.made) = c.report.nodes + Unreported(c)
    BY <1>3, <1>9, <2>1 DEF Counts
  <2>5. \A n \in c.made : EntriesOf(n)' \subseteq c.report.done \cup AtRelate(c)
    BY <1>2, <1>3, <1>9, <2>1, <2>2 DEF Counts
  <2> QED BY <2>3, <2>4, <2>5 DEF Counts, c
<1>11. Raced(run[q])'
  <2>1. CASE d.step = "idle"
    <3>1. c.pending = {} /\ c.clusters = {} /\ c.group = {}
      BY <1>4, <2>1 DEF Idle
    <3> QED BY <3>1 DEF Raced, AtWork, c
  <2>2. CASE d.step # "idle"
    <3>1. AtWork(c) = AtWork(d)
      BY <1>3 DEF AtWork
    <3> QED BY <1>2, <1>3, <1>5, <1>9, <2>2, <3>1 DEF Raced, c
  <2> QED BY <2>1, <2>2
<1>12. c.listed \subseteq (live \cup retired)'
  BY <1>1, <1>3 DEF Sound
<1> QED BY <1>3, <1>6, <1>7, <1>8, <1>10, <1>11, <1>12 DEF Sound, c, d

(* The ids of a commit are new to the call, and count.                     *)
LEMMA NewIdsCount ==
  ASSUME NEW made, NEW len \in Nat, NEW k \in Nat, made \subseteq 1 .. len
  PROVE  Cardinality(made \cup ((len + 1) .. (len + k))) = Cardinality(made) + k
<1> DEFINE new == (len + 1) .. (len + k)
<1>1. IsFiniteSet(1 .. len) /\ IsFiniteSet(new) /\ Cardinality(new) = k
  BY FS_Interval
<1>2. IsFiniteSet(made)
  BY <1>1, FS_Subset
<1>3. made \cap new = {}
  OBVIOUS
<1>4. Cardinality(made \cap new) = 0
  BY <1>3, FS_EmptySet
<1>5. Cardinality(made) \in Nat
  BY <1>2, FS_CardinalityType
<1> HIDE DEF new
<1>6. Cardinality(made \cup new) = Cardinality(made) + Cardinality(new)
  <2>1. Cardinality(made \cup new)
          = Cardinality(made) + Cardinality(new) - Cardinality(made \cap new)
    BY <1>1, <1>2, FS_Union
  <2> QED BY <1>1, <1>4, <1>5, <2>1
<1> QED BY <1>1, <1>6 DEF new

(* The call that commits.                                                  *)
LEMMA CommitterIsSound ==
  ASSUME IInv, NEW r \in Callers, Commit(r)
  PROVE  /\ run'[r] \in Call /\ run'[r].step # "write" /\ Sound(r, run[r])'
         /\ run'[r].made = run[r].made
              \cup ((Len(node) + 1) .. (Len(node) + Len(run[r].answer)))
<1> DEFINE d == run[r]
           c == run'[r]
           len == Len(node)
           k == Len(d.answer)
           ids == (len + 1) .. (len + k)
<1>1. /\ Writing(r) /\ UNCHANGED <<live, retired>> /\ Committed(r)
  BY CommitCommits DEF Commit
<1>2. /\ d \in Call /\ Sound(r, d) /\ d.group \in SUBSET EntryIds /\ d.report \in Report
      /\ d.answer \in Seq(Draft) /\ d.step = "write" /\ run \in [Callers -> Call]
  BY <1>1, CallFacts DEF IInv, Tables, Writing
<1>3. /\ len \in Nat /\ k \in Nat /\ Len(node') = len + k
      /\ \A n \in 1 .. len : EntriesOf(n)' = EntriesOf(n)
      /\ \A n \in ids : EntriesOf(n)' = d.group
      /\ Mapped \subseteq Mapped' /\ Mapped' \subseteq Mapped \cup d.group
  BY <1>1, CommittedMaps
<1>4. (Len(node) + 1) .. Len(tx.node) = ids
  <2>1. Len(tx.node) - len = k /\ Len(tx.node) \in Nat
    BY <1>1, WriterFacts, LenProperties DEF Commit, Written
  <2> QED BY <1>3, <2>1
<1>5. c = IF Kind[r] = "split"
          THEN [d EXCEPT !.step = "relate", !.made = @ \cup ids]
          ELSE [d EXCEPT !.step = "cluster", !.made = @ \cup ids, !.group = {},
                         !.answer = << >>, !.report = Done(@, d.group, 1)]
  BY <1>4 DEF Commit
<1>6. Counts(d) /\ Raced(d) /\ Buckets(d)
  BY <1>2 DEF Sound
<1>7. /\ Unreported(d) = 0 /\ AtRelate(d) = {} /\ AtWork(d) = d.group
      /\ d.made \subseteq 1 .. len /\ d.report.nodes \in Nat
      /\ Cardinality(d.made) = d.report.nodes
  BY <1>2, <1>6 DEF Counts, Unreported, AtRelate, AtWork, Report
<1> HIDE DEF d, len, k
<1>8. Cardinality(d.made \cup ids) = d.report.nodes + k
  <2>1. len \in Nat /\ k \in Nat /\ d.made \subseteq 1 .. len
    BY <1>3, <1>7
  <2>2. Cardinality(d.made \cup ids) = Cardinality(d.made) + k
    BY <2>1, NewIdsCount
  <2> QED BY <1>7, <2>2
<1>9. /\ ids \in SUBSET Nat /\ d.made \cup ids \subseteq 1 .. Len(node')
      /\ d.report.skipped \subseteq Mapped'
      /\ \A n \in d.made : EntriesOf(n)' \subseteq d.report.done
  BY <1>3, <1>6, <1>7 DEF Counts
<1>10. /\ d.todo \cap d.group = {} /\ (UNION d.clusters) \cap d.group = {}
  BY <1>6 DEF Buckets
<1>11. << >> \in Seq(Draft)
  OBVIOUS
<1> HIDE DEF c, ids
<1>12. CASE Kind[r] = "split"
  <2>1. c = [d EXCEPT !.step = "relate", !.made = @ \cup ids]
    BY <1>5, <1>12
  <2>2. /\ c \in Call /\ c.step = "relate" /\ c.listed = d.listed
        /\ c.todo = d.todo /\ c.pending = d.pending /\ c.clusters = d.clusters
        /\ c.group = d.group /\ c.report = d.report /\ c.answer = d.answer
        /\ c.made = d.made \cup ids /\ c.others = d.others
    BY <1>2, <1>9, <2>1 DEF Call, Steps
  <2>3. c.pending = {} /\ c.clusters = {}
    BY <1>2, <1>12, <2>2 DEF Sound, Shape
  <2>4. Shape(Kind[r], c)
    BY <1>12, <2>2, <2>3 DEF Shape
  <2>5. Groups(Kind[r], c)
    BY <1>2, <1>12, <2>2 DEF Sound, Groups
  <2>6. Buckets(c)
    BY <1>2, <1>6, <2>2 DEF Buckets, Open, Closed
  <2>7. Counts(run[r])'
    <3>1. Unreported(c) = k /\ AtRelate(c) = d.group
      BY <2>2 DEF Unreported, AtRelate, k
    <3>2. \A n \in c.made : EntriesOf(n)' \subseteq c.report.done \cup AtRelate(c)
      BY <1>3, <1>9, <2>2, <3>1
    <3> QED BY <1>8, <1>9, <2>2, <3>1, <3>2 DEF Counts, c
  <2>8. Raced(run[r])'
    BY <2>2, <2>3 DEF Raced, AtWork, c
  <2>9. c.listed \subseteq (live \cup retired)'
    BY <1>1, <1>2, <2>2 DEF Sound
  <2> QED BY <2>2, <2>4, <2>5, <2>6, <2>7, <2>8, <2>9 DEF Sound, c, d, len, k, ids
<1>13. CASE Kind[r] = "aggregate"
  <2> DEFINE q == Done(d.report, d.group, 1)
  <2>1. /\ q \in Report /\ q.skipped = d.report.skipped
        /\ q.done = d.report.done \cup d.group
        /\ q.nodes = d.report.nodes + 1 /\ Failed(q) = Failed(d.report)
    <3>1. d.report \in Report /\ d.group \in SUBSET EntryIds /\ 1 \in Nat
      BY <1>2
    <3> QED BY <3>1, DoneReports
  <2>2. c = [d EXCEPT !.step = "cluster", !.made = @ \cup ids, !.group = {},
                      !.answer = << >>, !.report = q]
    BY <1>2, <1>5, <1>13 DEF Call
  <2>3. k = 1 /\ d.todo = {} /\ d.pending = {}
    BY <1>2, <1>13 DEF Sound, Groups, Shape, k
  <2> HIDE DEF q
  <2>4. /\ c \in Call /\ c.step = "cluster" /\ c.listed = d.listed
        /\ c.todo = {} /\ c.pending = {} /\ c.clusters = d.clusters
        /\ c.group = {} /\ c.report = q
        /\ c.made = d.made \cup ids /\ c.others = d.others
    BY <1>2, <1>9, <1>11, <2>1, <2>2, <2>3 DEF Call, Steps
  <2>5. Shape(Kind[r], c)
    BY <1>13, <2>4 DEF Shape
  <2>6. Groups(Kind[r], c)
    BY <1>2, <2>4 DEF Sound, Groups
  <2>7. Buckets(c)
    BY <1>2, <1>6, <2>1, <2>3, <2>4 DEF Buckets, Open, Closed
  <2>8. Counts(run[r])'
    <3>1. Unreported(c) = 0 /\ AtRelate(c) = {}
      BY <2>4 DEF Unreported, AtRelate
    <3>2. \A n \in c.made : EntriesOf(n)' \subseteq c.report.done \cup AtRelate(c)
      BY <1>3, <1>9, <2>1, <2>4
    <3>3. Cardinality(c.made) = c.report.nodes + Unreported(c)
      BY <1>7, <1>8, <2>1, <2>3, <2>4, <3>1
    <3> QED BY <1>9, <2>1, <2>4, <3>2, <3>3 DEF Counts, c
  <2>9. Raced(run[r])'
    BY <1>3, <1>6, <1>10, <2>4 DEF Raced, AtWork, c
  <2>10. c.listed \subseteq (live \cup retired)'
    BY <1>1, <1>2, <2>4 DEF Sound
  <2> QED BY <2>4, <2>5, <2>6, <2>7, <2>8, <2>9, <2>10 DEF Sound, c, d, len, k, ids
<1> QED BY <1>12, <1>13, KindIsOneOf

(* COMMIT, for the graph, the call and the calls beside it.                *)
LEMMA CommitPreserves ==
  ASSUME IInv, NEW r \in Callers, Commit(r)
  PROVE  IInv'
<1>1. /\ Writing(r) /\ tx' = Null /\ map' = tx.map /\ Written = Len(run[r].answer)
      /\ UNCHANGED <<live, retired>> /\ Committed(r)
      /\ DOMAIN run' = Callers
      /\ run' = [q \in DOMAIN run' |-> run'[q]]
  BY CommitCommits DEF Commit
<1>2. \A q \in Callers \ {r} :
        run'[q] = IF run[q].step = "idle" THEN run[q]
                  ELSE [run[q] EXCEPT !.others = @ \cup run[r].group]
  BY DEF Commit
<1>3. \A q \in Callers \ {r} :
        run'[q] \in Call /\ run'[q].step = run[q].step /\ Sound(q, run[q])'
  BY <1>1, <1>2, BystanderIsSound
<1>4. /\ run'[r] \in Call /\ run'[r].step # "write" /\ Sound(r, run[r])'
  BY CommitterIsSound
<1>5. \A q \in Callers : run'[q] \in Call /\ Sound(q, run[q])' /\ ~Writing(q)'
  BY <1>1, <1>3, <1>4 DEF Writing, IInv, OneWriter
<1>6. OneWriter'
  BY <1>1, <1>5 DEF OneWriter, Free
<1>7. Tables'
  <2>1. /\ node' \in Seq(Node) /\ Len(node') = Len(node) + Len(run[r].answer)
        /\ Len(node) \in Nat /\ Len(run[r].answer) \in Nat
    BY <1>1, CommittedMaps
  <2>2. run[r].group \subseteq live \cup retired
    <3>1. Sound(r, run[r])
      BY <1>1, WriterFacts
    <3> QED BY <3>1 DEF Sound, Buckets, Open
  <2>3. map' = map \cup
          (run[r].group \X ((Len(node) + 1) .. (Len(node) + Len(run[r].answer))))
    BY <1>1 DEF Committed
  <2>4. map \subseteq (live \cup retired) \X (1 .. Len(node))
    BY DEF IInv, Tables
  <2>5. map' \subseteq (live \cup retired) \X (1 .. Len(node'))
    BY <2>1, <2>2, <2>3, <2>4
  <2>6. run' \in [Callers -> Call]
    BY <1>1, <1>5
  <2> QED BY <1>1, <2>1, <2>5, <2>6 DEF IInv, Tables
<1>8. NodesFitTheirEntries'
  BY <1>1, CommittedNodesFit
<1> QED BY <1>5, <1>6, <1>7, <1>8 DEF IInv

-----------------------------------------------------------------------------
(* The entries, the process, and the whole.                                *)

(* The entry tables change under the calls, and none of them minds.        *)
LEMMA WriteEntryPreserves ==
  ASSUME IInv, NEW e \in EntryIds, WriteEntry(e)
  PROVE  IInv'
<1>1. /\ live' \subseteq EntryIds /\ retired' \subseteq EntryIds \ live'
      /\ live \cup retired \subseteq live' \cup retired'
      /\ UNCHANGED <<node, map, tx, run>>
  BY DEF WriteEntry, IInv, Tables
<1>2. Tables'
  BY <1>1 DEF IInv, Tables
<1>3. OneWriter'
  BY <1>1 DEF IInv, OneWriter, Free, Writing
<1>4. ASSUME NEW r \in Callers
      PROVE  Sound(r, run[r])' /\ (Writing(r)' => Prefix(run[r])')
  <2>1. Sound(r, run[r]) /\ (Writing(r) => Prefix(run[r]))
    BY DEF IInv
  <2>2. Sound(r, run[r])'
    BY <1>1, <2>1 DEF Sound, Counts, Raced, Mapped, EntriesOf
  <2>3. Writing(r)' => Prefix(run[r])'
    BY <1>1, <2>1 DEF Writing, Prefix, Written
  <2> QED BY <2>2, <2>3
<1>5. NodesFitTheirEntries'
  BY <1>1 DEF IInv, NodesFitTheirEntries, EntriesOf
<1> QED BY <1>2, <1>3, <1>4, <1>5 DEF IInv

(* After a restart no call is in progress and no transaction is open.      *)
LEMMA RestartPreserves ==
  ASSUME IInv, Restart
  PROVE  IInv'
<1>1. /\ tx' = Null /\ run' = [r \in Callers |-> Idle]
      /\ UNCHANGED <<live, retired, node, map>>
  BY DEF Restart
<1>2. run' \in [Callers -> Call] /\ \A r \in Callers : run'[r] = Idle
  BY <1>1, IdleIsSound
<1>3. Tables'
  BY <1>1, <1>2 DEF IInv, Tables
<1>4. \A r \in Callers : ~Writing(r)'
  BY <1>2 DEF Writing, Idle
<1>5. OneWriter'
  BY <1>1, <1>4 DEF OneWriter, Free
<1>6. \A r \in Callers : Sound(r, run[r])' <=> Sound(r, run'[r])
  BY <1>1 DEF Sound, Counts, Raced, Mapped, EntriesOf
<1>7. NodesFitTheirEntries'
  BY <1>1 DEF IInv, NodesFitTheirEntries, EntriesOf
<1> QED BY <1>2, <1>3, <1>4, <1>5, <1>6, <1>7, IdleIsSound DEF IInv

(* The invariant holds to begin with,                                      *)
LEMMA InvariantInit ==
  ASSUME Init
  PROVE  IInv
<1>1. /\ live = Stored /\ retired = {} /\ node = << >> /\ map = {} /\ tx = Null
      /\ run = [r \in Callers |-> Idle]
  BY DEF Init
<1>2. run \in [Callers -> Call] /\ \A r \in Callers : run[r] = Idle
  BY <1>1, IdleIsSound
<1>3. Tables
  BY <1>1, <1>2, OrchestratorAssumption, EmptySeq DEF Tables
<1>4. \A r \in Callers : ~Writing(r)
  BY <1>2 DEF Writing, Idle
<1>5. OneWriter
  BY <1>1, <1>4 DEF OneWriter, Free
<1>6. NodesFitTheirEntries
  BY <1>1 DEF NodesFitTheirEntries
<1> QED BY <1>2, <1>3, <1>4, <1>5, <1>6, IdleIsSound DEF IInv

(* The commits are the steps that change the graph.                        *)
LEMMA OnlyCommitWrites ==
  ASSUME [Next]_vars
  PROVE  UNCHANGED <<node, map>> \/ \E r \in Callers : Commit(r)
BY ZenonT(60) DEF Next, Proceed, vars, WriteEntry, Start, Check, MapEntryToNode, Embed,
       NextCluster, CallProvider, Begin, CreateNode, Reject, Rollback, Relate,
       Finish, Return, Abort, Restart

(* every step preserves it,                                                *)
LEMMA InvariantNext ==
  ASSUME IInv, [Next]_vars
  PROVE  IInv'
<1>1. CASE \E e \in EntryIds : WriteEntry(e)
  BY <1>1, WriteEntryPreserves
<1>2. ASSUME NEW r \in Callers, NEW filter \in Filters[r], Start(r, filter)
      PROVE  IInv'
  BY <1>2, StartPreserves
<1>3. ASSUME NEW r \in Callers, Proceed(r)
      PROVE  IInv'
  <2>1. CASE \E e \in EntryIds : Check(r, e)
    BY <2>1, CheckPreserves
  <2>2. CASE \E e \in EntryIds : MapEntryToNode(r, e)
    BY <2>2, MapEntryToNodePreserves
  <2>3. CASE Embed(r)
    BY <2>3, EmbedPreserves
  <2>4. CASE \E C \in run[r].clusters : NextCluster(r, C)
    BY <2>4, NextClusterPreserves
  <2>5. CASE CallProvider(r)
    BY <2>5, CallProviderPreserves
  <2>6. CASE Begin(r)
    BY <2>6, BeginPreserves
  <2>7. CASE CreateNode(r)
    BY <2>7, CreateNodePreserves
  <2>8. CASE Reject(r)
    BY <2>8, RejectPreserves
  <2>9. CASE Commit(r)
    BY <2>9, CommitPreserves
  <2>10. CASE Relate(r)
    BY <2>10, RelatePreserves
  <2>11. CASE Finish(r)
    BY <2>11, FinishPreserves
  <2>12. CASE Return(r)
    BY <2>12, ReturnPreserves
  <2> QED BY <1>3, <2>1, <2>2, <2>3, <2>4, <2>5, <2>6, <2>7, <2>8, <2>9, <2>10,
             <2>11, <2>12 DEF Proceed
<1>4. ASSUME NEW r \in Callers, Abort(r)
      PROVE  IInv'
  BY <1>4, AbortPreserves
<1>5. CASE Restart
  BY <1>5, RestartPreserves
<1>6. CASE UNCHANGED vars
  <2>1. UNCHANGED <<live, retired, node, map, tx, run>>
    BY <1>6 DEF vars
  <2>2. Tables' /\ OneWriter' /\ NodesFitTheirEntries'
    BY <2>1 DEF IInv, Tables, OneWriter, Free, Writing, NodesFitTheirEntries, EntriesOf
  <2>3. \A r \in Callers : Sound(r, run[r])'
    BY <2>1 DEF IInv, Sound, Counts, Raced, Mapped, EntriesOf
  <2>4. \A r \in Callers : Writing(r)' => Prefix(run[r])'
    BY <2>1 DEF IInv, Writing, Prefix, Written
  <2> QED BY <2>2, <2>3, <2>4 DEF IInv
<1> QED BY <1>1, <1>2, <1>3, <1>4, <1>5, <1>6 DEF Next

(* and so it holds for ever.                                               *)
LEMMA Invariance == Spec => []IInv
BY InvariantInit, InvariantNext, PTL DEF Spec

-----------------------------------------------------------------------------
(* The theorems.                                                           *)

(* Every table and every call is of its type, mappings join rows that are  *)
(* there, and the connection has one holder at most (tx.go:44).            *)
THEOREM OrchestratorTypeCorrect == Spec => []TypeOK
<1>1. IInv => TypeOK
  <2> SUFFICES ASSUME IInv
               PROVE  TypeOK
    OBVIOUS
  <2>1. /\ live \subseteq EntryIds /\ retired \subseteq EntryIds \ live
        /\ node \in Seq(Node) /\ map \subseteq (live \cup retired) \X (1 .. Len(node))
        /\ tx \in Transaction \cup {Null}
    BY DEF IInv, Tables
  <2>2. ASSUME NEW r \in Callers
        PROVE  /\ run[r].report \in Report /\ run[r].answer \in Seq(Draft)
               /\ run[r].listed \subseteq live \cup retired
               /\ UNION {run[r].todo, run[r].pending, run[r].group} \subseteq run[r].listed
               /\ UNION run[r].clusters \subseteq run[r].listed
    <3>1. Sound(r, run[r]) /\ run[r].report \in Report /\ run[r].answer \in Seq(Draft)
      BY CallFacts
    <3>2. Open(run[r]) \subseteq run[r].listed
      BY <3>1 DEF Sound, Buckets
    <3> QED BY <3>1, <3>2 DEF Sound, Open
  <2> QED BY <2>1, <2>2 DEF TypeOK, IInv, OneWriter
<1> QED BY <1>1, Invariance, PTL

(* A node is dated by the earliest of its entries, and one made of several *)
(* is of the type of them all (orchestrator_aggregate.go:155).             *)
THEOREM NodesAlwaysFit == Spec => []NodesFitTheirEntries
<1>1. IInv => NodesFitTheirEntries
  BY DEF IInv
<1> QED BY <1>1, Invariance, PTL

(* The report of a finished call tells what it did to the graph            *)
(* (orchestrator.go:12).                                                   *)
THEOREM ReportsAreTrue == Spec => []ReportIsTrue
<1>1. IInv => ReportIsTrue
  <2> SUFFICES ASSUME IInv, NEW r \in Callers, run[r].step = "done"
               PROVE  LET report == run[r].report
                          failed == Failed(report)
                      IN  /\ run[r].listed = UNION {report.skipped, report.done, failed}
                          /\ Cardinality(report.skipped) + Cardinality(report.done)
                               + Cardinality(failed) = Cardinality(run[r].listed)
                          /\ report.nodes = Cardinality(run[r].made)
                          /\ report.skipped \subseteq Mapped
                          /\ \A n \in run[r].made :
                               EntriesOf(n) # {} /\ EntriesOf(n) \subseteq report.done
    BY DEF ReportIsTrue
  <2> DEFINE d == run[r]
             A == d.report.skipped
             B == d.report.done
             F == Failed(d.report)
  <2>1. /\ d \in Call /\ d.step = "done" /\ d.report \in Report
        /\ Shape(Kind[r], d) /\ Buckets(d) /\ Counts(d)
    BY CallFacts DEF Sound
  <2>2. d.listed \in SUBSET EntryIds /\ d.report.nodes \in Nat
    BY <2>1 DEF Call, Report
  <2> HIDE DEF d
  <2>3. Open(d) = {}
    BY <2>1 DEF Shape, Open
  <2>4. d.listed = A \cup B \cup F
    BY <2>1, <2>3 DEF Buckets, Closed
  <2>5. A \cap B = {} /\ (A \cup B) \cap F = {}
    BY <2>1 DEF Buckets
  <2>6. Unreported(d) = 0 /\ AtRelate(d) = {}
    BY <2>1 DEF Unreported, AtRelate
  <2>7. /\ d.report.nodes = Cardinality(d.made) /\ A \subseteq Mapped
        /\ d.made \subseteq DOMAIN node
        /\ \A n \in d.made : EntriesOf(n) \subseteq B
    <3>1. DOMAIN node = 1 .. Len(node)
      BY LenProperties DEF IInv, Tables
    <3> QED BY <2>1, <2>2, <2>6, <3>1 DEF Counts
  <2>8. \A n \in d.made : EntriesOf(n) # {}
    BY <2>7 DEF IInv, NodesFitTheirEntries
  <2> HIDE DEF A, B, F
  <2>9. Cardinality(A) + Cardinality(B) + Cardinality(F) = Cardinality(d.listed)
    <3>1. IsFiniteSet(d.listed)
      BY <2>2, FS_Subset, OrchestratorAssumption
    <3>2. IsFiniteSet(A) /\ IsFiniteSet(B) /\ IsFiniteSet(F) /\ IsFiniteSet(A \cup B)
      BY <2>4, <3>1, FS_Subset
    <3>3. /\ Cardinality(A) \in Nat /\ Cardinality(B) \in Nat /\ Cardinality(F) \in Nat
          /\ Cardinality({}) = 0
      BY <3>2, FS_CardinalityType, FS_EmptySet
    <3>4. Cardinality(A \cup B) = Cardinality(A) + Cardinality(B)
      <4>1. Cardinality(A \cup B) = Cardinality(A) + Cardinality(B) - Cardinality(A \cap B)
        BY <3>2, FS_Union
      <4>2. Cardinality(A \cap B) = 0
        BY <2>5, <3>3
      <4> QED BY <3>3, <4>1, <4>2
    <3>5. Cardinality((A \cup B) \cup F) = Cardinality(A \cup B) + Cardinality(F)
      <4>1. Cardinality((A \cup B) \cup F)
              = Cardinality(A \cup B) + Cardinality(F) - Cardinality((A \cup B) \cap F)
        BY <3>2, FS_Union
      <4>2. Cardinality((A \cup B) \cap F) = 0
        BY <2>5, <3>3
      <4> QED BY <3>3, <3>4, <4>1, <4>2
    <3> QED BY <2>4, <3>3, <3>4, <3>5
  <2>10. d.listed = UNION {A, B, F}
    BY <2>4
  <2> QED BY <2>7, <2>8, <2>9, <2>10 DEF d, A, B, F
<1> QED BY <1>1, Invariance, PTL

(* A split or a merge is written whole or not at all, whatever fails and   *)
(* whenever the process ends (tx.go:39).                                   *)
THEOREM PersistsAtomically == Spec => PersistIsAtomic
<1> DEFINE Whole(r) ==
      LET answer == run[r].answer
          ids    == (Len(node) + 1) .. (Len(node) + Len(answer))
      IN  /\ node' = node \o [i \in DOMAIN answer |-> NodeFor(answer[i], run[r].group)]
          /\ map' = map \cup (run[r].group \X ids)
<1>1. ASSUME IInv, [Next]_vars
      PROVE  UNCHANGED <<node, map>> \/ \E r \in Callers : Whole(r)
  <2>1. ASSUME NEW r \in Callers, Commit(r)
        PROVE  Whole(r)
    <3>1. Committed(r)
      BY <1>1, <2>1, CommitCommits
    <3>2. DOMAIN run[r].answer = 1 .. Len(run[r].answer)
      BY <1>1, CallFacts, LenProperties
    <3> QED BY <3>1, <3>2 DEF Committed, Drafted
  <2> QED BY <1>1, <2>1, OnlyCommitWrites
<1>2. IInv /\ [Next]_vars =>
        [UNCHANGED <<node, map>> \/ \E r \in Callers : Whole(r)]_vars
  BY <1>1
<1> QED BY <1>2, Invariance, PTL DEF Spec, PersistIsAtomic

(* A call gives nodes to an entry that has some only if another call did   *)
(* so while it ran: the lazy guard fails to calls that overlap and to none *)
(* other (orchestrator.go:86).                                             *)
THEOREM SplitsAgainOnlyTogether == Spec => SplitAgainOnlyTogether
<1> DEFINE Lost ==
      \A e \in Mapped : NodesOf(e)' # NodesOf(e) =>
        \E r \in Callers : run'[r].made # run[r].made /\ e \in run[r].others
<1>1. ASSUME IInv, [Next]_vars
      PROVE  Lost
  <2> SUFFICES ASSUME NEW e \in Mapped, NodesOf(e)' # NodesOf(e)
               PROVE  \E r \in Callers : run'[r].made # run[r].made /\ e \in run[r].others
    OBVIOUS
  <2>1. ~UNCHANGED <<node, map>>
    BY DEF NodesOf
  <2>2. PICK r \in Callers : Commit(r)
    BY <1>1, <2>1, OnlyCommitWrites
  <2> DEFINE d == run[r]
             ids == (Len(node) + 1) .. (Len(node) + Len(d.answer))
  <2>3. /\ Writing(r) /\ map' = map \cup (d.group \X ids)
        /\ Len(node) \in Nat /\ Len(d.answer) \in Nat
    BY <1>1, <2>2, CommitCommits, CommittedMaps DEF Commit, Committed
  <2>4. Sound(r, d) /\ d.step = "write"
    BY <1>1, <2>3, WriterFacts DEF Writing
  <2>5. run'[r].made = d.made \cup ids
    BY <1>1, <2>2, CommitterIsSound
  <2>6. d.made \subseteq 1 .. Len(node)
    BY <2>4 DEF Sound, Counts
  <2>7. e \in d.group /\ ids # {}
    <3> SUFFICES ASSUME e \notin d.group \/ ids = {}
                 PROVE  NodesOf(e)' = NodesOf(e)
      OBVIOUS
    <3>1. \A p \in d.group \X ids : p[1] # e
      OBVIOUS
    <3>2. {q \in map' : q[1] = e} = {q \in map : q[1] = e}
      BY <2>3, <3>1
    <3> QED BY <3>2 DEF NodesOf
  <2>8. run'[r].made # d.made
    BY <2>3, <2>5, <2>6, <2>7
  <2>9. e \in d.others
    BY <2>4, <2>7 DEF Sound, Raced, AtWork
  <2> QED BY <2>8, <2>9
<1>2. IInv /\ [Next]_vars => [Lost]_vars
  BY <1>1
<1> QED BY <1>2, Invariance, PTL DEF Spec, SplitAgainOnlyTogether

=============================================================================
