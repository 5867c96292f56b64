---------------------------- MODULE Orchestrator ----------------------------
(***************************************************************************)
(* From entries to nodes: Orchestrate (orchestrator.go) splits an entry    *)
(* into nodes, AggregateEntries (orchestrator_aggregate.go) merges similar *)
(* entries into one, and both write through InTx (tx.go).                  *)
(*                                                                         *)
(* A run asks entry by entry whether there is work, calls the provider     *)
(* without holding the connection, and writes in a transaction that holds  *)
(* it from BEGIN to COMMIT; whatever else needs the connection waits.      *)
(***************************************************************************)
EXTENDS Naturals, Sequences, FiniteSets

CONSTANTS
  EntryIds,   \* ids of entry versions
  Type,       \* the type of an entry
  Occurred,   \* its event time, never zero for a stored entry
  Stored,     \* entries that are live when the calls begin
  Blank,      \* entries without text to embed
  Similar,    \* pairs of entries whose vectors are within theta
  Answers,    \* what Split may return: sequences of drafts
  Callers,    \* goroutines that call Orchestrate or AggregateEntries
  Kind,       \* which of the two, "split" or "aggregate"
  Filters,    \* what a caller may list by: sets of the entries that match
  Null

Types == {"activity", "research", "discuss", "decision", "goal"}

(* A NodeDraft, or the merged node of a cluster; valid is validateNode.    *)
Draft == [type : Types, valid : BOOLEAN]

Node == [type : Types, occurred : Nat]

(* An open transaction: the tables as it sees them, and the entries that   *)
(* have yet to be mapped to the node it created last.                      *)
Transaction == [node : Seq(Node), map : SUBSET (EntryIds \X Nat),
                unmapped : SUBSET EntryIds]

ASSUME OrchestratorAssumption ==
  /\ IsFiniteSet(EntryIds)
  /\ Null \notin Transaction
  /\ Type \in [EntryIds -> Types]
  /\ Occurred \in [EntryIds -> Nat]
  /\ Stored \subseteq EntryIds
  /\ Blank \subseteq EntryIds
  /\ Similar \subseteq EntryIds \X EntryIds
  /\ Answers \subseteq Seq(Draft)
  /\ Kind \in [Callers -> {"split", "aggregate"}]
  /\ Filters \in [Callers -> SUBSET SUBSET EntryIds]

VARIABLES
  live,     \* entries with is_current = 1
  retired,  \* entries that were live before
  node,     \* the nodes rows, in the order of their ids (uuid v7)
  map,      \* entry_node_map: pairs of an entry and a node id
  tx,       \* the transaction that holds the connection, or Null
  run       \* caller -> its call in progress

vars == <<live, retired, node, map, tx, run>>

(* OrchestrateResult or AggregateResult; entries are named where the code  *)
(* counts them.                                                            *)
Report == [skipped : SUBSET EntryIds,
           done    : SUBSET EntryIds,
           nodes   : Nat,
           queued  : SUBSET (EntryIds \X {"split", "aggregate", "relate"})]

NoReport == [skipped |-> {}, done |-> {}, nodes |-> 0, queued |-> {}]

(* A call: the entries still to be asked for, the unmapped ones collected  *)
(* and the clusters left (aggregate), the entries at work and the drafts   *)
(* the provider answered for them.  made and others are history variables: *)
(* the nodes this call committed, the entries other calls mapped meanwhile.*)
Idle == [step |-> "idle", listed |-> {}, todo |-> {}, pending |-> {},
         clusters |-> {}, group |-> {}, answer |-> << >>,
         report |-> NoReport, made |-> {}, others |-> {}]

Free == tx = Null

(* entryHasNodes                                                           *)
Mapped == {p[1] : p \in map}

(* Where a run goes when it is finished with its group.                    *)
Loop(r) == IF Kind[r] = "split" THEN "check" ELSE "cluster"

Queue(report, group, step) ==
  [report EXCEPT !.queued = @ \cup (group \X {step})]

Done(report, group, nodes) ==
  [report EXCEPT !.done = @ \cup group, !.nodes = @ + nodes]

(* Give up on the group: queued with the step where it halted.             *)
Halt(r, step) ==
  run' = [run EXCEPT ![r].step = Loop(r), ![r].group = {}, ![r].answer = << >>,
                     ![r].report = Queue(@, run[r].group, step)]

-----------------------------------------------------------------------------
(* cluster.EpsilonBall: single linkage, so a cluster is a smallest set that*)
(* nothing outside it is similar to.                                       *)
Apart(C, P) ==
  \A a \in C, b \in P \ C : <<a, b>> \notin Similar /\ <<b, a>> \notin Similar

Clusters(P) ==
  {C \in (SUBSET P) \ {{}} :
     Apart(C, P) /\ \A D \in (SUBSET C) \ {{}} : Apart(D, P) => D = C}

SameType(group) == \A a, b \in group : Type[a] = Type[b]

(* draftToNode and mergedNode: the event time of the earliest entry.       *)
Earliest(group) ==
  CHOOSE t \in {Occurred[e] : e \in group} : \A e \in group : t <= Occurred[e]

NodeFor(draft, group) == [type |-> draft.type, occurred |-> Earliest(group)]

-----------------------------------------------------------------------------
Init ==
  /\ live = Stored
  /\ retired = {}
  /\ node = << >>
  /\ map = {}
  /\ tx = Null
  /\ run = [r \in Callers |-> Idle]

(* The entry tables: a new entry, or a new version in the place of an old. *)
WriteEntry(e) ==
  /\ Free
  /\ e \in EntryIds \ (live \cup retired)
  /\ \/ live' = live \cup {e} /\ UNCHANGED retired
     \/ \E old \in live :
          /\ Type[old] = Type[e]
          /\ live' = (live \ {old}) \cup {e}
          /\ retired' = retired \cup {old}
  /\ UNCHANGED <<node, map, tx, run>>

(* A caller lists entries, by repo or type, and passes them.               *)
Start(r, filter) ==
  LET listed == live \cap filter
  IN  /\ Free
      /\ run[r].step = "idle"
      /\ listed # {}
      /\ run' = [run EXCEPT ![r] = [Idle EXCEPT !.step = "check", !.listed = listed,
                                                !.todo = listed]]
      /\ UNCHANGED <<live, retired, node, map, tx>>

(* The lazy guard; the faulty variant forgets it.                          *)
AlwaysAsk(r, e) ==
  run' = [run EXCEPT ![r].step = "ask", ![r].todo = @ \ {e}, ![r].group = {e}]

(* What the lookup leads to: skipped, split now, or kept for clustering.   *)
Ask(r, e) ==
  \/ /\ e \in Mapped
     /\ run' = [run EXCEPT ![r].todo = @ \ {e}, ![r].report.skipped = @ \cup {e}]
  \/ /\ e \notin Mapped /\ Kind[r] = "split"
     /\ run' = [run EXCEPT ![r].step = "ask", ![r].todo = @ \ {e}, ![r].group = {e}]
  \/ /\ e \notin Mapped /\ Kind[r] = "aggregate"
     /\ run' = [run EXCEPT ![r].todo = @ \ {e}, ![r].pending = @ \cup {e}]

Check(r, e) ==
  /\ Free
  /\ run[r].step = "check"
  /\ e \in run[r].todo
  /\ Ask(r, e)
  /\ UNCHANGED <<live, retired, node, map, tx>>

(* Embed: blank entries are queued, the others clustered.                  *)
Embed(r) ==
  /\ Kind[r] = "aggregate"
  /\ run[r].step = "check" /\ run[r].todo = {}
  /\ run' = [run EXCEPT ![r].step = "cluster", ![r].pending = {},
                        ![r].clusters = Clusters(run[r].pending \ Blank),
                        ![r].report = Queue(@, run[r].pending \cap Blank, "aggregate")]
  /\ UNCHANGED <<live, retired, node, map, tx>>

(* A cluster that mixes types is refused; the faulty variant takes it.     *)
TakeAny(r, C) ==
  run' = [run EXCEPT ![r].step = "ask", ![r].clusters = @ \ {C}, ![r].group = C]

Take(r, C) ==
  \/ /\ SameType(C)
     /\ run' = [run EXCEPT ![r].step = "ask", ![r].clusters = @ \ {C}, ![r].group = C]
  \/ /\ ~SameType(C)
     /\ run' = [run EXCEPT ![r].clusters = @ \ {C},
                           ![r].report = Queue(@, C, "aggregate")]

NextCluster(r, C) ==
  /\ run[r].step = "cluster"
  /\ C \in run[r].clusters
  /\ Take(r, C)
  /\ UNCHANGED <<live, retired, node, map, tx>>

(* provider.Split or provider.Summarize, outside the transaction.          *)
CallProvider(r) ==
  /\ run[r].step = "ask"
  /\ \/ /\ Kind[r] = "split"
        /\ \E answer \in Answers :
             run' = [run EXCEPT ![r].step = "begin", ![r].answer = answer]
     \/ /\ Kind[r] = "aggregate"
        /\ \E valid \in BOOLEAN, e \in run[r].group :
             run' = [run EXCEPT ![r].step = "begin",
                                ![r].answer = <<[type |-> Type[e], valid |-> valid]>>]
     \/ Halt(r, Kind[r])
  /\ UNCHANGED <<live, retired, node, map, tx>>

-----------------------------------------------------------------------------
(* InTx: persistEntryNodes, persistCluster.                                *)

Begin(r) ==
  /\ Free
  /\ run[r].step = "begin"
  /\ tx' = [node |-> node, map |-> map, unmapped |-> {}]
  /\ run' = [run EXCEPT ![r].step = "write"]
  /\ UNCHANGED <<live, retired, node, map>>

Writing(r) == run[r].step = "write"

(* Drafts written so far.                                                  *)
Written == Len(tx.node) - Len(node)

(* createNodeTx of the next draft.  The faulty variant calls the Service   *)
(* method, which waits for the connection.                                 *)
CreateViaService(r) ==
  /\ Writing(r) /\ Free
  /\ Written < Len(run[r].answer)
  /\ UNCHANGED vars

CreateNode(r) ==
  /\ Writing(r)
  /\ tx.unmapped = {}
  /\ Written < Len(run[r].answer)
  /\ LET draft == run[r].answer[Written + 1]
     IN  /\ draft.valid
         /\ tx' = [tx EXCEPT !.node = Append(@, NodeFor(draft, run[r].group)),
                             !.unmapped = run[r].group]
  /\ UNCHANGED <<live, retired, node, map, run>>

(* mapEntryToNodeTx for the node just created.                             *)
MapEntryToNode(r, e) ==
  /\ Writing(r)
  /\ e \in tx.unmapped
  /\ tx' = [tx EXCEPT !.map = @ \cup {<<e, Len(tx.node)>>}, !.unmapped = @ \ {e}]
  /\ UNCHANGED <<live, retired, node, map, run>>

(* Returning an invalid draft's error rolls back; the faulty variant keeps *)
(* what was written before it.                                             *)
KeepWritten == node' = tx.node /\ map' = tx.map

Rollback == UNCHANGED <<node, map>>

Reject(r) ==
  /\ Writing(r)
  /\ tx.unmapped = {}
  /\ Written < Len(run[r].answer)
  /\ ~run[r].answer[Written + 1].valid
  /\ Rollback
  /\ tx' = Null
  /\ Halt(r, "aggregate")
  /\ UNCHANGED <<live, retired>>

(* What a commit leads to: Relate, or the next cluster.                    *)
Commit(r) ==
  /\ Writing(r)
  /\ tx.unmapped = {}
  /\ Written = Len(run[r].answer)
  /\ node' = tx.node
  /\ map' = tx.map
  /\ tx' = Null
  /\ LET made  == (Len(node) + 1) .. Len(tx.node)
         after == IF Kind[r] = "split"
                  THEN [run[r] EXCEPT !.step = "relate", !.made = @ \cup made]
                  ELSE [run[r] EXCEPT !.step = "cluster", !.made = @ \cup made,
                                      !.group = {}, !.answer = << >>,
                                      !.report = Done(@, run[r].group, 1)]
     IN  run' = [q \in Callers |->
                   IF q = r THEN after
                   ELSE IF run[q].step = "idle" THEN run[q]
                   ELSE [run[q] EXCEPT !.others = @ \cup run[r].group]]
  /\ UNCHANGED <<live, retired>>

-----------------------------------------------------------------------------
(* provider.Relate; a failure queues an entry whose nodes stand.  The      *)
(* faulty variant then forgets to report them.                             *)
RelateForgets(r, report) == Queue(report, run[r].group, "relate")

RelateFails(r, report) ==
  Queue(Done(report, run[r].group, Len(run[r].answer)), run[r].group, "relate")

Relate(r) ==
  /\ run[r].step = "relate"
  /\ \E report \in {Done(run[r].report, run[r].group, Len(run[r].answer)),
                    RelateFails(r, run[r].report)} :
       run' = [run EXCEPT ![r].step = "check", ![r].group = {}, ![r].answer = << >>,
                          ![r].report = report]
  /\ UNCHANGED <<live, retired, node, map, tx>>

(* The loop is through, and the caller has the report.                     *)
Finish(r) ==
  /\ \/ Kind[r] = "split" /\ run[r].step = "check" /\ run[r].todo = {}
     \/ run[r].step = "cluster" /\ run[r].clusters = {}
  /\ run' = [run EXCEPT ![r].step = "done"]
  /\ UNCHANGED <<live, retired, node, map, tx>>

Return(r) ==
  /\ run[r].step \in {"done", "aborted"}
  /\ run' = [run EXCEPT ![r] = Idle]
  /\ UNCHANGED <<live, retired, node, map, tx>>

(* A storage error, a failing Embed or a cancelled context: the call       *)
(* returns what it has so far, and a transaction of its is rolled back.    *)
(* The faulty variant has no deferred Rollback.                            *)
AbortOpen(r) ==
  /\ run[r].step \in {"check", "begin", "write"}
  /\ run' = [run EXCEPT ![r].step = "aborted", ![r].group = {}, ![r].answer = << >>]
  /\ UNCHANGED <<live, retired, node, map, tx>>

Abort(r) ==
  /\ run[r].step \in {"check", "begin", "write"}
  /\ tx' = IF Writing(r) THEN Null ELSE tx
  /\ run' = [run EXCEPT ![r].step = "aborted", ![r].group = {}, ![r].answer = << >>]
  /\ UNCHANGED <<live, retired, node, map>>

(* The process ends; SQLite forgets the open transaction.                  *)
Restart ==
  /\ tx' = Null
  /\ run' = [r \in Callers |-> Idle]
  /\ UNCHANGED <<live, retired, node, map>>

-----------------------------------------------------------------------------
Proceed(r) ==
  \/ \E e \in EntryIds : Check(r, e) \/ MapEntryToNode(r, e)
  \/ Embed(r)
  \/ \E C \in run[r].clusters : NextCluster(r, C)
  \/ CallProvider(r)
  \/ Begin(r) \/ CreateNode(r) \/ Reject(r) \/ Commit(r)
  \/ Relate(r) \/ Finish(r) \/ Return(r)

Next ==
  \/ \E e \in EntryIds : WriteEntry(e)
  \/ \E r \in Callers :
       \/ \E filter \in Filters[r] : Start(r, filter)
       \/ Proceed(r)
       \/ Abort(r)
  \/ Restart

Spec == Init /\ [][Next]_vars

(* A goroutine that can run runs, and database/sql hands the connection to *)
(* those who wait for it in the order they came.                           *)
FairSpec == Spec /\ \A r \in Callers : SF_vars(Proceed(r))

(* Besides, every pass over the entries is made again and again.           *)
RepeatedSpec ==
  FairSpec /\ \A r \in Callers : \A filter \in Filters[r] : SF_vars(Start(r, filter))

-----------------------------------------------------------------------------
(* Properties.                                                             *)

(* Every table and every call is of its type; the map joins rows that are  *)
(* there (nodes.go:371), and a call is in a transaction exactly when that  *)
(* transaction holds the connection.                                       *)
TypeOK ==
  /\ live \subseteq EntryIds /\ retired \subseteq EntryIds \ live
  /\ node \in Seq(Node)
  /\ map \subseteq (live \cup retired) \X (1 .. Len(node))
  /\ tx \in Transaction \cup {Null}
  /\ \A r \in Callers :
       /\ run[r].report \in Report
       /\ run[r].answer \in Seq(Draft)
       /\ run[r].listed \subseteq live \cup retired
       /\ UNION {run[r].todo, run[r].pending, run[r].group} \subseteq run[r].listed
       /\ UNION run[r].clusters \subseteq run[r].listed
  /\ \A r, q \in Callers : Writing(r) /\ Writing(q) => r = q
  /\ Free <=> \A r \in Callers : ~Writing(r)

(* The entries of a node, EntriesForNode, and the nodes of an entry.       *)
EntriesOf(n) == {p[1] : p \in {q \in map : q[2] = n}}
NodesOf(e) == {p[2] : p \in {q \in map : q[1] = e}}

(* Whatever statement of a split or a merge fails and whenever the process *)
(* ends, the graph only ever gains all the nodes one answer asks for, each *)
(* mapped to all the entries it was asked for (tx.go:39).                  *)
PersistIsAtomic ==
  [][UNCHANGED <<node, map>> \/
     \E r \in Callers :
       LET answer == run[r].answer
           ids    == (Len(node) + 1) .. (Len(node) + Len(answer))
       IN  /\ node' = node \o [i \in DOMAIN answer |-> NodeFor(answer[i], run[r].group)]
           /\ map' = map \cup (run[r].group \X ids)]_vars

(* Only calls that overlap can give an entry nodes twice: a call that maps *)
(* an entry that has nodes lost a race for it, it never started after them *)
(* (orchestrator.go:86).                                                   *)
SplitAgainOnlyTogether ==
  [][\A e \in Mapped : NodesOf(e)' # NodesOf(e) =>
       \E r \in Callers : run'[r].made # run[r].made /\ e \in run[r].others]_vars

(* Entries of a report that were queued before anything was written.       *)
Failed(report) ==
  {p[1] : p \in {q \in report.queued : q[2] # "relate"}}

(* What a finished call reports is what it did to the graph: every entry   *)
(* is in one bucket, skipped ones had nodes and queued ones got none of    *)
(* it, and the nodes it counts are the ones it left, also where Relate     *)
(* failed (orchestrator.go:12).                                            *)
ReportIsTrue ==
  \A r \in Callers : run[r].step = "done" =>
    LET report == run[r].report
        failed == Failed(report)
    IN  /\ run[r].listed = UNION {report.skipped, report.done, failed}
        /\ Cardinality(report.skipped) + Cardinality(report.done) + Cardinality(failed)
             = Cardinality(run[r].listed)
        /\ report.nodes = Cardinality(run[r].made)
        /\ report.skipped \subseteq Mapped
        /\ \A n \in run[r].made : EntriesOf(n) # {} /\ EntriesOf(n) \subseteq report.done

(* A node made of several entries is of the type of them all, and every    *)
(* node is dated by the earliest of its entries, whichever versions of     *)
(* them came since (orchestrator_aggregate.go:103, :155).                  *)
NodesFitTheirEntries ==
  \A n \in DOMAIN node :
    /\ EntriesOf(n) # {} /\ node[n].occurred = Earliest(EntriesOf(n))
    /\ \A a, b \in EntriesOf(n) : a # b => Type[a] = node[n].type

(* However calls, failures and restarts interleave on the one connection,  *)
(* no call waits for ever, for another or for itself (tx.go:43), as long   *)
(* as the provider's calls return.                                         *)
EveryRunEnds ==
  \A r \in Callers : run[r].step # "idle" ~> run[r].step = "idle"

(* A call that ends before its loop is through.                            *)
CutOff ==
  \E r \in Callers :
    run[r].step \notin {"idle", "done", "aborted"} /\ (Restart \/ Abort(r))

(* A comment that does not hold.  orchestrator.go:25: a queued entry is    *)
(* retried later.  One that halted at relate has nodes, so that later runs *)
(* skip it, even if they are not cut off over and over.                    *)
RelateIsRetried ==
  \/ []<><<CutOff>>_vars
  \/ \A e \in EntryIds :
       (e \in Mapped /\ \E r \in Callers : <<e, "relate">> \in run[r].report.queued)
         ~> (e \in retired \/ \E r \in Callers : run[r].step = "relate" /\ e \in run[r].group)

=============================================================================
