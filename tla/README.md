# Verification of workingbad

workingbad keeps a local, append-only record of work: *entries* (activities, goals,
decisions …) that are never edited in place but superseded, *edges* that attach activities
to goals, *nodes* that a graph view renders and a user edits, and a pipeline that turns git
commits into entries. One Go process serves a CLI or a web UI over one SQLite file.
This directory specifies that program in TLA+, model-checks the specifications with TLC
and proves theorems about them with TLAPS. `src/` paths below are relative to the repository.

## The system

All state is in SQLite. `repository.Service` is the only writer; the pool has one
connection (`internal/repository/db.go`, `SetMaxOpenConns(1)`), so a transaction is atomic
and isolated, and so is a single statement outside one. Handlers of the web server run
concurrently and take the connection once per Service call: everything a handler reads in
one call may be stale in the next, and every value computed before the connection is held
(notably two time stamps) may be older than what other calls committed meanwhile.

| Component | State | Operations | What makes it correct |
|---|---|---|---|
| Entries (`service.go`, `pipeline.go`, `queries.go`) | `entries`, `entries_fts` | InsertEntry, Supersede, materialized inserts, ListEntries | one live version per chain, linear history, search index in step, valid statuses |
| Goal edges (`edges.go`) | `edges` | AttachToGoal, DetachFromGoal, SetGoalStatus, GetGoalActivities | links never dangle or double, survive supersedes |
| Time travel (`queries_temporal.go`) | none of its own | ListEntriesAt, EdgesAt, GoalActivitiesAt, EntryHistory | unambiguous, agrees with the present, the past does not change |
| Source refs (`source_refs.go`) | `entry_source_refs` | insert alias, EntryBySourceRef, AllSourceRefs | a pair resolves to one entity for ever |
| Nodes (`nodes.go`, `nodes_temporal.go`) | `nodes`, `nodes_fts`, `entry_node_map` | CreateNode, SupersedeNode, MapEntryToNode, queries | as for entries, with an optimistic lock; their past is fixed |
| Node editing (`web/handlers_node_write.go`) | the forms on users' screens | open, post, re-render on error or conflict | compare-and-swap, no lost update, every request answered |
| Git pipeline (`pipeline.go`) | `raw_commits`, `raw_changes`, `segments`, `segment_raw` | UpsertRaw, UpsertSegment, LinkSegmentRaw, BatchMaterialize | one live activity per segment, stale work is redone, failures are isolated |
| Orchestration (`orchestrator*.go`, `tx.go`) | `nodes`, `entry_node_map` | Orchestrate (split), AggregateEntries | an entry is split once, all-or-nothing per entry |
| Labels (`labels.go`) | `entry_labels` | SetLabels, GetLabels, EntriesWithLabel | a label is of one version and never repeats its type |
| Entry, goal and graph pages (`web/handlers_detail.go`, `handlers_graph.go`, `handlers_mutate.go`, `handlers_create.go`) | the page on the screen | open, live or as of an instant; change a status, attach, detach, create | a page is no older than its request, its buttons fit its rows, pages that show the same past agree |
| Stored instants (`conv.go`) | none | formatRFC, the comparisons of the queries | order of texts and of instants |
| Clustering (`cluster/cluster.go`) | none | EpsilonBall | a partition of the input |
| Layout (`web/layout`) | none | lanes, positions, curves | dots keep their order and do not overlap, a lane says to which goal an activity belongs |
| Other handlers, CLI, config, ports, migrations, generated queries | – | parsing, rendering, wiring | see `PROJECT.json`, "components" |

Interactions: web handlers and CLI commands call the Service; the pipeline writes entries
through the same helpers as Supersede; orchestration writes nodes through `InTx`, calling the
AI provider outside it; edges refer to entries by `logical_id`, aliases by the id of the first
version, labels and `entry_node_map` by version ids. The hard behaviours are the
interleavings between Service calls, stale ids and stale versions held by callers, stamps
taken before the connection is, and bookkeeping kept twice (`is_current` and
`superseded_by`; `is_current` and `detached_at`; tables and search mirrors).
`PROJECT.json`, "hazards", lists them line by line with the properties that guard against them.

## Modules

### `EntryStore` (with `MCEntryStore`, `EntryStoreProofs`)

The tables `entries`, `entries_fts`, `entry_source_refs` and `edges`, and every operation that
writes them.

| Model | Code |
|---|---|
| `entry`, `fts`, `alias`, `edge` | the four tables, as functions from primary keys to rows |
| `clock` | `time.Now()`; monotone, several operations may read the same instant |
| `inserting` | `InsertEntry` calls between `stampTimes` and `BeginTx` |
| `detaching` | `DetachFromGoal` calls between their stamp and their `UPDATE` |
| `BeginInsert`, `CommitInsert`, `AbortInsert` | `InsertEntry` (validation and stamping; the transaction; its failure) |
| `MaterializeEntry` | `insertEntryInTx` as `materializeOne` calls it; no alias row |
| `Supersede` | `Service.Supersede`, and the other branch of `materializeOne` (expected version 0) |
| `SupersedeRow`, `Target`, `Replacement`, `Retired`, `Reindex` | the parts of `supersedeEntryInTxWithExpected` |
| `SetGoalStatus`, `AttachToGoal`, `BeginDetach`, `CommitDetach`, `AbortDetach` | `edges.go` |
| `EntriesAt`, `EdgesAt`, `GoalActivitiesAt` | the WHERE clauses of the time-travel queries (archived rows included, no limit) |
| `GoalActivities`, `EntryBySourceRef` | the queries on the current state |

A transaction that fails rolls back, which is the absence of a step. Callers never choose ids,
`logical_id`s or versions of new rows (no caller in the repository does), so ids are fresh.
An entry is reduced to type, status, source_ref, event time and the bookkeeping columns.
The expected version ranges over 0 (no check) and all versions a chain can have.
The time-travel queries compare instants in this module, and in `NodeEdit`, where the code compares the texts they are
stored as; see `TimeText` for what that leaves out.

### `Labels` (with `MCLabels`, `LabelsProofs`)

`entry_labels` on top of `EntryStore`: `SetLabels` is one transaction that asks for a live version, deletes
its labels and inserts the new ones; every step of the store leaves the table alone. The lists a
client may post are the constant `LabelRequests`. No other code writes the table,
so nothing carries labels over to a new version, with a consequence worth knowing: a status change of a goal, like
every supersede, starts a version without labels, and the old ones stay with a version no page of the
live state shows.

### `TimeText` (with `MCTimeText`, `TimeTextProofs`)

How instants are stored, and what a query that compares the stored texts answers. `Text` is
`time.RFC3339Nano` for a fraction of `Width` digits to the base `Base` (nine and ten in the code): trailing
zeros are dropped, and with them the dot when the fraction is zero. The part up to the seconds has a fixed
width and is compared as a number. `StoredEdgesAt` and `StoredEntriesAt` are `EdgesAt` and `ListEntriesAt` as SQLite
evaluates them. The second has a parameter for the instant at which the model's clock read 0, so that a run with few clock
readings can place them anywhere in a second.

Texts compare like instants but for one case (`OnlyCutOffsMislead`): one of the two is what remains of
the other when digits are cut off, as a whole second is of every instant within it. What the other modules prove
of time-travel queries on instants is therefore exact as long as no such pair is compared. Otherwise:

* asked for a whole second, entries, nodes and links are those of the end of that second
  (`WholeSecondShowsEntriesAtItsEnd`, `WholeSecondShowsItsEnd`; an instant with fewer digits than the stamps, of the end of its
  last unit). `PastEntriesAreFixed`, `PastLinksAreFixed` and
  `PastNodesAreFixed` then speak of seconds that are over, and the exception for late commits covers stamps up to that end;
* a stamp that happens to end in zeros counts as later than all instants it is a cut-off of, so a query within
  its last unit may miss what was just written (`AsOfNowIsCurrent`) or show a version beside one that replaced it
  (`OneVersionAsOf`: v1 at 59.5 s, v2 at 60 s, v3 at 60.3 s, asked for 60.5 s, show v1 and v3).

### `WebPages` (with `MCWebPages`, `WebPagesProofs`) and `Timeline`

One browser tab that opens pages and posts forms, while all other tabs and the batches they start write
through `EntryStore`, which the module extends.

| Model | Code |
|---|---|
| `page` | the request in progress, or the page on the screen: what each query has returned so far |
| `OpenDetail`, `ChainOfId`, `HeaderOf` | `resolveLogical` and the choice of the header |
| `ReadChain`, `LiveAtAsOf` | `EntryHistory`; `liveAtAsOf` moves the header back along the chain |
| `ReadActivities`, `ReadButtons`, `ButtonFor` | `GetGoalActivities` or `GoalActivitiesAt`; `collectAttached` over the edges of now |
| `OpenGraph`, `ReadEdges` | the two queries of `handleGraph` |
| `PostStatus`, `PostAttach`, `PostDetach`, `FinishDetach`, `NewSubmit`, `FinishNew` | the posts and the pages they redirect to |
| `Fail` | a Service call that fails: an error page |
| `OtherWrites` | everybody else |
| `Timeline` | from rows and links to lanes, dots and curves: `assignLanes`, `BuildTimeline`, `buildEdges` |

Every Service call is a step. What `resolveLogical` looks up before the first query of the page cannot change
its answer (a chain's root never moves), so it is part of that step. In one server only `handleNewSubmit`
inserts entries that are not materialized, and only `SetGoalStatus` and `materializeOne` supersede; hence
an entity keeps its type, on which the pages rely. `past`, `retired`, `linked` and `dead` are
history variables that say how things stood when the page was asked for. `Later` forgets a shown page that no form can be posted
from once something is written, which keeps the state space small and drops nothing a property
could still see. A detach of an edge that is dead already changes nothing and is left out.
The queries compare instants, as in `EntryStore`; a page that mixes a comparison in Go with one in SQL is
held against `StoredEntriesAt` (`AsOfHeaderAgrees`). The graph and the goal page both compare in SQL.

In `Timeline` an instant is a day and a position a whole pixel. The home of an activity that is attached to several
goals is the goal whose uuid sorts first, which may be any of them (`LaneChoices`). Entries of one instant may come in
any order in their lane, since `sort.Slice` is not stable (`Buckets`). An activity without an event
time is dated, in the instance, at the instant of its first summary.

### `NodeEdit` (with `MCNodeEdit`, `NodeEditProofs`) and `VersionedRegister`

Editing nodes in the web UI. A request is a small program: each of its Service calls is a
step, and any other request may run between two of them. The state holds the `nodes` table,
its search mirror, the form each browser tab shows (of any age, also behind the back button),
and the progress of each tab's request.

| Model | Code |
|---|---|
| `CreateNode` | `handleNodeCreate`, `createNodeTx` |
| `OpenForm`, `RenderForm` | `handleNodeEditForm`: `liveNodeFor` makes two calls |
| `Submit`, `ReadLive` | `handleNodeUpdate` up to the version check: `GetNode`, `GetLiveNodeByLogicalID` |
| `Save` | `SupersedeNode` and how its errors are answered |
| `RenderConflict` | `renderConflict`, which reads the live head again |
| `Fail` | any Service call failing or cancelled: an error page |

`NodesAt` is `ListNodesAt`, archived nodes included and without a limit, on instants rather than their texts (see `TimeText`). Unlike entries, nodes are stamped inside the
transaction that writes them, so that `PastNodesAreFixed` has no exception where `PastEntriesAreFixed` has one.

`basis` and `kept` are history variables: which version's text the author had in front of him,
and whether an input error re-rendered the form around that text.

`VersionedRegister` is the abstract specification: a register per node, a ticket per client for the
version it was shown, and writes that need a ticket for the current version.
`EditsAreCompareAndSwap` states that `NodeEdit` implements it under the mapping *live version of
the chain* and *hidden field of the form on the screen*.

### `Pipeline` (with `MCPipeline`, `PipelineProofs`)

From git commits to activities. The module extends `EntryStore`: the entry tables are the same
variables, and a batch writes them with the same operators as everybody else.

| Model | Code |
|---|---|
| `change`, `commit`, `segment`, `linked` | `raw_changes`, `raw_commits`, `segments`, `segment_raw` |
| `batch` | per running `BatchMaterialize`, the listed segments it still has to do |
| `UpsertRaw`, `FindOrCreateChange`, `FlipPrior` | `UpsertRaw`: known sha, rewrite of a known patch, new patch, merge commit |
| `UpsertSegment`, `LinkSegmentRaw` | the calls of the same names |
| `StartBatch` | the query at the head of `BatchMaterialize` |
| `MaterializeOne`, `WriteActivity`, `IsWindow` | `materializeOne`, one transaction that holds the connection while the provider summarizes |
| `FailOne` | `materializeOne` returning an error: rolled back, the batch goes on |
| `Interrupt` | the process or the request ends in the middle of a batch |
| `OtherStep` | every other Service call that writes the entry tables |

The order of a batch's list is left out: segments are listed by creation time, which is the
caller's to give, so any order is possible. No caller passes `UpsertSegment` a window or the state
*materialized*. `OtherStep` follows the callers too: none of them inserts an entry under the
git source, and `Supersede` is reached through `SetGoalStatus` and `materializeOne` only.
That a `source_ref` names one segment is an assumption (`SegmentAssumption`): the migration says
that it encodes the repository, and the lookup of the live activity relies on it.
`Room` bounds the model: a batch is not left without an id for what it writes.

### `Orchestrator` (with `MCOrchestrator`, `OrchestratorProofs`)

From entries to nodes, and the one connection. Here a transaction is not one step: `tx` is the
connection's open transaction with what it has written so far, every other call waits while it is
held, and each statement of a split or a merge is a step after which an error, a cancelled
context or the end of the process can come.

| Model | Code |
|---|---|
| `live`, `retired` | `entries`, reduced to which versions are current |
| `node`, `map` | `nodes` (never edited in this module), `entry_node_map` |
| `run` | per call of `Orchestrate` (kind *split*) or `AggregateEntries` (kind *aggregate*), its loop and its report |
| `Start` | the caller lists entries and passes the list, which gets old |
| `Check`, `Ask` | `entryHasNodes` and what follows from it |
| `Embed`, `Clusters`, `NextCluster`, `Take` | the rest of `AggregateEntries` up to Summarize; `EpsilonBall` by what it returns |
| `CallProvider` | Split or Summarize: an answer, valid or not, or an error |
| `Begin`, `CreateNode`, `MapEntryToNode`, `Commit` | `InTx` with `persistEntryNodes` or `persistCluster` |
| `Reject` | an invalid draft: rolled back and queued |
| `Relate` | `provider.Relate`, after the commit |
| `Abort`, `Restart` | storage errors, a failing Embed, cancellation; the end of the process |
| `WriteEntry` | every other Service call that writes entries |

A report holds the entries where the code counts them, so that `ReportIsTrue` can say which ones.
`made` and `others` are history variables: the nodes a call committed, and the entries that
other calls gave nodes while it ran. The order of a call's entries and clusters is left open. Only
tests call the two functions today; the model lets any number of goroutines call them.

### Faulty variants

Some definitions are preceded by a variant whose comment calls it faulty: what a plausible bug
would have made of the definition. No specification uses them. Putting one in the place of its
original must violate the property `PROJECT.json`, "mutants", pairs it with.

## Runs

| Run | Instance | Shows |
|---|---|---|
| `EntryStore.cfg` | 3 rows, 2 edges, 1 alias, clock 0..1, labels; three drafts, one refused | TypeOK, OneLivePerChain, HistoryIsAPath, FtsMirrorsLive, LinksResolve, OneVersionAsOf, OneLinkAsOf, AsOfNowIsCurrent, LabelsAreSecondary, PastEntriesAreFixed, PastLinksAreFixed, SourceRefIsStable, SupersedeKeepsLinks, LabelsStayWithTheirVersion |
| `NodeEdit.cfg` | 3 rows, 2 tabs, clock 0..1, fairness | TypeOK, OneHead, NoLostUpdate, ConflictIsReal, EditsAreCompareAndSwap, PastNodesAreFixed, EveryRequestIsAnswered |
| `GitPipeline.cfg` | 1 segment, 2 batches, 3 rows, a goal and an edge, a commit with a rewrite and a merge | PipelineTypeOK, EventTimeIsAuthored, OneCurrentSha, ImplementsEntryStore |
| `SegmentBatches.cfg` | 2 segments, 2 batches, 4 rows, a commit with a rewrite, fairness | OneActivityPerSegment, SegmentKeepsItsEntity, NoSegmentStarves |
| `Orchestration.cfg` | 4 entries, a split and a merge, fairness | TypeOK, ReportIsTrue, NodesFitTheirEntries, PersistIsAtomic, SplitAgainOnlyTogether, EveryRunEnds |
| `WebPages.cfg` | 3 rows, 2 edges, clock 0..1, pages live or as of 0, in a second of four fractions, the clock starting in any of them, densities of 0, 300 and 7000 pixels a day | PageTypeOK, PageIsFresh, ButtonsFit, AsOfHeaderAgrees, DotsInOrder, GraphAgreesWithGoalPage |
| `EntryAliases.cfg` | 3 rows, 2 aliases, clock 0..2, 2 overlapping inserts | violated: EveryEntryHasItsAlias |
| `ManualResubmit.cfg` | one manual draft | violated: ResubmissionsCollapse |
| `TextOrder.cfg` | 2 rows, 1 edge, clock 0..5, seconds of four fractions | violated: DetachCompareIsChronological |
| `NodeOverwrite.cfg` | 4 rows, 2 tabs | violated: NoSilentOverwrite |
| `StaleWindow.cfg` | 1 segment, 1 batch | violated: WindowIsFresh |
| `RelateRetry.cfg` | 1 entry, 1 split, fairness | violated: RelateIsRetried |

**Bounds.** Three rows and two edges allow a goal, an activity and a replacement of either, a chain of three, two
submissions of one source_ref, a supersede between the two halves of an insert, and a link that is
detached and made again. Two clock readings allow a stamp older than another row's, and event times in the past
and in the future. The theorems cover what is larger: longer chains, more calls that overlap, stamps that are older by more. For nodes, two tabs and three rows
allow a chain superseded twice while an older form is still open. For the pages the same three rows and two
edges do: a page needs a goal, an activity and a new version of either, and a write can fall between any two of its reads; the
densities are none (which means the default, and on a day's span the smallest width), one that is taken as it is and one above the
largest, and two activities of one instant must be pushed apart at each; the theorem covers all zooms. With the
clock starting in each of the four fractions of a second, 0 and 1 are an instant and a cut-off of it, two fractions of one second, or two
seconds, so the header is compared with a query that agrees and with one that does not. A second of four fractions already shows that texts and instants are ordered
differently. For the pipeline, two batches
are enough for a segment to be taken from a list that was made before another batch did it, and two
segments for one to fail while the other goes through; the clock of these runs stays below the
author times, so that an event time taken from the clock would be recognized. The
orchestration run has two similar activities, a goal similar to one of them and an activity without text:
enough for a merge of two, a chain of three that mixes types, a singleton and a blank one, a split of an entry
that is being merged, and a new version of any of them at any time; answers of no, of two and of two drafts with the second
invalid let a transaction fail after its first node. Nodes need no bound: only calls that overlap map an
entry again. `CHECK_DEADLOCK FALSE` is
set for the store, the pages, the pipeline and the orchestrator: they are passive libraries that need not be called, and ids and
clock run out in the model. Ids are
interchangeable, so runs without liveness use symmetry where the instance allows it.

**Fairness.** `FairSpec` of `NodeEdit` assumes weak fairness of the server's step
for each request that has arrived. net/http runs a goroutine per request and `database/sql`
serves waiters for the connection in order, so an enabled step is not passed over for ever.
Clients are not assumed to do anything. `FairPipelineSpec` assumes that a batch that has started goes
on (the loop has no early exit) and that batches are started again as long as segments wait: a
person presses the button, nothing in the code does. It does not assume that a summary
ever succeeds, so `NoSegmentStarves` promises no more than that a segment left undone was tried and failed, or
was cut off, infinitely often. `FairSpec` of `Orchestrator` assumes strong fairness of each call's next step: it
waits for the connection together with others, so its step is enabled only now and then, and the queue of
`database/sql` is what gives it its turn. That a call's next step includes the answer of the AI provider is an
assumption of its own: nothing in the code bounds how long a provider call takes, so `EveryRunEnds` holds if every call
of it returns, with an answer or an error. `RepeatedSpec` adds that every caller starts again and again; it is
used by `RelateRetry.cfg` alone, to show that even this does not lead to a retry.

**Disagreements found.** Six statements of the repository do not hold of the code, and the last takes a seventh with it:

* `source_refs.go:13`, "every entry has exactly one alias": materialized activities have none, and
  neither has the second entry with a given source_ref (`EntryAliases.cfg`).
* `domain/identity.go:9`, "the repository's create-dedupe check collapses re-submissions": there is no
  such check (`ManualResubmit.cfg`).
* `handlers_node_write.go:143`, "never a silent overwrite": tab A opens version 1; tab B saves version 2;
  A posts a title of blanks; the server re-renders A's text in a form for version 2; A
  corrects the title and saves; B's edit is replaced though A never saw it (`NodeOverwrite.cfg`).
  `NoLostUpdate` says this is the only way: every edit whose form was not re-rendered after
  an input error replaces the version its author saw.
* `queries/segments.sql:41`, later queries "can use the indexed column instead of re-aggregating
  raw_commits": a rewrite reported after the segment was materialized changes the author times,
  and neither the segment's state nor its cached window follows (`StaleWindow.cfg`).
* `orchestrator.go:25`, "an entry whose pipeline run halted, to be retried later": an entry that halted at
  *relate* has its nodes, and every later run skips an entry that has nodes (`RelateRetry.cfg`).

* `queries_temporal.go:197`, "detached_at is RFC3339Nano like asOf, so the string compare is chronological": it is
  not, since the fraction has no fixed width. Asked about a whole second (every date is midnight), the
  comparison answers as of the *end* of that second (`TextOrder.cfg`; the theorem `WholeSecondShowsItsEnd`).
  The same makes a page contradict the list it links from, against the comment at `handlers_detail.go:246` ("same logic as
  … ListEntriesAt"): of v1 written at 0.3 s and v2 at 5.5 s, the header as of 5 s is v1, found by comparing
  instants, and `ListEntriesAt` shows v2. `AsOfHeaderAgrees` states the two cases in which this can happen,
  and its theorem that there are no others.

Not disagreements, but limits met while modelling:

* Two calls of the orchestrator that overlap give an entry nodes twice, since
  `entryHasNodes` is asked long before the transaction. `SplitAgainOnlyTogether` says that this is the
  only way an entry is split again.
* A goal page is made of three reads. A link made between them can have a row and no button, and a link removed
  between them can have a row whose button answers *not found*; `ButtonsFit` says that nothing worse happens.
  The entry page's header may be older than the newest row of its own table.
* The header of a page as of an instant falls back to the live version when no version was there by then, and does not look
  at the event time, which the time-travel queries do; what `AsOfHeaderAgrees` says of the query is therefore about instants
  at which it shows a version.
* A label post with the body `{}`, or with none, clears the labels.
* An entry that is attached to a goal and is not an activity never shows on the goal's page.
* `BuildTimeline` clamps a density of zero, below or above its range, and lets a NaN pass. Dots that are pushed apart may run into
  the column of the goals on the right.

## Proofs

`EntryStoreProofs` proves for every set of ids, source refs and drafts and every bound
that all the safety and action properties of the two store runs hold of `Spec`. The
assumptions are those of `EntryStore`: `MaxTime` is a natural number, `Null` is none of the values it is
compared with, drafts are records of entry fields.

None of the properties is inductive. `IInv` adds what they rest on:

* `Roots`: a `logical_id` is the id of a row that is its own root; no row is stamped in the future;
* `ChainOrder`: versions of a chain are distinct, only the highest can be live, and ingest stamps
  grow with versions;
* `Successors`: `is_current` and `superseded_by` say the same, and the successor is the next version;
* `LiveHeads`: every chain has a live row;
* `Links`: edges end in roots, `is_current` and `detached_at` say the same, and of two edges with the same ends
  one was detached no later than the other was made;
* `PendingShape`: what is on its way into a table looks like a first version and carries
  a stamp that is not in the future; a pending detach is stamped after its edge was made.

The argument abstracts a step first: `StepKinds` says that each action inserts a first version,
supersedes a live row or leaves entries alone, `LinkStepKinds` that it links, unlinks or leaves
edges alone; each part of `IInv` is then preserved by the three kinds rather than by twelve actions.
`Invariance` is the conclusion, and the properties follow from it: an old
version is hidden from the ingest stamp of its successor on, which by `ChainOrder` is no later
than that of any later version (`LaterHides`), hence one version per instant; an
`InsertEntry` that commits late can only add a row that nothing supersedes yet, hence what
was shown stays shown.

`HistoryIsComplete` is the other half of "one version per instant", which the runs only bound from above: from its
first ingest on an entity *has* a version at every instant. The version that stood at *t* is the one with the largest
number among those ingested by then (`SomeVersionStood`, counted down from the live one); nothing else of its chain is
visible (`VisibleStood`), and it is, unless its event lies later (`StoodIsVisible`). `StorePromises` collects what the store
promises its users, and `PipelineKeepsPromises`, `LabelsKeepPromises` and `PagesKeepPromises` say that it keeps its
word under each of them.

`PipelineProofs` proves the safety properties of the two pipeline runs for every set of
commits, segments and batches. `PInv` is `IInv` with the pipeline's own invariants and two facts they need:
author times come from git (`CommitsKnown`), and no insert on its way carries a segment's source_ref
(`InsertsElsewhere`), without which a second activity could appear beside the one a batch found.
The argument is the same one twice. Every step of the pipeline is a step of `EntryStore` or
leaves its tables alone (`StepIsStoreStep` and its lemmas): this gives `IInv` again,
and `PipelineImplementsStore`, by which every theorem about `EntryStore` holds of the
pipeline. And to the activities of segments a step does nothing, or writes one version of one of
them (`Written`); what a version written afresh looks like is settled once, and
uniqueness, dates and the entity kept follow. The last section is about the work window. `WindowsAreUnique`: a
segment that has a current commit has one window, so the bound variables of `MaterializeOne` are a computed value and
never block it; it takes that commits are finitely many, which holds because they are ingested one by one (`HistoryStaysFinite`).
`StoredWindowsWereTrue` is what remains of the comment that `StaleWindow.cfg` refutes: an outdated window
still has author times of the segment's commits at both ends.

`LabelsProofs` and `WebPagesProofs` begin the same way, with the fact that to the tables of `EntryStore` each step is a step of
its own or none (`LabelsRestOnStore`, `PagesRestOnStore`), which brings `IInv` and all its consequences along.

For the pages two facts about the store are settled once: what a step keeps (`StoreKeeps`: logical ids,
types, stamps and ends of edges; what is retired or detached stays so), and that the versions of a chain have
one type (`TypesAgree`). Then the record of a page carries its own invariant, in parts that follow the
queries: `PageForm` (what is filled in at which step), `Fresh` (nothing retired before the request is in it),
`LinksFit` (each link of the goal has a row once the activities were read, and its button once the edges
were), `HeaderFits` and `GraphFits` (the header is still the last version written by an instant that is over,
the rows of a graph still what the query would say). A read is then an argument about one query, a write of somebody else about `StoreKeeps` and
`WrittenByFixed`. The detach button of a row is *the* link of the row because two entities have at most one live edge
(`LiveLinkUnique`); the header's walk ends at the last version written by then (`WalkFindsTheLast`) because a chain has at most one version
that is neither late nor superseded in time (`LiveAtAsOfUnique`), and the query, which compares texts, shows no other
unless it misreads a stamp (`QueryMisreadsOrShowsLast`, from `OnlyCutOffsMislead`). `DrawnByLinks` is about `Timeline` alone: a dot is drawn on a
goal, by its lane or by a curve, exactly when a link says so. `GraphDotsInOrder` is about it too. Positions in a lane are a
recursive function, which the prover must first be given (`PrefixRecursion`); then by induction along the lane each dot is pushed at most one
gap further than the one before (`PlacedStep`, `PlacedInOrder`), since wished positions grow with event times (`PixelsGrow`).
`GraphsCanBeDrawn` shows that every page has lanes and every lane an order. These theorems assume in addition that pages name instants of the model's
clock, that ids are finitely many, and that the orphan lane is not an entry.

`NodeEditProofs` proves all safety properties of the node run and the refinement, for any number of tabs, ids and
versions. `IInv` is `TypeOK`, the search mirror, and: roots and chains as above (`Roots`, `ChainOrder`,
`LiveHeads`); `FormsFit`, by which a form names one version by id and by number, and carries that version's text unless an
input error came between; `RequestsFit`, by which the version a request is about to supersede has the number
the form expects, and the live version after a conflict has a larger one; and `NoLostUpdate` itself. A step
creates a node, supersedes one on behalf of a tab, or leaves the table alone; the client whose step it is
is treated apart from the others. For the refinement, `Save` maps to a write with the ticket of the
form, `CreateNode` to a new register, the steps that put a form on the screen to a look at the register, and
the rest to stutters; what it takes is that a form's number says which version of the chain it
means, which is `ChainOrder`.

`TimeTextProofs` proves, for every base of at least two and every width of the fraction, what the comparison of stored texts
says of the instants (`TextOrder`). A text is whole seconds, then the digits of the fraction without trailing zeros, then the letter Z,
and both the dot and the digits sort before Z; so a text stands for the *end* of the unit of its last digit: if *s* has at
least as many digits as *t*, `Text(s) <= Text(t)` exactly when *s* lies before the end of that unit of *t*, otherwise when all of *s*'s unit lies
before *t* (`UpTo`). The proof finds the first digit in which two fractions differ (`LeastNat`) and compares what stands there.
`OnlyCutOffsMislead` puts the same without precisions: a comparison of texts errs exactly when one instant is a cut-off of the other.
`StoredEdgesExactly` reads off what the query answers with; `CoarseInstantShowsItsEnd` and its special case
`WholeSecondShowsItsEnd` say by how much it is off, `EvenStampsAreChronological` when it is right, which is
the case the comment at `queries_temporal.go:197` has in mind. `WholeSecondShowsEntriesAtItsEnd` is the same for entries. That a power of the base is a natural that grows by the factor of the base, which
the prover does not know of `^`, is a hypothesis of these theorems (`Decimal`); every base and width in use satisfy it.

`OrchestratorProofs` proves all safety properties of the orchestration run for every set of entries, relation of
similarity, answer of the provider and number of callers. It assumes that entries are finitely many
and that `Null` is no transaction. `IInv` has the tables and the one writer (`Tables`, `OneWriter`), what an open transaction
has written so far (`Prefix`: the first drafts of the answer, all mapped but perhaps the last one), `NodesFitTheirEntries`
itself, and for each call (`Sound`) what it holds in each step (`Shape`, `Groups`), and:

* `Buckets`: every listed entry is in exactly one place, to do or reported; at the end nothing is to do,
  which is `ReportIsTrue`;
* `Counts`: the nodes a call made, counted in its report except while `Relate` is under way;
* `Raced`: an entry that a call is about to give nodes and that has some was mapped by another call meanwhile;
  `SplitAgainOnlyTogether` reads it off at the commit.

Steps that leave the tables alone need only show that the record of the call stays `Sound`
(`QuietStep`, `ReleaseStep`). A commit is treated once for the graph (`CommittedMaps`), once for the call that makes it and
once for those beside it (`BystanderIsSound`). `ClustersPartition` is the fact about `EpsilonBall`'s result it all rests
on: clusters are disjoint, not empty, and leave nobody out, so that no entry is merged twice by one call.
`Clusters` is defined by what a cluster is not similar to; `ClustersAreSingleLinkage` proves that this is the linkage
`cluster.go` describes (two entries are together exactly when a chain of similar ones leads from one to the other), by induction on
the length of the chain, and `ClustersOnlyJoin` that a run over more entries never tears a cluster apart.

`NatLemmas` has what several of these modules need: least elements, induction on sets of naturals, a function defined
by a recursion on a prefix of the naturals, the largest value on a finite set, an enumeration of a finite set in order, and monotony of products.
The theorems of the library on these take operators as parameters; here a predicate is the *set* of the naturals that
satisfy it and a step of a recursion is a function, so the prover can instantiate them.

Only model-checked: the liveness properties `EveryRequestIsAnswered`, `NoSegmentStarves` and `EveryRunEnds` (liveness under
fairness is out of the prover's reach). Every invariant and every action property of the passing runs is proved.

## Not modelled

Text, search ranking, list limits, rendering and the parsing of forms and queries have no state that the
properties tell apart. A wall clock that steps backwards is outside the model: the code
orders versions by number, but its time-travel answers rely on a monotone clock. So are
other processes on the same file; the code assumes one. How a patch id is computed from a
diff (`adapters/git/patchid.go`) is left to git: commits carry one or none. Of the layout, axis ticks, colours and heights are left
out, and `Build`, the layered layout that only tests call. The queries over `entry_node_map`
(`NodesForEntry`, `EntriesForNode`) are called by tests only. `EpsilonBall` is modelled by what it returns, not by its
union-find. Configuration, migrations, the command line, the ports and their mocks keep no state
beside the tables, or are sequential calls of operations that are modelled; generated query code is
modelled through its callers.

## Plan

1. *(done)* `EntryStore`, its runs and proofs; `NodeEdit` against `VersionedRegister`.
2. *(done)* `NodeEdit` proofs: types, one head, no lost update, the past, and the refinement, action by action.
3. *(done)* `Pipeline` on top of `EntryStore`: its runs, proofs and the refinement.
4. *(done)* `Orchestrator` and the one connection, with its proofs. Left: `entry_node_map` against edited nodes.
5. *(done)* `TimeText`: order of instants against order of their stored texts.
6. *(done)* `Labels` on top of `EntryStore`; `WebPages` and `Timeline`, with their proofs.
7. *(done)* `DotsInOrder` proved; the order of stored texts for all instants; the past is complete; work windows are unique;
   clusters are the components of the similarity graph.
8. `EpsilonBall`'s union-find against those components; the re-keying of migration 0017.
