------------------------------ MODULE Pipeline ------------------------------
(***************************************************************************)
(* From git commits to activities (internal/repository/pipeline.go): the   *)
(* raw_changes, raw_commits, segments and segment_raw tables, and the      *)
(* batches that turn a segment into an entry of EntryStore.                *)
(*                                                                         *)
(* Ingest is three calls, UpsertRaw, UpsertSegment and LinkSegmentRaw, each*)
(* one transaction; whoever ingests makes them in any order and may repeat *)
(* them.  BatchMaterialize lists the segments that need work and then does *)
(* them one transaction at a time; other calls, other batches included, run*)
(* between two of them.                                                    *)
(***************************************************************************)
EXTENDS EntryStore

CONSTANTS
  Commits,    \* the commits git may report, see Commit
  Repos,      \* repo_id values
  Patches,    \* patch_id values
  Shas,       \* commit hashes
  ChangeIds,  \* uuids of raw_changes rows
  Segments,   \* keys of segments rows: repo_id and a source_ref of source git
  Batches     \* callers of BatchMaterialize: the CLI, requests of the web UI

Commit == [sha : Shas, repo : Repos, patch : Patches \cup {Null}, author : Nat]

(* source_ref encodes repo, branch and anchor patch (migration 0003), so it*)
(* names one segment.                                                      *)
ASSUME SegmentAssumption ==
  /\ Segments \subseteq [repo : Repos, ref : SourceRefs]
  /\ \A s, u \in Segments : s.ref = u.ref => s = u
ASSUME CommitAssumption ==
  /\ Commits \subseteq Commit
  /\ Null \notin Shas
  /\ Null \notin Patches

VARIABLES
  change,   \* raw_changes: change_id -> row
  commit,   \* raw_commits: sha -> row
  segment,  \* segments: key -> row
  linked,   \* segment_raw: pairs of a segment and a change_id
  batch     \* batch -> the listed segments it still has to do

ingest == <<change, commit, segment, linked>>
store  == <<clock, entry, fts, alias, edge, inserting, detaching>>
pipelineVars == <<store, ingest, batch>>

ChangeRow  == [repo : Repos, patch : Patches \cup {Null}]
CommitRow  == [change : ChangeIds, author : Nat, current : BOOLEAN,
               next : Shas \cup {Null}]
SegmentRow == [state : {"pending", "stale", "materialized"},
               from : Nat \cup {Null}, to : Nat \cup {Null}]

SegmentRefs == {s.ref : s \in Segments}

-----------------------------------------------------------------------------
(* Queries.                                                                *)

(* GetChangeIDByPatch; merge commits have no patch to look for.            *)
ChangesOfPatch(repo, patch) ==
  {c \in DOMAIN change : /\ patch # Null
                         /\ change[c].repo = repo
                         /\ change[c].patch = patch}

CurrentShas(c) == {h \in DOMAIN commit : commit[h].change = c /\ commit[h].current}

AuthorTimes(c) == {commit[h].author : h \in CurrentShas(c)}

(* GetCurrentChangesForSegment: the changes with a current commit, each    *)
(* with the earliest author time among those.                              *)
LiveChanges(s) ==
  {c \in DOMAIN change : <<s, c>> \in linked /\ CurrentShas(c) # {}}

StartTimes(s) ==
  {t \in UNION {AuthorTimes(c) : c \in LiveChanges(s)} :
     \E c \in LiveChanges(s) : t \in AuthorTimes(c) /\ \A u \in AuthorTimes(c) : t <= u}

(* The work window: the earliest and the latest of them.                   *)
IsWindow(s, from, to) ==
  /\ {from, to} \subseteq StartTimes(s)
  /\ \A t \in StartTimes(s) : from <= t /\ t <= to

(* GetLiveActivityForSegment.                                              *)
LiveActivities(r) == {i \in Live : entry[i].type = "activity" /\ entry[i].ref = r}

(* listSegmentsNeedingMaterialize; the faulty variant leaves stale out.    *)
ListPending == {s \in DOMAIN segment : segment[s].state = "pending"}

NeedMaterialize == {s \in DOMAIN segment : segment[s].state \in {"pending", "stale"}}

-----------------------------------------------------------------------------
(* Bound of the model: ids are left for what the batches may still write.  *)
Room ==
  Cardinality({w \in Batches \X Segments : w[2] \in batch[w[1]] \cup NeedMaterialize})
    <= Cardinality(EntryIds \ Taken)

-----------------------------------------------------------------------------
(* Ingest.                                                                 *)

PipelineInit ==
  /\ Init
  /\ change = << >>
  /\ commit = << >>
  /\ segment = << >>
  /\ linked = {}
  /\ batch = [b \in Batches |-> {}]

(* FlipPriorSHAOnChange; the faulty variant does not flip.                 *)
KeepPrior(c, sha) == commit

FlipPrior(c, sha) ==
  [h \in DOMAIN commit |->
     IF h \in CurrentShas(c) THEN Retired(commit[h], sha) ELSE commit[h]]

(* A change for the patch: the one the repo has for it, or a new row. The  *)
(* faulty variant does not write the row.                                  *)
ChangeUnwritten(k, c) ==
  /\ c \in ChangeIds
  /\ UNCHANGED change

FindOrCreateChange(k, c) ==
  LET known == ChangesOfPatch(k.repo, k.patch)
  IN  \/ c \in known /\ UNCHANGED change
      \/ /\ known = {} /\ c \in ChangeIds \ DOMAIN change
         /\ change' = Put(change, c, [repo |-> k.repo, patch |-> k.patch])

(* UpsertRaw: a known sha changes nothing; a new sha joins the change with *)
(* its patch and retires the sha that stood for it (amend, rebase), or     *)
(* starts a change of its own.                                             *)
UpsertRaw(k, c) ==
  /\ \/ k.sha \in DOMAIN commit /\ UNCHANGED <<change, commit>>
     \/ /\ k.sha \notin DOMAIN commit
        /\ FindOrCreateChange(k, c)
        /\ commit' = Put(FlipPrior(c, k.sha), k.sha,
                         [change |-> c, author |-> k.author, current |-> TRUE,
                          next |-> Null])
  /\ UNCHANGED <<store, segment, linked, batch>>

(* UpsertSegment: insert or update, both write the state the caller gives  *)
(* and, no caller passing one, an empty window.                            *)
UpsertSegment(s, state) ==
  /\ segment' = Put(segment, s, [state |-> state, from |-> Null, to |-> Null])
  /\ UNCHANGED <<store, change, commit, linked, batch>>
  /\ Room'

LinkSegmentRaw(s, c) ==
  /\ s \in DOMAIN segment
  /\ c \in DOMAIN change
  /\ linked' = linked \cup {<<s, c>>}
  /\ UNCHANGED <<store, change, commit, segment, batch>>

-----------------------------------------------------------------------------
(* BatchMaterialize.                                                       *)

(* The list a batch works through, the only read it never repeats.         *)
StartBatch(b) ==
  /\ batch[b] = {}
  /\ NeedMaterialize # {}
  /\ batch' = [batch EXCEPT ![b] = NeedMaterialize]
  /\ UNCHANGED <<store, ingest>>

Activity(s, from) ==
  [type |-> "activity", status |-> Null, ref |-> s.ref, occurred |-> from]

(* What materializeOne writes is among the drafts EntryStore is run with.  *)
ASSUME DraftsOfSegments ==
  /\ \A s \in Segments, k \in Commits : Activity(s, k.author) \in Drafts
  /\ IsFiniteSet(EntryIds)

(* Faulty variants of the write: nobody looks for an activity; the event   *)
(* time is left to stampTimes; the activity that is there is edited.       *)
WriteAnew(s, n, from) == MaterializeEntry(n, Activity(s, from))

WriteUntimed(s, n, from) ==
  LET found == LiveActivities(s.ref)
  IN  \/ found = {} /\ MaterializeEntry(n, [Activity(s, from) EXCEPT !.occurred = Null])
      \/ \E i \in found : Supersede(i, 0, n, Activity(s, from))

WriteInPlace(s, n, from) ==
  LET found == LiveActivities(s.ref)
  IN  \/ found = {} /\ MaterializeEntry(n, Activity(s, from))
      \/ \E i \in found :
           /\ entry' = [entry EXCEPT ![i].occurred = from]
           /\ UNCHANGED <<clock, fts, alias, edge, inserting, detaching>>

(* The entry of materializeOne: a first version, or the next version of the*)
(* activity that carries the segment's source_ref (LIMIT 1).               *)
WriteActivity(s, n, from) ==
  LET found == LiveActivities(s.ref)
  IN  \/ found = {} /\ MaterializeEntry(n, Activity(s, from))
      \/ \E i \in found : Supersede(i, 0, n, Activity(s, from))

(* materializeOne, one transaction with the Summarize call inside it: the  *)
(* changes and the activity are read afresh, the segment's state is not.   *)
MaterializeOne(b, s, n) ==
  /\ s \in batch[b]
  /\ \E from, to \in StartTimes(s) :
       /\ IsWindow(s, from, to)
       /\ WriteActivity(s, n, from)
       /\ segment' = [segment EXCEPT ![s] = [state |-> "materialized",
                                             from |-> from, to |-> to]]
  /\ batch' = [batch EXCEPT ![b] = @ \ {s}]
  /\ UNCHANGED <<change, commit, linked>>

(* materializeOne when the segment has no current change, Summarize refuses*)
(* or a statement fails: rolled back, the batch goes on.                   *)
FailOne(b, s) ==
  /\ s \in batch[b]
  /\ batch' = [batch EXCEPT ![b] = @ \ {s}]
  /\ UNCHANGED <<store, ingest>>

(* The process ends in the middle of a batch.                              *)
Interrupt(b) ==
  /\ batch[b] # {}
  /\ batch' = [batch EXCEPT ![b] = {}]
  /\ UNCHANGED <<store, ingest>>

-----------------------------------------------------------------------------
(* What else writes the entry tables meanwhile.  Every caller of           *)
(* InsertEntry uses a source of its own, none the git source; nothing calls*)
(* Supersede but SetGoalStatus and materializeOne.                         *)
OtherWrites ==
  \/ Tick
  \/ \E n \in EntryIds, d \in Drafts : d.ref \notin SegmentRefs /\ BeginInsert(n, d)
  \/ \E n \in EntryIds : CommitInsert(n) \/ AbortInsert(n)
  \/ \E g, n \in EntryIds, status \in NewStatuses : SetGoalStatus(g, status, n)
  \/ \E a, g \in EntryIds, e \in EdgeIds : AttachToGoal(a, g, e)
  \/ \E e \in EdgeIds : BeginDetach(e)
  \/ \E d \in detaching : CommitDetach(d) \/ AbortDetach(d)

OtherStep == OtherWrites /\ UNCHANGED <<ingest, batch>> /\ Room'

DoOne(b) == \E s \in Segments :
  FailOne(b, s) \/ \E n \in EntryIds : MaterializeOne(b, s, n)

PipelineNext ==
  \/ \E k \in Commits, c \in ChangeIds : UpsertRaw(k, c)
  \/ \E s \in Segments, state \in {"pending", "stale"} : UpsertSegment(s, state)
  \/ \E s \in Segments, c \in ChangeIds : LinkSegmentRaw(s, c)
  \/ \E b \in Batches : StartBatch(b) \/ DoOne(b) \/ Interrupt(b)
  \/ OtherStep

PipelineSpec == PipelineInit /\ [][PipelineNext]_pipelineVars

(* A batch that has started goes on to its next segment, and as long as    *)
(* there are segments to do someone presses the button again.              *)
FairPipelineSpec ==
  /\ PipelineSpec
  /\ \A b \in Batches : WF_pipelineVars(StartBatch(b)) /\ WF_pipelineVars(DoOne(b))

-----------------------------------------------------------------------------
(* Properties.                                                             *)

(* Every table holds rows of its type; a commit stands for a change that   *)
(* is there, a segment_raw row joins two rows that are there, and a batch  *)
(* works on segments that are there (pipeline.go:122, migration 0004).     *)
PipelineTypeOK ==
  /\ DOMAIN change \subseteq ChangeIds /\ change \in [DOMAIN change -> ChangeRow]
  /\ DOMAIN commit \subseteq Shas /\ commit \in [DOMAIN commit -> CommitRow]
  /\ \A h \in DOMAIN commit : commit[h].change \in DOMAIN change
  /\ DOMAIN segment \subseteq Segments /\ segment \in [DOMAIN segment -> SegmentRow]
  /\ linked \subseteq (DOMAIN segment) \X (DOMAIN change)
  /\ batch \in [Batches -> SUBSET DOMAIN segment]

(* However ingest, rewrites, failing and overlapping batches interleave, a *)
(* segment has at most one live activity (docs/grill/2026-06-07-auto-grill *)
(* .md:48), and a materialized one has exactly one, whose event time is the*)
(* start of the window stored with it (pipeline.go:410).                   *)
OneActivityPerSegment ==
  /\ \A s \in Segments : \A i, j \in LiveActivities(s.ref) : i = j
  /\ \A s \in DOMAIN segment : segment[s].state = "materialized" =>
       \E i \in LiveActivities(s.ref) : entry[i].occurred = segment[s].from

Authored(s) ==
  {commit[h].author : h \in {g \in DOMAIN commit : <<s, commit[g].change>> \in linked}}

(* No version of a segment's activity is dated by the clock: its event time*)
(* is the author time of a commit of a change linked to the segment, also  *)
(* when that commit has been rewritten since (pipeline.go:399, :575).      *)
EventTimeIsAuthored ==
  \A s \in Segments : \A i \in DOMAIN entry :
    entry[i].type = "activity" /\ entry[i].ref = s.ref => entry[i].occurred \in Authored(s)

(* Whatever order rewrites are reported in, a patch is one change of its   *)
(* repo, every change has exactly one current sha, and a retired sha leads *)
(* to another one of its change (pipeline.go:26, migration 0004).          *)
OneCurrentSha ==
  /\ \A c \in DOMAIN change : ChangesOfPatch(change[c].repo, change[c].patch) \subseteq {c}
  /\ \A c \in DOMAIN change : \E h \in CurrentShas(c) : CurrentShas(c) = {h}
  /\ \A h \in DOMAIN commit : ~commit[h].current =>
       /\ commit[h].next \in DOMAIN commit \ {h}
       /\ commit[commit[h].next].change = commit[h].change

SegmentEntityStep ==
  \A s \in Segments : \A i \in LiveActivities(s.ref) :
    \E j \in LiveActivities(s.ref)' : entry'[j].logical = entry[i].logical

(* Summarizing a segment again never replaces its activity by another      *)
(* entity and nothing takes it away: what was attached to the activity or  *)
(* quoted it by logical_id keeps meaning that segment (pipeline.go:415).   *)
SegmentKeepsItsEntity == [][SegmentEntityStep]_pipelineVars

(* To the entry tables every step of the pipeline is an operation of       *)
(* EntryStore or nothing, so all that holds there holds here.              *)
ImplementsEntryStore == Spec

(* No segment starves: if people keep asking for summaries, one that stays *)
(* unsummarized is one that was tried and failed, or was cut off by the end*)
(* of the process, again and again; the failures of other segments and what*)
(* other batches do cannot hold it up (pipeline.go:330).                   *)
NoSegmentStarves ==
  \A s \in Segments :
    \/ []<>(s \in DOMAIN segment => segment[s].state = "materialized")
    \/ []<><<\E b \in Batches : s \in batch[b] /\ (FailOne(b, s) \/ Interrupt(b))>>_pipelineVars

(* A comment that does not hold.  queries/segments.sql:42: the window on   *)
(* the segments row can be read instead of aggregating raw_commits again.  *)
WindowIsFresh ==
  \A s \in DOMAIN segment :
    segment[s].state = "materialized" => IsWindow(s, segment[s].from, segment[s].to)

=============================================================================
