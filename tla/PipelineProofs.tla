--------------------------- MODULE PipelineProofs ---------------------------
(***************************************************************************)
(* Theorems about Pipeline, for every set of commits, segments and batches.*)
(* The entry tables are those of EntryStore: once every step is shown to be*)
(* one of its operations or none, its invariant holds here too.            *)
(***************************************************************************)
EXTENDS Pipeline, EntryStoreProofs, FiniteSetTheorems

-----------------------------------------------------------------------------
(* The inductive invariant.                                                *)

(* Author times come from git.                                             *)
CommitsKnown ==
  \A h \in DOMAIN commit : \E k \in Commits : commit[h].author = k.author

(* No InsertEntry is about to add an entry under a segment's source_ref.   *)
InsertsElsewhere == \A n \in DOMAIN inserting : inserting[n].ref \notin SegmentRefs

PInv ==
  /\ IInv
  /\ PipelineTypeOK
  /\ CommitsKnown
  /\ InsertsElsewhere
  /\ OneActivityPerSegment
  /\ EventTimeIsAuthored
  /\ OneCurrentSha

-----------------------------------------------------------------------------
(* What a step does to the activities of segments: nothing, or it writes   *)
(* one version of one of them.                                             *)

Versions(r) == {i \in DOMAIN entry : entry[i].type = "activity" /\ entry[i].ref = r}

Kept(r) ==
  /\ Versions(r)' = Versions(r)
  /\ \A i \in Versions(r) : entry'[i] = entry[i]

WorkKept == \A r \in SegmentRefs : Kept(r)

Written(s, n, from) ==
  /\ \A r \in SegmentRefs \ {s.ref} : Kept(r)
  /\ n \notin DOMAIN entry
  /\ Versions(s.ref)' = Versions(s.ref) \cup {n}
  /\ entry'[n].occurred = from /\ entry'[n].current
  /\ \A i \in Versions(s.ref) : entry'[i].occurred = entry[i].occurred
  /\ \/ /\ LiveActivities(s.ref) = {}
        /\ \A i \in Versions(s.ref) : entry'[i] = entry[i]
     \/ \E i \in LiveActivities(s.ref) :
          /\ entry'[n].logical = entry[i].logical
          /\ ~entry'[i].current
          /\ \A j \in Versions(s.ref) \ {i} : entry'[j] = entry[j]

(* The live activities are the live ones among the versions.               *)
LEMMA LiveVersions ==
  \A r : LiveActivities(r) = {i \in Versions(r) : entry[i].current}
BY DEF LiveActivities, Versions, Live

(* The same after a step.                                                  *)
LEMMA LiveVersionsNext ==
  \A r : LiveActivities(r)' = {i \in Versions(r)' : entry'[i].current}
BY DEF LiveActivities, Versions, Live

(* InsertEntry, SetGoalStatus and the edge operations leave the activities *)
(* of segments alone.                                                      *)
LEMMA OthersKeepWork ==
  ASSUME TypeOK, InsertsElsewhere, OtherWrites
  PROVE  WorkKept
<1> SUFFICES ASSUME NEW r \in SegmentRefs PROVE Kept(r)
  BY DEF WorkKept
<1>1. CASE entry' = entry
  BY <1>1 DEF Kept, Versions
<1>2. ASSUME NEW n \in EntryIds, CommitInsert(n) PROVE Kept(r)
  <2>1. n \in DOMAIN inserting /\ n \notin DOMAIN entry /\ inserting[n].ref # r
    BY <1>2 DEF CommitInsert, TypeOK, InsertsElsewhere
  <2>2. /\ DOMAIN entry' = DOMAIN entry \cup {n}
        /\ entry'[n] = inserting[n]
        /\ \A i \in DOMAIN entry : entry'[i] = entry[i]
    BY <1>2, <2>1 DEF CommitInsert, Put
  <2> QED BY <2>1, <2>2 DEF Kept, Versions
<1>3. ASSUME NEW g \in EntryIds, NEW n \in EntryIds, NEW status \in NewStatuses,
             SetGoalStatus(g, status, n)
      PROVE  Kept(r)
  <2> DEFINE d == [type |-> "goal", status |-> status, ref |-> entry[g].ref,
                   occurred |-> entry[g].occurred]
             row == Replacement(entry[g], d, clock)
             flipped == [entry EXCEPT ![g] = Retired(@, n)]
  <2>1. /\ g \in DOMAIN entry /\ entry[g].type = "goal"
        /\ n \notin DOMAIN entry /\ entry' = Put(flipped, n, row)
    BY <1>3 DEF SetGoalStatus, SupersedeRow, Taken, Live
  <2>2. row.type = "goal"
    BY DEF Replacement
  <2>3. /\ DOMAIN entry' = DOMAIN entry \cup {n}
        /\ entry'[n] = row
        /\ \A i \in DOMAIN entry : entry'[i] = flipped[i]
    <3> HIDE DEF row
    <3> QED BY <2>1 DEF Put
  <2>4. entry[g] \in Row
    BY <2>1 DEF TypeOK
  <2>5. entry'[g].type = "goal"
    BY <2>1, <2>3, <2>4 DEF Retired, Row
  <2>6. \A i \in DOMAIN entry \ {g} : entry'[i] = entry[i]
    BY <2>3
  <2> HIDE DEF row, flipped
  <2> QED BY <2>1, <2>2, <2>3, <2>5, <2>6 DEF Kept, Versions
<1> QED
  BY <1>1, <1>2, <1>3
     DEF OtherWrites, Tick, BeginInsert, AbortInsert, AttachToGoal, BeginDetach,
         CommitDetach, AbortDetach

(* materializeOne writes one version of the segment's activity: the first, *)
(* or the next one of the activity that is live.                           *)
LEMMA ActivityWritten ==
  ASSUME TypeOK, NEW s \in Segments, NEW n \in EntryIds, NEW from \in Nat,
         WriteActivity(s, n, from)
  PROVE  Written(s, n, from)
<1> DEFINE d == Activity(s, from)
<1>1. from # Null
  BY NullAssumption
<1>2. CASE LiveActivities(s.ref) = {} /\ MaterializeEntry(n, d)
  <2> DEFINE row == NewRow(n, d, clock)
  <2>1. n \notin DOMAIN entry /\ entry' = Put(entry, n, row)
    BY <1>2 DEF MaterializeEntry, Taken
  <2>2. row.type = "activity" /\ row.ref = s.ref /\ row.occurred = from /\ row.current
    BY <1>1 DEF NewRow, Activity
  <2> HIDE DEF row
  <2>3. /\ DOMAIN entry' = DOMAIN entry \cup {n} /\ entry'[n] = row
        /\ \A i \in DOMAIN entry : entry'[i] = entry[i]
    BY <2>1 DEF Put
  <2> QED BY <1>2, <2>1, <2>2, <2>3 DEF Written, Kept, Versions
<1>3. ASSUME NEW i \in LiveActivities(s.ref), Supersede(i, 0, n, d)
      PROVE  Written(s, n, from)
  <2> DEFINE row == Replacement(entry[i], d, clock)
             flipped == [entry EXCEPT ![i] = Retired(@, n)]
  <2>1. /\ i \in DOMAIN entry /\ entry[i].type = "activity" /\ entry[i].ref = s.ref
        /\ n \notin DOMAIN entry /\ entry' = Put(flipped, n, row)
    BY <1>3 DEF Supersede, SupersedeRow, Taken, LiveActivities, Live
  <2>2. /\ row.type = "activity" /\ row.ref = s.ref /\ row.occurred = from
        /\ row.current /\ row.logical = entry[i].logical
    BY <1>1 DEF Replacement, Activity
  <2>3. /\ DOMAIN entry' = DOMAIN entry \cup {n}
        /\ entry'[n] = row
        /\ \A j \in DOMAIN entry : entry'[j] = flipped[j]
    <3> HIDE DEF row
    <3> QED BY <2>1 DEF Put
  <2>4. entry[i] \in Row
    BY <2>1 DEF TypeOK
  <2>5. /\ entry'[i].type = "activity" /\ entry'[i].ref = s.ref
        /\ entry'[i].occurred = entry[i].occurred /\ entry'[i].current = FALSE
    BY <2>1, <2>3, <2>4 DEF Retired, Row
  <2>6. \A j \in DOMAIN entry \ {i} : entry'[j] = entry[j]
    BY <2>3
  <2> HIDE DEF row, flipped
  <2>7. \A r \in SegmentRefs \ {s.ref} : Kept(r)
    BY <2>1, <2>2, <2>3, <2>5, <2>6 DEF Kept, Versions
  <2>8. Versions(s.ref)' = Versions(s.ref) \cup {n}
    BY <2>1, <2>2, <2>3, <2>5, <2>6 DEF Versions
  <2>9. \A j \in Versions(s.ref) : entry'[j].occurred = entry[j].occurred
    BY <2>5, <2>6 DEF Versions
  <2>10. \A j \in Versions(s.ref) \ {i} : entry'[j] = entry[j]
    BY <2>6 DEF Versions
  <2> QED BY <1>3, <2>1, <2>2, <2>3, <2>5, <2>7, <2>8, <2>9, <2>10 DEF Written
<1> QED BY <1>2, <1>3 DEF WriteActivity

-----------------------------------------------------------------------------
(* The pipeline and the store.                                             *)

(* Steps of ingest and of a batch that writes nothing leave the store.     *)
LEMMA StoreKept == UNCHANGED store => UNCHANGED vars /\ WorkKept
BY DEF store, vars, WorkKept, Kept, Versions

(* The start of a work window is the author time of a known commit.        *)
LEMMA WindowAuthored ==
  ASSUME PipelineTypeOK, NEW s, NEW from \in StartTimes(s)
  PROVE  from \in Nat /\ from \in Authored(s)
<1>1. PICK c \in LiveChanges(s) : from \in AuthorTimes(c)
  BY DEF StartTimes
<1>2. PICK h \in CurrentShas(c) : from = commit[h].author
  BY <1>1 DEF AuthorTimes
<1>3. h \in DOMAIN commit /\ commit[h].change = c /\ <<s, c>> \in linked
  BY <1>1, <1>2 DEF CurrentShas, LiveChanges
<1>4. commit[h].author \in Nat
  BY <1>3 DEF PipelineTypeOK, CommitRow
<1> QED BY <1>2, <1>3, <1>4 DEF Authored

(* materializeOne is one of EntryStore's writes.                           *)
LEMMA ActivityIsStoreStep ==
  ASSUME TypeOK, PipelineTypeOK, CommitsKnown, NEW s \in Segments, NEW n \in EntryIds,
         NEW from \in StartTimes(s), WriteActivity(s, n, from)
  PROVE  Next
<1>1. Activity(s, from) \in Drafts
  <2>1. PICK h \in DOMAIN commit : from = commit[h].author
    BY WindowAuthored DEF Authored
  <2>2. PICK k \in Commits : from = k.author
    BY <2>1 DEF CommitsKnown
  <2> QED BY <2>2, DraftsOfSegments
<1>2. 0 \in 0 .. Cardinality(EntryIds)
  BY DraftsOfSegments, FS_CardinalityType
<1>3. \A i \in LiveActivities(s.ref) : i \in EntryIds
  BY DEF LiveActivities, Live, TypeOK
<1>4. CASE MaterializeEntry(n, Activity(s, from))
  BY <1>1, <1>4 DEF Next
<1>5. ASSUME NEW i \in LiveActivities(s.ref), Supersede(i, 0, n, Activity(s, from))
      PROVE  Next
  BY <1>1, <1>2, <1>3, <1>5 DEF Next
<1> QED BY <1>4, <1>5 DEF WriteActivity

(* So every step of the pipeline is a step of the store or none.           *)
LEMMA StepIsStoreStep ==
  ASSUME TypeOK, PipelineTypeOK, CommitsKnown, [PipelineNext]_pipelineVars
  PROVE  [Next]_vars
<1>1. CASE UNCHANGED store
  BY <1>1, StoreKept
<1>2. ASSUME NEW b \in Batches, NEW s \in Segments, NEW n \in EntryIds,
             MaterializeOne(b, s, n)
      PROVE  Next
  BY <1>2, ActivityIsStoreStep DEF MaterializeOne
<1>3. CASE OtherStep
  BY <1>3 DEF OtherStep, OtherWrites, Next
<1> QED
  BY <1>1, <1>2, <1>3
     DEF PipelineNext, pipelineVars, UpsertRaw, UpsertSegment, LinkSegmentRaw,
         StartBatch, DoOne, FailOne, Interrupt

-----------------------------------------------------------------------------
(* The ingest tables.                                                      *)

(* A retired commit is still the same commit.                              *)
LEMMA RetiredCommit ==
  ASSUME NEW row \in CommitRow, NEW h
  PROVE  LET new == Retired(row, h)
         IN  /\ h \in Shas => new \in CommitRow
             /\ new.change = row.change /\ new.author = row.author
             /\ ~new.current /\ new.next = h
BY DEF Retired, CommitRow

(* What UpsertRaw does when the sha is new: the change is there afterwards,*)
(* its current sha is the new one, all else is as it was.                  *)
RawWritten(k, c) ==
  /\ DOMAIN change' = DOMAIN change \cup {c}
  /\ \A x \in DOMAIN change : change'[x] = change[x]
  /\ c \notin DOMAIN change =>
       /\ change'[c] = [repo |-> k.repo, patch |-> k.patch]
       /\ ChangesOfPatch(k.repo, k.patch) = {}
  /\ c \in DOMAIN change => c \in ChangesOfPatch(k.repo, k.patch)
  /\ DOMAIN commit' = DOMAIN commit \cup {k.sha}
  /\ commit'[k.sha] = [change |-> c, author |-> k.author, current |-> TRUE,
                       next |-> Null]
  /\ \A h \in DOMAIN commit :
       commit'[h] = IF h \in CurrentShas(c) THEN Retired(commit[h], k.sha) ELSE commit[h]

(* UpsertRaw of a new sha writes that.                                     *)
LEMMA RawStep ==
  ASSUME NEW k \in Commits, NEW c \in ChangeIds,
         k.sha \notin DOMAIN commit, UpsertRaw(k, c)
  PROVE  RawWritten(k, c)
<1> DEFINE row == [change |-> c, author |-> k.author, current |-> TRUE, next |-> Null]
           flipped == FlipPrior(c, k.sha)
           new == [repo |-> k.repo, patch |-> k.patch]
<1>1. FindOrCreateChange(k, c) /\ commit' = Put(flipped, k.sha, row)
  BY DEF UpsertRaw
<1>2. /\ DOMAIN flipped = DOMAIN commit
      /\ \A h \in DOMAIN commit :
           flipped[h] = IF h \in CurrentShas(c) THEN Retired(commit[h], k.sha)
                                                ELSE commit[h]
  BY DEF FlipPrior
<1>3. /\ DOMAIN commit' = DOMAIN commit \cup {k.sha}
      /\ commit'[k.sha] = row
      /\ \A h \in DOMAIN commit : commit'[h] = flipped[h]
  <2> HIDE DEF row, flipped
  <2> QED BY <1>1, <1>2 DEF Put
<1>4. CASE c \in ChangesOfPatch(k.repo, k.patch) /\ UNCHANGED change
  BY <1>2, <1>3, <1>4 DEF ChangesOfPatch, RawWritten
<1>5. CASE /\ ChangesOfPatch(k.repo, k.patch) = {} /\ c \in ChangeIds \ DOMAIN change
           /\ change' = Put(change, c, new)
  <2>1. /\ DOMAIN change' = DOMAIN change \cup {c} /\ change'[c] = new
        /\ \A x \in DOMAIN change : change'[x] = change[x]
    <3> HIDE DEF new
    <3> QED BY <1>5 DEF Put
  <2> QED BY <1>2, <1>3, <1>5, <2>1 DEF RawWritten
<1> QED BY <1>1, <1>4, <1>5 DEF FindOrCreateChange

(* Every step keeps the tables well-formed.                                *)
LEMMA PipelineTypes ==
  ASSUME PipelineTypeOK, [PipelineNext]_pipelineVars
  PROVE  PipelineTypeOK'
<1> USE DEF PipelineTypeOK
<1>1. CASE UNCHANGED <<ingest, batch>>
  BY <1>1 DEF ingest
<1>2. ASSUME NEW k \in Commits, NEW c \in ChangeIds, UpsertRaw(k, c)
      PROVE  PipelineTypeOK'
  <2>1. CASE k.sha \in DOMAIN commit
    BY <1>1, <1>2, <2>1 DEF UpsertRaw, ingest
  <2>2. CASE k.sha \notin DOMAIN commit
    <3>1. k \in Commit
      BY CommitAssumption
    <3>2. [repo |-> k.repo, patch |-> k.patch] \in ChangeRow
      BY <3>1 DEF Commit, ChangeRow
    <3>3. /\ DOMAIN change' = DOMAIN change \cup {c}
          /\ \A x \in DOMAIN change' : change'[x] \in ChangeRow
      <4>1. RawWritten(k, c)
        BY <1>2, <2>2, RawStep
      <4> QED BY <3>2, <4>1 DEF RawWritten
    <3>4. change' \in [DOMAIN change' -> ChangeRow]
      <4>1. change' = [x \in DOMAIN change' |-> change'[x]]
        BY <1>2, <2>2 DEF UpsertRaw, FindOrCreateChange, Put
      <4> QED BY <3>3, <4>1
    <3>5. /\ DOMAIN commit' = DOMAIN commit \cup {k.sha}
          /\ \A h \in DOMAIN commit' : /\ commit'[h] \in CommitRow
                                       /\ commit'[h].change \in DOMAIN change'
      <4>0. RawWritten(k, c)
        BY <1>2, <2>2, RawStep
      <4>1. /\ commit'[k.sha] = [change |-> c, author |-> k.author, current |-> TRUE,
                                 next |-> Null]
            /\ DOMAIN commit' = DOMAIN commit \cup {k.sha}
        BY <4>0 DEF RawWritten
      <4>2. ASSUME NEW h \in DOMAIN commit
            PROVE  commit'[h] \in CommitRow /\ commit'[h].change \in DOMAIN change'
        <5>1. commit[h] \in CommitRow /\ commit[h].change \in DOMAIN change
          OBVIOUS
        <5>2. commit'[h] = Retired(commit[h], k.sha) \/ commit'[h] = commit[h]
          BY <4>0 DEF RawWritten
        <5>3. k.sha \in Shas
          BY <3>1 DEF Commit
        <5> QED BY <3>3, <5>1, <5>2, <5>3, RetiredCommit
      <4>3. commit'[k.sha] \in CommitRow /\ commit'[k.sha].change \in DOMAIN change'
        BY <3>1, <3>3, <4>1 DEF CommitRow, Commit
      <4> QED BY <4>1, <4>2, <4>3
    <3>6. commit' \in [DOMAIN commit' -> CommitRow]
      <4>1. commit' = [x \in DOMAIN commit' |-> commit'[x]]
        BY <1>2, <2>2 DEF UpsertRaw, Put
      <4> QED BY <3>5, <4>1
    <3>7. k.sha \in Shas
      BY <3>1 DEF Commit
    <3>8. UNCHANGED <<segment, linked, batch>>
      BY <1>2 DEF UpsertRaw
    <3> QED BY <3>3, <3>4, <3>5, <3>6, <3>7, <3>8
  <2> QED BY <2>1, <2>2
<1>3. ASSUME NEW s \in Segments, NEW state \in {"pending", "stale"}, UpsertSegment(s, state)
      PROVE  PipelineTypeOK'
  <2>1. [state |-> state, from |-> Null, to |-> Null] \in SegmentRow
    BY DEF SegmentRow
  <2>2. /\ DOMAIN segment' = DOMAIN segment \cup {s}
        /\ segment' \in [DOMAIN segment' -> SegmentRow]
    BY <1>3, <2>1 DEF UpsertSegment, Put
  <2> QED BY <1>3, <2>2 DEF UpsertSegment
<1>4. ASSUME NEW s \in Segments, NEW c \in ChangeIds, LinkSegmentRaw(s, c)
      PROVE  PipelineTypeOK'
  BY <1>4 DEF LinkSegmentRaw
<1>5. ASSUME NEW b \in Batches,
             StartBatch(b) \/ Interrupt(b) \/ \E s \in Segments : FailOne(b, s)
      PROVE  PipelineTypeOK'
  BY <1>5 DEF StartBatch, Interrupt, FailOne, ingest, NeedMaterialize
<1>6. ASSUME NEW b \in Batches, NEW s \in Segments, NEW n \in EntryIds,
             MaterializeOne(b, s, n)
      PROVE  PipelineTypeOK'
  <2>1. PICK from \in StartTimes(s), to \in StartTimes(s) :
          segment' = [segment EXCEPT ![s] = [state |-> "materialized",
                                             from |-> from, to |-> to]]
    BY <1>6 DEF MaterializeOne
  <2>2. from \in Nat /\ to \in Nat
    BY WindowAuthored
  <2>3. [state |-> "materialized", from |-> from, to |-> to] \in SegmentRow
    BY <2>2 DEF SegmentRow
  <2>4. /\ DOMAIN segment' = DOMAIN segment
        /\ segment' \in [DOMAIN segment' -> SegmentRow]
    BY <2>1, <2>3
  <2> QED BY <1>6, <2>4 DEF MaterializeOne
<1> QED
  BY <1>1, <1>2, <1>3, <1>4, <1>5, <1>6
     DEF PipelineNext, pipelineVars, DoOne, OtherStep

(* Every step keeps one current sha per change, and commits git knows.     *)
LEMMA CommitsPreserved ==
  ASSUME PipelineTypeOK, OneCurrentSha, CommitsKnown, [PipelineNext]_pipelineVars
  PROVE  OneCurrentSha' /\ CommitsKnown'
<1>1. CASE UNCHANGED <<change, commit>>
  BY <1>1 DEF OneCurrentSha, CommitsKnown, ChangesOfPatch, CurrentShas
<1>2. ASSUME NEW k \in Commits, NEW c \in ChangeIds, UpsertRaw(k, c),
             k.sha \notin DOMAIN commit
      PROVE  OneCurrentSha' /\ CommitsKnown'
  <2> DEFINE row == [change |-> c, author |-> k.author, current |-> TRUE, next |-> Null]
  <2>0. RawWritten(k, c)
    BY <1>2, RawStep
  <2>1. /\ DOMAIN change' = DOMAIN change \cup {c}
        /\ \A x \in DOMAIN change : change'[x] = change[x]
        /\ c \notin DOMAIN change =>
             /\ change'[c] = [repo |-> k.repo, patch |-> k.patch]
             /\ ChangesOfPatch(k.repo, k.patch) = {}
        /\ DOMAIN commit' = DOMAIN commit \cup {k.sha}
        /\ commit'[k.sha] = row
    BY <2>0 DEF RawWritten
  <2>2. ASSUME NEW h \in DOMAIN commit
        PROVE  /\ commit'[h].change = commit[h].change
               /\ commit'[h].author = commit[h].author
               /\ h \in CurrentShas(c) => ~commit'[h].current /\ commit'[h].next = k.sha
               /\ h \notin CurrentShas(c) => commit'[h] = commit[h]
               /\ commit[h].change \in DOMAIN change
    <3>1. commit[h] \in CommitRow /\ commit[h].change \in DOMAIN change
      BY DEF PipelineTypeOK
    <3>2. commit'[h] = IF h \in CurrentShas(c) THEN Retired(commit[h], k.sha)
                                               ELSE commit[h]
      BY <2>0 DEF RawWritten
    <3> QED BY <3>1, <3>2, RetiredCommit
  <2>3. ASSUME NEW x \in DOMAIN change'
        PROVE  ChangesOfPatch(change[x].repo, change[x].patch)' \subseteq {x}
    BY <2>1 DEF OneCurrentSha, ChangesOfPatch
  <2>4. CurrentShas(c)' = {k.sha}
    BY <1>2, <2>1, <2>2 DEF CurrentShas
  <2>5. \A x \in DOMAIN change \ {c} : CurrentShas(x)' = CurrentShas(x)
    BY <1>2, <2>1, <2>2 DEF CurrentShas
  <2>6. ASSUME NEW x \in DOMAIN change'
        PROVE  \E h \in CurrentShas(x)' : CurrentShas(x)' = {h}
    BY <2>1, <2>4, <2>5 DEF OneCurrentSha
  <2>7. ASSUME NEW h \in DOMAIN commit', ~commit'[h].current
        PROVE  /\ commit'[h].next \in DOMAIN commit' \ {h}
               /\ commit'[commit'[h].next].change = commit'[h].change
    <3>1. h \in DOMAIN commit
      BY <2>1, <2>7
    <3>2. CASE h \in CurrentShas(c)
      BY <1>2, <2>1, <2>2, <3>1, <3>2 DEF CurrentShas
    <3>3. CASE h \notin CurrentShas(c)
      BY <2>1, <2>2, <2>7, <3>1, <3>3 DEF OneCurrentSha
    <3> QED BY <3>2, <3>3
  <2>8. CommitsKnown'
    BY <2>1, <2>2 DEF CommitsKnown
  <2> QED BY <2>3, <2>6, <2>7, <2>8 DEF OneCurrentSha
<1> QED
  BY <1>1, <1>2
     DEF PipelineNext, pipelineVars, ingest, UpsertRaw, UpsertSegment, LinkSegmentRaw,
         StartBatch, DoOne, FailOne, MaterializeOne, Interrupt, OtherStep

-----------------------------------------------------------------------------
(* The activities of segments.                                             *)

(* Each segment has a source_ref of its own.                               *)
LEMMA RefsApart ==
  ASSUME NEW s \in Segments, NEW u \in Segments, u # s
  PROVE  u.ref \in SegmentRefs \ {s.ref}
BY SegmentAssumption DEF SegmentRefs

(* Kept versions are live, dated and named as before.                      *)
LEMMA KeptLive ==
  ASSUME NEW r, Kept(r)
  PROVE  /\ LiveActivities(r)' = LiveActivities(r)
         /\ \A i \in LiveActivities(r) : entry'[i] = entry[i]
BY LiveVersions, LiveVersionsNext DEF Kept

(* After a write the segment has one live activity, the one written.       *)
LEMMA WrittenLive ==
  ASSUME OneActivityPerSegment, NEW s \in Segments, NEW n, NEW from, Written(s, n, from)
  PROVE  /\ LiveActivities(s.ref)' = {n}
         /\ \A i \in LiveActivities(s.ref) : entry'[n].logical = entry[i].logical
<1>1. \A i, j \in LiveActivities(s.ref) : i = j
  BY DEF OneActivityPerSegment
<1>2. LiveActivities(s.ref)' = {i \in Versions(s.ref) \cup {n} : entry'[i].current}
  BY LiveVersionsNext DEF Written
<1>3. entry'[n].current
  BY DEF Written
<1>4. CASE /\ LiveActivities(s.ref) = {}
           /\ \A i \in Versions(s.ref) : entry'[i] = entry[i]
  <2>1. \A i \in Versions(s.ref) : ~entry'[i].current
    BY <1>4, LiveVersions
  <2> QED BY <1>2, <1>3, <1>4, <2>1
<1>5. ASSUME NEW i \in LiveActivities(s.ref),
             entry'[n].logical = entry[i].logical,
             ~entry'[i].current,
             \A j \in Versions(s.ref) \ {i} : entry'[j] = entry[j]
      PROVE  /\ LiveActivities(s.ref)' = {n}
             /\ \A j \in LiveActivities(s.ref) : entry'[n].logical = entry[j].logical
  <2>1. \A j \in Versions(s.ref) : ~entry'[j].current
    BY <1>1, <1>5, LiveVersions
  <2> QED BY <1>1, <1>2, <1>3, <1>5, <2>1
<1> QED BY <1>4, <1>5 DEF Written

(* A step either leaves all activities of segments alone, and with them    *)
(* every materialized segment, or it materializes one segment.             *)
WorkStep ==
  \/ /\ WorkKept
     /\ \A s \in DOMAIN segment' : segment'[s].state = "materialized" =>
          s \in DOMAIN segment /\ segment'[s] = segment[s]
  \/ \E s \in Segments, n \in EntryIds : \E from, to \in StartTimes(s) :
       /\ Written(s, n, from)
       /\ segment' = [segment EXCEPT ![s] = [state |-> "materialized",
                                             from |-> from, to |-> to]]
       /\ UNCHANGED <<change, commit, linked>>

(* Every step of the pipeline is of that kind.                             *)
LEMMA WorkSteps ==
  ASSUME TypeOK, PipelineTypeOK, InsertsElsewhere, [PipelineNext]_pipelineVars
  PROVE  WorkStep
<1>1. CASE UNCHANGED <<store, segment>>
  BY <1>1, StoreKept DEF WorkStep
<1>2. ASSUME NEW s \in Segments, NEW state \in {"pending", "stale"}, UpsertSegment(s, state)
      PROVE  WorkStep
  <2> DEFINE row == [state |-> state, from |-> Null, to |-> Null]
  <2>1. segment' = Put(segment, s, row) /\ row.state # "materialized" /\ WorkKept
    BY <1>2, StoreKept DEF UpsertSegment
  <2> HIDE DEF row
  <2>2. /\ DOMAIN segment' = DOMAIN segment \cup {s} /\ segment'[s] = row
        /\ \A u \in DOMAIN segment \ {s} : segment'[u] = segment[u]
    BY <2>1 DEF Put
  <2> QED BY <2>1, <2>2 DEF WorkStep
<1>3. ASSUME NEW b \in Batches, NEW s \in Segments, NEW n \in EntryIds,
             MaterializeOne(b, s, n)
      PROVE  WorkStep
  <2>1. PICK from \in StartTimes(s), to \in StartTimes(s) :
          /\ WriteActivity(s, n, from)
          /\ segment' = [segment EXCEPT ![s] = [state |-> "materialized",
                                                from |-> from, to |-> to]]
    BY <1>3 DEF MaterializeOne
  <2>2. Written(s, n, from)
    BY <2>1, WindowAuthored, ActivityWritten
  <2>3. UNCHANGED <<change, commit, linked>>
    BY <1>3 DEF MaterializeOne
  <2> QED BY <2>1, <2>2, <2>3 DEF WorkStep
<1>4. CASE OtherStep
  <2>1. UNCHANGED segment
    BY <1>4 DEF OtherStep, ingest
  <2> QED BY <1>4, <2>1, OthersKeepWork DEF OtherStep, WorkStep
<1> QED
  BY <1>1, <1>2, <1>3, <1>4
     DEF PipelineNext, pipelineVars, ingest, UpsertRaw, LinkSegmentRaw,
         StartBatch, DoOne, FailOne, Interrupt

(* Every step keeps at most one live activity per segment, and one for     *)
(* every materialized segment.                                             *)
LEMMA OneActivityPreserved ==
  ASSUME PipelineTypeOK, OneActivityPerSegment, WorkStep
  PROVE  OneActivityPerSegment'
<1>1. CASE /\ WorkKept
           /\ \A s \in DOMAIN segment' : segment'[s].state = "materialized" =>
                s \in DOMAIN segment /\ segment'[s] = segment[s]
  <2>1. \A s \in Segments : /\ LiveActivities(s.ref)' = LiveActivities(s.ref)
                            /\ \A i \in LiveActivities(s.ref) : entry'[i] = entry[i]
    BY <1>1, KeptLive DEF WorkKept, SegmentRefs
  <2>2. DOMAIN segment \subseteq Segments
    BY DEF PipelineTypeOK
  <2>3. \A s \in Segments : \A i, j \in LiveActivities(s.ref)' : i = j
    BY <2>1 DEF OneActivityPerSegment
  <2>4. ASSUME NEW s \in DOMAIN segment', segment'[s].state = "materialized"
        PROVE  \E i \in LiveActivities(s.ref)' : entry'[i].occurred = segment'[s].from
    <3>1. s \in Segments /\ s \in DOMAIN segment /\ segment'[s] = segment[s]
      BY <1>1, <2>2, <2>4
    <3>2. PICK i \in LiveActivities(s.ref) : entry[i].occurred = segment[s].from
      BY <2>4, <3>1 DEF OneActivityPerSegment
    <3> QED BY <2>1, <3>1, <3>2
  <2> QED BY <2>3, <2>4 DEF OneActivityPerSegment
<1>2. ASSUME NEW s \in Segments, NEW n \in EntryIds,
             NEW from \in StartTimes(s), NEW to \in StartTimes(s),
             Written(s, n, from),
             segment' = [segment EXCEPT ![s] = [state |-> "materialized",
                                                from |-> from, to |-> to]]
      PROVE  OneActivityPerSegment'
  <2>1. LiveActivities(s.ref)' = {n} /\ entry'[n].occurred = from
    BY <1>2, WrittenLive DEF Written
  <2>2. ASSUME NEW u \in Segments, u # s
        PROVE  /\ LiveActivities(u.ref)' = LiveActivities(u.ref)
               /\ \A i \in LiveActivities(u.ref) : entry'[i] = entry[i]
    BY <1>2, <2>2, RefsApart, KeptLive DEF Written
  <2>3. \A u \in Segments : \A i, j \in LiveActivities(u.ref)' : i = j
    BY <2>1, <2>2 DEF OneActivityPerSegment
  <2>4. ASSUME NEW u \in DOMAIN segment', segment'[u].state = "materialized"
        PROVE  \E i \in LiveActivities(u.ref)' : entry'[i].occurred = segment'[u].from
    <3>1. u \in DOMAIN segment /\ u \in Segments
      BY <1>2, <2>4 DEF PipelineTypeOK
    <3>2. CASE u = s
      BY <1>2, <2>1, <3>1, <3>2
    <3>3. CASE u # s
      <4>1. segment'[u] = segment[u]
        BY <1>2, <3>1, <3>3
      <4> QED BY <2>2, <2>4, <3>1, <3>3, <4>1 DEF OneActivityPerSegment
    <3> QED BY <3>2, <3>3
  <2> QED BY <2>3, <2>4 DEF OneActivityPerSegment
<1> QED BY <1>1, <1>2 DEF WorkStep

(* The facts EventTimeIsAuthored rests on are never taken back.            *)
LEMMA IngestGrows ==
  ASSUME PipelineTypeOK, [PipelineNext]_pipelineVars
  PROVE  /\ linked \subseteq linked'
         /\ DOMAIN commit \subseteq DOMAIN commit'
         /\ \A h \in DOMAIN commit : /\ commit'[h].change = commit[h].change
                                     /\ commit'[h].author = commit[h].author
<1>1. CASE UNCHANGED <<commit, linked>>
  BY <1>1
<1>2. ASSUME NEW k \in Commits, NEW c \in ChangeIds, UpsertRaw(k, c),
             k.sha \notin DOMAIN commit
      PROVE  /\ linked \subseteq linked'
             /\ DOMAIN commit \subseteq DOMAIN commit'
             /\ \A h \in DOMAIN commit : /\ commit'[h].change = commit[h].change
                                         /\ commit'[h].author = commit[h].author
  <2>1. RawWritten(k, c) /\ linked' = linked
    BY <1>2, RawStep DEF UpsertRaw
  <2>2. \A h \in DOMAIN commit : commit[h] \in CommitRow
    BY DEF PipelineTypeOK
  <2> QED BY <2>1, <2>2, RetiredCommit DEF RawWritten
<1>3. ASSUME NEW s \in Segments, NEW c \in ChangeIds, LinkSegmentRaw(s, c)
      PROVE  linked \subseteq linked' /\ commit' = commit
  BY <1>3 DEF LinkSegmentRaw
<1> QED
  BY <1>1, <1>2, <1>3
     DEF PipelineNext, pipelineVars, ingest, UpsertRaw, UpsertSegment,
         StartBatch, DoOne, FailOne, MaterializeOne, Interrupt, OtherStep

(* Every step dates what it writes by a commit.                            *)
LEMMA EventTimePreserved ==
  ASSUME PipelineTypeOK, EventTimeIsAuthored, WorkStep, [PipelineNext]_pipelineVars
  PROVE  EventTimeIsAuthored'
<1>1. \A s : Authored(s) \subseteq Authored(s)'
  BY IngestGrows DEF Authored
<1>2. \A s \in Segments : \A i \in Versions(s.ref) : entry[i].occurred \in Authored(s)
  BY DEF EventTimeIsAuthored, Versions
<1>3. SUFFICES ASSUME NEW s \in Segments, NEW i \in Versions(s.ref)'
               PROVE  entry'[i].occurred \in Authored(s)'
  BY <1>3 DEF EventTimeIsAuthored, Versions
<1>4. CASE Kept(s.ref)
  BY <1>1, <1>2, <1>4 DEF Kept
<1>5. ASSUME NEW n, NEW from \in StartTimes(s), Written(s, n, from)
      PROVE  entry'[i].occurred \in Authored(s)'
  <2>1. CASE i = n
    <3>1. from \in Authored(s)
      BY WindowAuthored
    <3> QED BY <1>1, <1>5, <2>1, <3>1 DEF Written
  <2>2. CASE i \in Versions(s.ref)
    BY <1>1, <1>2, <1>5, <2>2 DEF Written
  <2> QED BY <1>5, <2>1, <2>2 DEF Written
<1>6. CASE WorkKept
  BY <1>4, <1>6 DEF WorkKept, SegmentRefs
<1>7. ASSUME NEW u \in Segments, NEW n \in EntryIds, NEW from \in StartTimes(u),
             Written(u, n, from), u # s
      PROVE  Kept(s.ref)
  BY <1>7, RefsApart DEF Written
<1> QED BY <1>4, <1>5, <1>6, <1>7 DEF WorkStep

-----------------------------------------------------------------------------
(* The theorems.                                                           *)

(* The empty database satisfies the invariant.                             *)
LEMMA PipelineInitial == PipelineInit => PInv
<1> SUFFICES ASSUME PipelineInit PROVE PInv
  OBVIOUS
<1>1. /\ DOMAIN change = {} /\ change \in [{} -> ChangeRow]
      /\ DOMAIN commit = {} /\ commit \in [{} -> CommitRow]
      /\ DOMAIN segment = {} /\ segment \in [{} -> SegmentRow]
      /\ linked = {} /\ batch \in [Batches -> SUBSET {}]
      /\ DOMAIN entry = {} /\ DOMAIN inserting = {}
  BY DEF PipelineInit, Init
<1>2. PipelineTypeOK /\ CommitsKnown /\ InsertsElsewhere /\ OneCurrentSha
  BY <1>1 DEF PipelineTypeOK, CommitsKnown, InsertsElsewhere, OneCurrentSha
<1>3. OneActivityPerSegment /\ EventTimeIsAuthored
  BY <1>1 DEF OneActivityPerSegment, EventTimeIsAuthored, LiveActivities, Live
<1>4. IInv
  BY InvariantInit DEF PipelineInit
<1> QED BY <1>2, <1>3, <1>4 DEF PInv

(* No step puts an InsertEntry under a segment's source_ref in flight.     *)
LEMMA InsertsStayElsewhere ==
  ASSUME TypeOK, InsertsElsewhere, [PipelineNext]_pipelineVars
  PROVE  InsertsElsewhere'
<1>1. CASE inserting' = inserting
  BY <1>1 DEF InsertsElsewhere
<1>2. ASSUME NEW n \in EntryIds, NEW d \in Drafts, d.ref \notin SegmentRefs,
             BeginInsert(n, d)
      PROVE  InsertsElsewhere'
  <2> DEFINE row == NewRow(n, d, clock)
  <2>1. inserting' = Put(inserting, n, row) /\ row.ref = d.ref
    BY <1>2 DEF BeginInsert, NewRow
  <2> HIDE DEF row
  <2> QED BY <1>2, <2>1 DEF Put, InsertsElsewhere
<1>3. ASSUME NEW n \in EntryIds, CommitInsert(n) \/ AbortInsert(n)
      PROVE  InsertsElsewhere'
  <2>1. inserting' = Restrict(inserting, DOMAIN inserting \ {n})
    BY <1>3 DEF CommitInsert, AbortInsert
  <2> QED BY <2>1 DEF Restrict, InsertsElsewhere
<1>4. CASE OtherStep
  BY <1>1, <1>2, <1>3, <1>4
     DEF OtherStep, OtherWrites, Tick, SetGoalStatus, AttachToGoal, BeginDetach,
         CommitDetach, AbortDetach
<1>5. ASSUME NEW s, NEW n, NEW from, WriteActivity(s, n, from)
      PROVE  inserting' = inserting
  BY <1>5 DEF WriteActivity, MaterializeEntry, Supersede
<1> QED
  BY <1>1, <1>4, <1>5
     DEF PipelineNext, pipelineVars, store, UpsertRaw, UpsertSegment, LinkSegmentRaw,
         StartBatch, DoOne, FailOne, MaterializeOne, Interrupt

(* Every step preserves the invariant.                                     *)
LEMMA PipelineStep == PInv /\ [PipelineNext]_pipelineVars => PInv'
<1> SUFFICES ASSUME PInv, [PipelineNext]_pipelineVars PROVE PInv'
  OBVIOUS
<1> USE DEF PInv
<1>1. TypeOK
  BY DEF IInv
<1>2. IInv'
  BY <1>1, StepIsStoreStep, InvariantNext
<1>3. PipelineTypeOK'
  BY PipelineTypes
<1>4. CommitsKnown' /\ OneCurrentSha'
  BY CommitsPreserved
<1>5. InsertsElsewhere'
  BY <1>1, InsertsStayElsewhere
<1>6. WorkStep
  BY <1>1, WorkSteps
<1>7. OneActivityPerSegment' /\ EventTimeIsAuthored'
  BY <1>6, OneActivityPreserved, EventTimePreserved
<1> QED BY <1>2, <1>3, <1>4, <1>5, <1>7

(* Every behaviour of the pipeline satisfies the invariant.                *)
THEOREM PipelineInvariance == PipelineSpec => []PInv
BY PipelineInitial, PipelineStep, PTL DEF PipelineSpec

(* The pipeline implements the store: whatever EntryStoreProofs proves of  *)
(* EntryStore holds while git work is ingested and materialized.           *)
THEOREM PipelineImplementsStore == PipelineSpec => ImplementsEntryStore
<1>1. PipelineInit => Init
  BY DEF PipelineInit
<1>2. PInv /\ [PipelineNext]_pipelineVars => [Next]_vars
  BY StepIsStoreStep DEF PInv, IInv
<1> QED BY <1>1, <1>2, PipelineInvariance, PTL DEF PipelineSpec, ImplementsEntryStore, Spec

(* pipeline.go:380, :492: while commits are ingested and batches write     *)
(* activities, chains, links and the past stay what the store promises.    *)
THEOREM PipelineKeepsPromises == PipelineSpec => StorePromises
BY PipelineImplementsStore, StoreKeepsItsPromises DEF ImplementsEntryStore

(* The ingest tables and the batches stay well-formed.                     *)
THEOREM PipelineTypeCorrect == PipelineSpec => []PipelineTypeOK
<1>1. PInv => PipelineTypeOK
  BY DEF PInv
<1> QED BY <1>1, PipelineInvariance, PTL

(* A segment never has two live activities, a materialized one has one.    *)
THEOREM OneActivity == PipelineSpec => []OneActivityPerSegment
<1>1. PInv => OneActivityPerSegment
  BY DEF PInv
<1> QED BY <1>1, PipelineInvariance, PTL

(* The activities of segments are dated by git, never by the clock.        *)
THEOREM GitDatesTheWork == PipelineSpec => []EventTimeIsAuthored
<1>1. PInv => EventTimeIsAuthored
  BY DEF PInv
<1> QED BY <1>1, PipelineInvariance, PTL

(* Rewrites leave one current sha per change.                              *)
THEOREM RewritesKeepOneSha == PipelineSpec => []OneCurrentSha
<1>1. PInv => OneCurrentSha
  BY DEF PInv
<1> QED BY <1>1, PipelineInvariance, PTL

(* A segment's activity is one entity forever.                             *)
THEOREM ActivityKeepsItsEntity == PipelineSpec => SegmentKeepsItsEntity
<1>1. ASSUME PInv, [PipelineNext]_pipelineVars
      PROVE  SegmentEntityStep
  <2> SUFFICES ASSUME NEW s \in Segments, NEW i \in LiveActivities(s.ref)
               PROVE  \E j \in LiveActivities(s.ref)' : entry'[j].logical = entry[i].logical
    BY DEF SegmentEntityStep
  <2>1. WorkStep
    BY <1>1, WorkSteps DEF PInv, IInv
  <2>2. CASE Kept(s.ref)
    BY <2>2, KeptLive
  <2>3. ASSUME NEW n, NEW from, Written(s, n, from)
        PROVE  \E j \in LiveActivities(s.ref)' : entry'[j].logical = entry[i].logical
    BY <1>1, <2>3, WrittenLive DEF PInv
  <2>4. CASE WorkKept
    BY <2>2, <2>4 DEF WorkKept, SegmentRefs
  <2>5. ASSUME NEW u \in Segments, NEW n, NEW from, Written(u, n, from), u # s
        PROVE  Kept(s.ref)
    BY <2>5, RefsApart DEF Written
  <2> QED BY <2>1, <2>2, <2>3, <2>4, <2>5 DEF WorkStep
<1>2. PInv /\ [PipelineNext]_pipelineVars => [SegmentEntityStep]_pipelineVars
  BY <1>1
<1> QED BY <1>2, PipelineInvariance, PTL DEF PipelineSpec, SegmentKeepsItsEntity

-----------------------------------------------------------------------------
(* The work window.                                                        *)

FiniteHistory == IsFiniteSet(DOMAIN commit)

(* A segment with a current commit has one work window.                    *)
OneWindow ==
  \A s \in Segments : LiveChanges(s) # {} =>
    \E from, to \in Nat :
      \A f, t \in Nat : IsWindow(s, f, t) <=> f = from /\ t = to

(* What a stored window keeps telling: commits of the segment's changes    *)
(* were written at its two ends.                                           *)
StoredWindowsAreAuthored ==
  \A s \in DOMAIN segment : segment[s].state = "materialized" =>
    /\ {segment[s].from, segment[s].to} \subseteq Authored(s)
    /\ segment[s].from <= segment[s].to

WindowInv == PInv /\ FiniteHistory /\ StoredWindowsAreAuthored

(* Commits are ingested one by one.                                        *)
LEMMA HistoryStaysFinite ==
  ASSUME FiniteHistory, [PipelineNext]_pipelineVars
  PROVE  FiniteHistory'
<1>1. CASE UNCHANGED commit
  BY <1>1 DEF FiniteHistory
<1>2. ASSUME NEW k \in Commits, NEW c \in ChangeIds, UpsertRaw(k, c),
             k.sha \notin DOMAIN commit
      PROVE  FiniteHistory'
  <2>1. DOMAIN commit' = DOMAIN commit \cup {k.sha}
    BY <1>2, RawStep DEF RawWritten
  <2> QED BY <2>1, FS_AddElement DEF FiniteHistory
<1> QED
  BY <1>1, <1>2
     DEF PipelineNext, pipelineVars, ingest, UpsertRaw, UpsertSegment, LinkSegmentRaw,
         StartBatch, DoOne, FailOne, MaterializeOne, Interrupt, OtherStep

(* A step stores the window it has just read, or leaves those there are.   *)
LEMMA WindowsPreserved ==
  ASSUME PipelineTypeOK, StoredWindowsAreAuthored, TypeOK, InsertsElsewhere,
         [PipelineNext]_pipelineVars
  PROVE  StoredWindowsAreAuthored'
<1>1. \A s : Authored(s) \subseteq Authored(s)'
  BY IngestGrows DEF Authored
<1>2. ASSUME NEW b \in Batches, NEW s \in Segments, NEW n \in EntryIds,
             MaterializeOne(b, s, n)
      PROVE  StoredWindowsAreAuthored'
  <2>1. PICK from \in StartTimes(s), to \in StartTimes(s) :
          /\ IsWindow(s, from, to)
          /\ segment' = [segment EXCEPT ![s] = [state |-> "materialized",
                                                from |-> from, to |-> to]]
    BY <1>2 DEF MaterializeOne
  <2>2. {from, to} \subseteq Authored(s) /\ from <= to
    BY <2>1, WindowAuthored DEF IsWindow
  <2>3. ASSUME NEW u \in DOMAIN segment', segment'[u].state = "materialized"
        PROVE  /\ {segment'[u].from, segment'[u].to} \subseteq Authored(u)'
               /\ segment'[u].from <= segment'[u].to
    <3>1. u \in DOMAIN segment
      BY <2>1
    <3>2. CASE u = s
      <4>1. segment'[u].from = from /\ segment'[u].to = to
        BY <2>1, <3>1, <3>2
      <4> QED BY <1>1, <2>2, <3>2, <4>1
    <3>3. CASE u # s
      <4>1. segment'[u] = segment[u]
        BY <2>1, <3>1, <3>3
      <4> QED BY <1>1, <2>3, <3>1, <4>1 DEF StoredWindowsAreAuthored
    <3> QED BY <3>2, <3>3
  <2> QED BY <2>3 DEF StoredWindowsAreAuthored
<1>3. CASE \A s \in DOMAIN segment' : segment'[s].state = "materialized" =>
             s \in DOMAIN segment /\ segment'[s] = segment[s]
  BY <1>1, <1>3 DEF StoredWindowsAreAuthored
<1>4. ASSUME NEW s \in Segments, NEW state \in {"pending", "stale"}, UpsertSegment(s, state)
      PROVE  \A u \in DOMAIN segment' : segment'[u].state = "materialized" =>
               u \in DOMAIN segment /\ segment'[u] = segment[u]
  <2> DEFINE row == [state |-> state, from |-> Null, to |-> Null]
  <2>1. segment' = Put(segment, s, row) /\ row.state # "materialized"
    BY <1>4 DEF UpsertSegment
  <2> HIDE DEF row
  <2> QED BY <2>1 DEF Put
<1>5. CASE UNCHANGED segment
  BY <1>3, <1>5
<1> QED
  BY <1>2, <1>3, <1>4, <1>5
     DEF PipelineNext, pipelineVars, ingest, UpsertRaw, LinkSegmentRaw,
         StartBatch, DoOne, FailOne, Interrupt, OtherStep

(* Every behaviour of the pipeline satisfies all three.                    *)
LEMMA WindowInvariance == PipelineSpec => []WindowInv
<1>1. PipelineInit => FiniteHistory /\ StoredWindowsAreAuthored
  <2> SUFFICES ASSUME PipelineInit PROVE FiniteHistory /\ StoredWindowsAreAuthored
    OBVIOUS
  <2>1. DOMAIN commit = {} /\ DOMAIN segment = {}
    BY DEF PipelineInit
  <2> QED BY <2>1, FS_EmptySet DEF FiniteHistory, StoredWindowsAreAuthored
<1>2. ASSUME WindowInv, [PipelineNext]_pipelineVars PROVE WindowInv'
  BY <1>2, PipelineStep, HistoryStaysFinite, WindowsPreserved DEF WindowInv, PInv, IInv
<1> QED BY <1>1, <1>2, PipelineInitial, PTL DEF PipelineSpec, WindowInv

(* The start times of a segment are finitely many.                         *)
LEMMA StartTimesFinite ==
  ASSUME PipelineTypeOK, FiniteHistory, NEW s
  PROVE  IsFiniteSet(StartTimes(s)) /\ StartTimes(s) \in SUBSET Nat
<1> DEFINE author == [h \in DOMAIN commit |-> commit[h].author]
           All == {author[h] : h \in DOMAIN commit}
<1>1. \A h \in DOMAIN commit : commit[h].author \in Nat
  BY DEF PipelineTypeOK, CommitRow
<1>2. IsFiniteSet(All)
  <2>1. author \in Surjection(DOMAIN commit, All)
    BY DEF Surjection
  <2> HIDE DEF author, All
  <2> QED BY <2>1, FS_Surjection DEF FiniteHistory
<1>3. \A c : AuthorTimes(c) \subseteq All
  BY DEF AuthorTimes, CurrentShas
<1>4. StartTimes(s) \subseteq All
  BY <1>3 DEF StartTimes
<1>5. All \subseteq Nat
  BY <1>1
<1> QED BY <1>2, <1>4, <1>5, FS_Subset

(* A change with a current commit has a start time.                        *)
LEMMA StartTimesExist ==
  ASSUME PipelineTypeOK, NEW s, LiveChanges(s) # {}
  PROVE  StartTimes(s) # {}
<1>1. PICK c \in LiveChanges(s) : CurrentShas(c) # {}
  BY DEF LiveChanges
<1>2. AuthorTimes(c) \in SUBSET Nat /\ AuthorTimes(c) # {}
  BY <1>1 DEF AuthorTimes, CurrentShas, PipelineTypeOK, CommitRow
<1>3. PICK t \in AuthorTimes(c) : \A u \in AuthorTimes(c) : t <= u
  BY <1>2, LeastNat
<1>4. t \in UNION {AuthorTimes(x) : x \in LiveChanges(s)}
  BY <1>3
<1> QED BY <1>3, <1>4 DEF StartTimes

(* pipeline.go:399: whenever materializeOne finds a current commit for the *)
(* segment there is a work window, and only one: it never fails for want of*)
(* a window, and the order in which rows come back does not matter.        *)
THEOREM WindowsAreUnique == PipelineSpec => []OneWindow
<1>1. ASSUME WindowInv PROVE OneWindow
  <2> SUFFICES ASSUME NEW s \in Segments, LiveChanges(s) # {}
               PROVE  \E from, to \in Nat :
                        \A f, t \in Nat : IsWindow(s, f, t) <=> f = from /\ t = to
    BY DEF OneWindow
  <2> DEFINE S == StartTimes(s)
             same == [t \in S |-> t]
  <2>1. IsFiniteSet(S) /\ S \in SUBSET Nat /\ S # {}
    BY <1>1, StartTimesFinite, StartTimesExist DEF WindowInv, PInv
  <2>2. PICK from \in S : \A t \in S : from <= t
    <3> HIDE DEF S
    <3> QED BY <2>1, LeastNat
  <2>3. PICK to \in S : \A t \in S : t <= to
    <3>1. same \in [S -> Int] /\ \A t \in S : same[t] = t
      BY <2>1
    <3> HIDE DEF S, same
    <3>2. PICK m \in S : \A t \in S : same[t] <= same[m]
      BY <2>1, <3>1, LargestValue
    <3> QED BY <3>1, <3>2
  <2>4. ASSUME NEW f \in Nat, NEW t \in Nat
        PROVE  IsWindow(s, f, t) <=> f = from /\ t = to
    <3>1. from \in Nat /\ to \in Nat
      BY <2>1
    <3>2. IsWindow(s, f, t) <=> {f, t} \subseteq S /\ \A x \in S : f <= x /\ x <= t
      BY DEF IsWindow
    <3> HIDE DEF S
    <3>3. IsWindow(s, f, t) => f = from /\ t = to
      BY <2>1, <2>2, <2>3, <3>1, <3>2
    <3> QED BY <2>2, <2>3, <3>2, <3>3
  <2> QED BY <2>1, <2>4
<1> QED BY <1>1, WindowInvariance, PTL

(* queries/segments.sql:42: the window on a segments row may be outdated,  *)
(* but it never is a window nobody worked in: commits linked to the segment*)
(* were authored at both its ends, whatever was rewritten since.           *)
THEOREM StoredWindowsWereTrue == PipelineSpec => []StoredWindowsAreAuthored
<1>1. WindowInv => StoredWindowsAreAuthored
  BY DEF WindowInv
<1> QED BY <1>1, WindowInvariance, PTL

=============================================================================
