----------------------------- MODULE EntryStore -----------------------------
(***************************************************************************)
(* The entries, entries_fts, entry_source_refs and edges tables of the     *)
(* local database, and the Service operations that write them              *)
(* (internal/repository: service.go, edges.go, pipeline.go, source_refs.go)*)
(* with the current and the time-travel queries over them (queries.go,     *)
(* queries_temporal.go).                                                   *)
(*                                                                         *)
(* The process has one SQLite connection (db.go), so a transaction is one  *)
(* step.  What is not inside the transaction is a step of its own:         *)
(* InsertEntry and DetachFromGoal read the clock before they hold the      *)
(* connection, every other writer reads it inside its transaction.         *)
(***************************************************************************)
EXTENDS Integers, FiniteSets, Functions

CONSTANTS
  EntryIds,     \* uuids of entry rows
  EdgeIds,      \* uuids of edge rows
  SourceRefs,   \* (source, source_ref) pairs
  Drafts,       \* what callers submit, see Draft
  NewStatuses,  \* the statuses they ask SetGoalStatus for
  MaxTime,      \* the clock stops here (bound of the model)
  MaxPending,   \* so many InsertEntry, and DetachFromGoal, calls overlap (bound)
  Null          \* SQL NULL, the empty string and the zero time.Time

Types == {"goal", "activity", "research", "discuss", "decision"}
GoalStatuses == {"open", "in_progress", "done", "archived"}
Times == 0 .. MaxTime

(* The fields of domain.Entry the store tells apart.                       *)
Draft == [type     : Types,
          status   : GoalStatuses \cup {Null},
          ref      : SourceRefs \cup {Null},
          occurred : Nat \cup {Null}]

Row == [logical  : EntryIds,
        type     : Types,
        status   : GoalStatuses \cup {Null},
        ref      : SourceRefs \cup {Null},
        occurred : Nat,
        ingested : Nat,
        version  : Nat \ {0},
        current  : BOOLEAN,
        next     : EntryIds \cup {Null}]

Link == [from     : EntryIds,
         to       : EntryIds,
         ingested : Nat,
         live     : BOOLEAN,
         detached : Nat \cup {Null}]

ASSUME TimeAssumption == MaxTime \in Nat
ASSUME NullAssumption ==
  /\ Null \notin Nat
  /\ Null \notin EntryIds
  /\ Null \notin SourceRefs
  /\ Null \notin GoalStatuses
ASSUME DraftAssumption == Drafts \subseteq Draft

VARIABLES
  clock,      \* time.Now(), assumed never to step back
  entry,      \* entries: id -> row
  fts,        \* entries_fts: the ids with a search row
  alias,      \* entry_source_refs: (source, source_ref) -> anchor entry id
  edge,       \* edges with relation part_of: id -> row
  inserting,  \* InsertEntry calls that are stamped and not yet committed
  detaching   \* DetachFromGoal calls that are stamped and not yet executed

vars == <<clock, entry, fts, alias, edge, inserting, detaching>>

(* The table f with row v under key k.                                     *)
Put(f, k, v) == [x \in DOMAIN f \cup {k} |-> IF x = k THEN v ELSE f[x]]

-----------------------------------------------------------------------------
(* Queries over the current state.                                         *)

Live == {i \in DOMAIN entry : entry[i].current}

Chain(l) == {i \in DOMAIN entry : entry[i].logical = l}

LiveLinks(from, to) ==
  {e \in DOMAIN edge : edge[e].from = from /\ edge[e].to = to /\ edge[e].live}

EntryBySourceRef(r) == {i \in Live : entry[i].logical = entry[alias[r]].logical}

GoalActivities(g) ==
  {i \in Live : /\ entry[i].type = "activity"
                /\ LiveLinks(entry[i].logical, entry[g].logical) # {}}

-----------------------------------------------------------------------------
(* Time-travel queries.  Instants are compared here, in the code the texts *)
(* they are stored as: the same but for an instant and another of which the*)
(* first is what remains when digits are cut off, see TimeText.            *)

(* A faulty variant: the comparison with the successor is not strict.      *)
WasCurrentLate(i, t) ==
  /\ entry[i].ingested <= t
  /\ entry[i].occurred <= t
  /\ entry[i].next = Null \/ entry[entry[i].next].ingested >= t

WasCurrent(i, t) ==
  /\ entry[i].ingested <= t
  /\ entry[i].occurred <= t
  /\ entry[i].next = Null \/ entry[entry[i].next].ingested > t

EntriesAt(t) == {i \in DOMAIN entry : WasCurrent(i, t)}

WasLinked(e, t) ==
  /\ edge[e].ingested <= t
  /\ edge[e].detached = Null \/ edge[e].detached > t

EdgesAt(t) == {e \in DOMAIN edge : WasLinked(e, t)}

GoalActivitiesAt(g, t) ==
  {i \in EntriesAt(t) :
     /\ entry[i].type = "activity"
     /\ \E e \in EdgesAt(t) : /\ edge[e].from = entry[i].logical
                              /\ edge[e].to = entry[g].logical}

-----------------------------------------------------------------------------
(* The pieces the writers share.                                           *)

(* validateEntry: a goal has a status, anything else may be archived.  The *)
(* faulty variant lets everything pass.                                    *)
ValidAnyway(d) == d \in Draft

ValidEntry(d) ==
  IF d.type = "goal" THEN d.status \in GoalStatuses
                     ELSE d.status \in {Null, "archived"}

(* ids in use: rows of the table and rows on their way into it.            *)
Taken == DOMAIN entry \cup DOMAIN inserting

(* assignNewIDs, stampTimes and the defaults of a first version.           *)
NewRow(n, d, now) ==
  [logical  |-> n,
   type     |-> d.type,
   status   |-> d.status,
   ref      |-> d.ref,
   occurred |-> IF d.occurred = Null THEN now ELSE d.occurred,
   ingested |-> now,
   version  |-> 1,
   current  |-> TRUE,
   next     |-> Null]

(* supersedeEntryInTxWithExpected: the row that replaces old.              *)
(* A faulty variant keeps the ingest stamp of a struct copy.               *)
ReplacementKeepsStamp(old, d, now) ==
  [old EXCEPT !.type = d.type, !.status = d.status, !.ref = d.ref,
              !.occurred = IF d.occurred = Null THEN @ ELSE d.occurred,
              !.version = @ + 1]

Replacement(old, d, now) ==
  [logical  |-> old.logical,
   type     |-> d.type,
   status   |-> d.status,
   ref      |-> d.ref,
   occurred |-> IF d.occurred = Null THEN old.occurred ELSE d.occurred,
   ingested |-> now,
   version  |-> old.version + 1,
   current  |-> TRUE,
   next     |-> Null]

(* old must be the live version and, when the caller passed a version,     *)
(* the one it saw.  The faulty variant does not look at is_current.        *)
AnyTarget(old, expected) ==
  /\ old \in DOMAIN entry
  /\ expected > 0 => entry[old].version = expected

Target(old, expected) ==
  /\ old \in Live
  /\ expected > 0 => entry[old].version = expected

(* FlipEntrySuperseded; the faulty variant leaves superseded_by NULL.      *)
RetiredNoNext(row, n) == [row EXCEPT !.current = FALSE]

Retired(row, n) == [row EXCEPT !.current = FALSE, !.next = n]

(* DeleteEntryFTS and InsertEntryFTS; the faulty variant omits the delete. *)
IndexOnly(old, n) == fts' = fts \cup {n}

Reindex(old, n) == fts' = (fts \ {old}) \cup {n}

(* A faulty variant keeps the logical_id assignNewIDs gave the replacement.*)
SupersedeForks(old, expected, n, d) ==
  /\ Target(old, expected)
  /\ n \in EntryIds \ Taken
  /\ entry' = Put([entry EXCEPT ![old] = Retired(@, n)], n,
                   [Replacement(entry[old], d, clock) EXCEPT !.logical = n])
  /\ Reindex(old, n)

(* supersedeEntryInTxWithExpected: the old row is flipped and leaves the   *)
(* search index, the replacement n enters both.  Edges, aliases and labels *)
(* are not touched.                                                        *)
SupersedeRow(old, expected, n, d) ==
  /\ Target(old, expected)
  /\ n \in EntryIds \ Taken
  /\ entry' = Put([entry EXCEPT ![old] = Retired(@, n)], n,
                   Replacement(entry[old], d, clock))
  /\ Reindex(old, n)

-----------------------------------------------------------------------------
(* Operations.                                                             *)

Init ==
  /\ clock = 0
  /\ entry = << >>
  /\ fts = {}
  /\ alias = << >>
  /\ edge = << >>
  /\ inserting = << >>
  /\ detaching = {}

Tick ==
  /\ clock < MaxTime
  /\ clock' = clock + 1
  /\ UNCHANGED <<entry, fts, alias, edge, inserting, detaching>>

(* InsertEntry up to BeginTx: validated, ids and stamps assigned.          *)
BeginInsert(n, d) ==
  /\ ValidEntry(d)
  /\ n \in EntryIds \ Taken
  /\ Cardinality(DOMAIN inserting) < MaxPending
  /\ inserting' = Put(inserting, n, NewRow(n, d, clock))
  /\ UNCHANGED <<clock, entry, fts, alias, edge, detaching>>

(* insertSourceRefAliasTx; the faulty variant is INSERT OR REPLACE.        *)
ReplaceAlias(r, n) ==
  alias' = IF r = Null THEN alias ELSE Put(alias, r, n)

InsertAlias(r, n) ==
  alias' = IF r = Null \/ r \in DOMAIN alias THEN alias ELSE Put(alias, r, n)

(* InsertEntry from BeginTx to Commit.                                     *)
CommitInsert(n) ==
  /\ n \in DOMAIN inserting
  /\ entry' = Put(entry, n, inserting[n])
  /\ fts' = fts \cup {n}
  /\ InsertAlias(inserting[n].ref, n)
  /\ inserting' = Restrict(inserting, DOMAIN inserting \ {n})
  /\ UNCHANGED <<clock, edge, detaching>>

(* InsertEntry when BeginTx, a statement or Commit fails.                  *)
AbortInsert(n) ==
  /\ n \in DOMAIN inserting
  /\ inserting' = Restrict(inserting, DOMAIN inserting \ {n})
  /\ UNCHANGED <<clock, entry, fts, alias, edge, detaching>>

(* insertEntryInTx: the activity materializeOne writes, stamped inside its *)
(* transaction; it records no alias.                                       *)
MaterializeEntry(n, d) ==
  /\ d.type = "activity" /\ d.status = Null
  /\ n \in EntryIds \ Taken
  /\ entry' = Put(entry, n, NewRow(n, d, clock))
  /\ fts' = fts \cup {n}
  /\ UNCHANGED <<clock, alias, edge, inserting, detaching>>

Supersede(old, expected, n, d) ==
  /\ ValidEntry(d)
  /\ SupersedeRow(old, expected, n, d)
  /\ UNCHANGED <<clock, alias, edge, inserting, detaching>>

(* SetGoalStatus: a copy of the live goal with another status.             *)
SetGoalStatus(g, status, n) ==
  /\ status \in GoalStatuses
  /\ g \in Live
  /\ entry[g].type = "goal"
  /\ SupersedeRow(g, 0, n, [type |-> "goal", status |-> status,
                            ref |-> entry[g].ref,
                            occurred |-> entry[g].occurred])
  /\ UNCHANGED <<clock, alias, edge, inserting, detaching>>

(* Faulty variants of AttachToGoal: the edge is keyed on the version's id, *)
(* the lookup for an existing live edge is left out.                       *)
AttachByVersion(a, g, e) ==
  /\ a \in Live
  /\ g \in Live /\ entry[g].type = "goal"
  /\ e \in EdgeIds \ DOMAIN edge
  /\ LiveLinks(a, g) = {}
  /\ edge' = Put(edge, e, [from |-> a, to |-> g, ingested |-> clock,
                    live |-> TRUE, detached |-> Null])
  /\ UNCHANGED <<clock, entry, fts, alias, inserting, detaching>>

AttachAgain(a, g, e) ==
  /\ a \in Live
  /\ g \in Live /\ entry[g].type = "goal"
  /\ e \in EdgeIds \ DOMAIN edge
  /\ edge' = Put(edge, e, [from |-> entry[a].logical, to |-> entry[g].logical,
                    ingested |-> clock, live |-> TRUE, detached |-> Null])
  /\ UNCHANGED <<clock, entry, fts, alias, inserting, detaching>>

(* AttachToGoal: both ids must be live versions and g a goal; the edge is  *)
(* keyed on the two logical ids, and a live edge between them is reused.   *)
AttachToGoal(a, g, e) ==
  /\ a \in Live
  /\ g \in Live /\ entry[g].type = "goal"
  /\ LET from == entry[a].logical
         to   == entry[g].logical
     IN  \/ /\ LiveLinks(from, to) # {}
            /\ UNCHANGED edge
         \/ /\ LiveLinks(from, to) = {}
            /\ e \in EdgeIds \ DOMAIN edge
            /\ edge' = Put(edge, e, [from |-> from, to |-> to, ingested |-> clock,
                              live |-> TRUE, detached |-> Null])
  /\ UNCHANGED <<clock, entry, fts, alias, inserting, detaching>>

(* DetachFromGoal up to its UPDATE: the stamp is taken.                    *)
BeginDetach(e) ==
  /\ e \in DOMAIN edge
  /\ Cardinality(detaching) < MaxPending
  /\ detaching' = detaching \cup {[edge |-> e, at |-> clock]}
  /\ UNCHANGED <<clock, entry, fts, alias, edge, inserting>>

(* The UPDATE of DetachFromGoal: only a live edge is touched, otherwise    *)
(* the caller gets ErrNotFound.  The faulty variant drops is_current = 1.  *)
DetachAny(d) ==
  /\ d \in detaching
  /\ edge' = [edge EXCEPT ![d.edge].live = FALSE, ![d.edge].detached = d.at]
  /\ detaching' = detaching \ {d}
  /\ UNCHANGED <<clock, entry, fts, alias, inserting>>

CommitDetach(d) ==
  /\ d \in detaching
  /\ edge' = IF edge[d.edge].live
               THEN [edge EXCEPT ![d.edge].live = FALSE, ![d.edge].detached = d.at]
               ELSE edge
  /\ detaching' = detaching \ {d}
  /\ UNCHANGED <<clock, entry, fts, alias, inserting>>

(* DetachFromGoal when its UPDATE fails.                                   *)
AbortDetach(d) ==
  /\ d \in detaching
  /\ detaching' = detaching \ {d}
  /\ UNCHANGED <<clock, entry, fts, alias, edge, inserting>>

Next ==
  \/ Tick
  \/ \E n \in EntryIds, d \in Drafts :
        \/ BeginInsert(n, d)
        \/ MaterializeEntry(n, d)
  \/ \E n \in EntryIds : CommitInsert(n) \/ AbortInsert(n)
  \/ \E old, n \in EntryIds, d \in Drafts, v \in 0 .. Cardinality(EntryIds) :
        Supersede(old, v, n, d)
  \/ \E g, n \in EntryIds, status \in NewStatuses : SetGoalStatus(g, status, n)
  \/ \E a, g \in EntryIds, e \in EdgeIds : AttachToGoal(a, g, e)
  \/ \E e \in EdgeIds : BeginDetach(e)
  \/ \E d \in detaching : CommitDetach(d) \/ AbortDetach(d)

Spec == Init /\ [][Next]_vars

-----------------------------------------------------------------------------
(* What the tables must always satisfy.                                    *)

(* Every table holds rows of its type, each with a status its type allows  *)
(* whether it was inserted, materialized or superseded (service.go:139),   *)
(* and no id is used twice.                                                *)
TypeOK ==
  /\ clock \in Times
  /\ DOMAIN entry \subseteq EntryIds /\ entry \in [DOMAIN entry -> Row]
  /\ \A i \in DOMAIN entry : ValidEntry(entry[i])
  /\ fts \subseteq EntryIds
  /\ DOMAIN alias \subseteq SourceRefs /\ alias \in [DOMAIN alias -> DOMAIN entry]
  /\ DOMAIN edge \subseteq EdgeIds /\ edge \in [DOMAIN edge -> Link]
  /\ DOMAIN inserting \subseteq EntryIds \ DOMAIN entry
  /\ inserting \in [DOMAIN inserting -> Row]
  /\ \A i \in DOMAIN inserting : ValidEntry(inserting[i])
  /\ detaching \subseteq [edge : DOMAIN edge, at : Times]

(* A supersede chain never forks, never dies and never loses an update:    *)
(* of all the versions with one logical_id exactly one is live, whatever   *)
(* sequence of InsertEntry, Supersede and SetGoalStatus calls, stale ids   *)
(* and version checks led there (service.go:80, pipeline.go:492).          *)
OneLivePerChain ==
  \A i \in DOMAIN entry :
    \E j \in Live : Live \cap Chain(entry[i].logical) = {j}

(* Following superseded_by from a retired version leads to the version     *)
(* that replaced it: the next number of the same chain, which no other row *)
(* has (pipeline.go:530, EntryHistory).                                    *)
HistoryIsAPath ==
  /\ \A i \in DOMAIN entry \ Live :
       /\ entry[i].next \in Chain(entry[i].logical)
       /\ entry[entry[i].next].version = entry[i].version + 1
  /\ \A i, j \in DOMAIN entry :
       /\ entry[i].logical = entry[j].logical
       /\ entry[i].version = entry[j].version
       => i = j

(* Full-text search finds the live versions and nothing else: each writer  *)
(* keeps entries_fts in step by hand, no trigger does (pipeline.go:550).   *)
FtsMirrorsLive == fts = Live

(* An edge never dangles and never becomes ambiguous: both its ends lead   *)
(* to exactly one live entry, however often the entries behind them were   *)
(* superseded since (edges.go:184, migration 0017).                        *)
LinksResolve ==
  \A e \in DOMAIN edge : \A end \in {edge[e].from, edge[e].to} :
    \E j \in Live : Live \cap Chain(end) = {j}

(* Looking at any instant, past or present, an entity has at most one      *)
(* version and two entities at most one link (queries_temporal.go:15,      *)
(* edges.go:17): in-flight inserts and detaches commit stamps from earlier *)
(* instants and must not make two rows visible there.                      *)
OneVersionAsOf ==
  \A t \in Times : \A i, j \in EntriesAt(t) :
    entry[i].logical = entry[j].logical => i = j

OneLinkAsOf ==
  \A t \in Times : \A e, f \in EdgesAt(t) :
    edge[e].from = edge[f].from /\ edge[e].to = edge[f].to => e = f

(* The time-travel queries and the queries on is_current are two           *)
(* independent readings of the same tables (superseded_by and detached_at  *)
(* against is_current); asked for now they agree, but for entries whose    *)
(* event lies in the future (queries_temporal.go:31, :122, queries.go:157).*)
AsOfNowIsCurrent ==
  /\ EntriesAt(clock) = {i \in Live : entry[i].occurred <= clock}
  /\ EdgesAt(clock) = {e \in DOMAIN edge : edge[e].live}
  /\ \A g \in DOMAIN entry :
       GoalActivitiesAt(g, clock) = {i \in GoalActivities(g) : entry[i].occurred <= clock}

-----------------------------------------------------------------------------
(* What no step may do.                                                    *)

PastEntriesStep ==
  \A t \in Times : t < clock =>
    /\ \A i \in EntriesAt(t) :
         /\ i \in EntriesAt(t)'
         /\ [entry[i] EXCEPT !.current = TRUE, !.next = Null]
              = [entry'[i] EXCEPT !.current = TRUE, !.next = Null]
    /\ \A i \in EntriesAt(t)' \ EntriesAt(t) : i \in DOMAIN inserting

PastLinksStep ==
  \A t \in Times : t < clock =>
    /\ EdgesAt(t)' \subseteq EdgesAt(t)
    /\ \A e \in EdgesAt(t) \ EdgesAt(t)' :
         \E d \in detaching : d.edge = e /\ d.at <= t

SourceRefStep ==
  \A r \in DOMAIN alias :
    /\ r \in DOMAIN alias'
    /\ \E j \in Live' : EntryBySourceRef(r)' = {j}
    /\ entry'[alias'[r]].logical = entry[alias[r]].logical

KeepsLinksStep ==
  edge' = edge =>
    \A g \in DOMAIN entry : \A a \in GoalActivities(g) :
      \E b \in Live' : /\ entry'[b].logical = entry[a].logical
                       /\ entry'[b].type = "activity" => b \in GoalActivities(g)'

(* What ListEntriesAt answered for an instant that is over is never taken  *)
(* back or edited by a later write, and only an InsertEntry that was       *)
(* stamped by then and committed late can add to it                        *)
(* (queries_temporal.go:15, service.go:46).                                *)
PastEntriesAreFixed == [][PastEntriesStep]_vars

(* The links of an instant that is over: none is ever added, and one       *)
(* disappears only when a DetachFromGoal stamped by then executes late     *)
(* (edges.go:111).                                                         *)
PastLinksAreFixed == [][PastLinksStep]_vars

(* A (source, source_ref) pair, once it resolves to an entity, resolves to *)
(* that entity forever and to one live version of it, however the entity   *)
(* is superseded and whoever submits the same pair again                   *)
(* (source_refs.go:21, :120).                                              *)
SourceRefIsStable == [][SourceRefStep]_vars

(* No write but AttachToGoal and DetachFromGoal takes an activity off a    *)
(* goal: while the edges stay, a goal asked for by any of its version ids  *)
(* still lists the live version of every entity it listed, unless that     *)
(* stopped being an activity (edges.go:129, queries.go:150).               *)
SupersedeKeepsLinks == [][KeepsLinksStep]_vars

-----------------------------------------------------------------------------
(* Two comments of the code that do not hold.                              *)

(* source_refs.go:13: every entry that carries a source_ref has exactly    *)
(* one alias, the one for that source_ref.                                 *)
EveryEntryHasItsAlias ==
  \A i \in DOMAIN entry :
    entry[i].ref # Null =>
      {r \in DOMAIN alias : entry[alias[r]].logical = entry[i].logical} = {entry[i].ref}

(* domain/identity.go:8: submitting the same content again is collapsed    *)
(* into the entry that is there, so two live entries never share the       *)
(* content hash that is their source_ref.                                  *)
ResubmissionsCollapse ==
  \A i, j \in Live : entry[i].ref = entry[j].ref /\ entry[i].ref # Null => i = j

=============================================================================
