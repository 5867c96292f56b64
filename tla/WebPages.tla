------------------------------ MODULE WebPages ------------------------------
(***************************************************************************)
(* Entry, goal and graph pages of the web UI (internal/web: handlers_detail*)
(* .go, handlers_graph.go, handlers_mutate.go, handlers_create.go), in the *)
(* eyes of one browser tab.  A page is put together from several Service   *)
(* calls, and EntryStore's other callers write between any two of them;    *)
(* a form posted from a page names the versions the page was made of.      *)
(* Queries compare instants, as in EntryStore; only where a page decides in*)
(* Go what a query decides in SQL do the stored texts come in.             *)
(***************************************************************************)
EXTENDS TimeText

CONSTANTS
  Instants,   \* what the at parameter of a page may name
  Epochs,     \* the instants at which the clock may have read 0
  Densities,  \* the px-per-day values a client may ask for
  Orphan      \* the lane without a goal

ASSUME WebAssumption ==
  /\ Instants \subseteq Times
  /\ Epochs \subseteq Nat
  /\ Densities \subseteq Int
  /\ IsFiniteSet(EntryIds)
  /\ Orphan \notin EntryIds

T == INSTANCE Timeline

VARIABLE page  \* the request in progress, or the page on the screen, see Page

webVars == <<vars, page>>

EdgesNow == {e \in DOMAIN edge : edge[e].live}

(* button: of each row of a goal page, the edge its detach button names;   *)
(* read: when the last query of a live page ran.  The last four fields are *)
(* history variables, set by the first query: whether the instant was past,*)
(* and, for a live page, the entries that were retired by then, the edges  *)
(* that were live and those that were dead.                                *)
Page == [kind    : {"entry", "goal", "graph"},
         id      : EntryIds \cup {Null},
         at      : Instants \cup {Null},
         step    : {"idle", "chain", "activities", "buttons", "edges", "shown",
                    "creating", "detaching", "redirected"},
         focal   : EntryIds \cup {Null},
         rows    : SUBSET EntryIds,
         links   : SUBSET (EntryIds \X EntryIds),
         button  : [EntryIds -> EdgeIds \cup {Null}],
         read    : Times \cup {Null},
         past    : BOOLEAN,
         retired : SUBSET EntryIds,
         linked  : SUBSET EdgeIds,
         dead    : SUBSET EdgeIds]

(* Nothing on the screen that the next step would use: an error, a form.   *)
Blank == [kind |-> "graph", id |-> Null, at |-> Null, step |-> "idle",
          focal |-> Null, rows |-> {}, links |-> {}, read |-> Null,
          button |-> [i \in EntryIds |-> Null],
          past |-> FALSE, retired |-> {}, linked |-> {}, dead |-> {}]

Opened(kind, id, at) ==
  [Blank EXCEPT
     !.kind    = kind,
     !.id      = id,
     !.at      = at,
     !.past    = at # Null /\ at < clock,
     !.retired = IF at = Null THEN DOMAIN entry \ Live ELSE {},
     !.linked  = IF at = Null /\ kind = "goal" THEN EdgesNow ELSE {},
     !.dead    = IF at = Null /\ kind = "goal" THEN DOMAIN edge \ EdgesNow ELSE {}]

MayRequest(kind, id, at) ==
  \/ page.step \in {"idle", "shown"}
  \/ page.step = "redirected" /\ page.kind = kind /\ page.id = id /\ at = Null

-----------------------------------------------------------------------------
(* Reading a page.                                                         *)

(* resolveLogical: the id is taken for a logical_id, then for the id of a  *)
(* version.  A faulty variant takes the whole list for the second attempt. *)
ChainByScan(id) == IF Chain(id) # {} THEN Chain(id) ELSE DOMAIN entry

ChainOfId(id) ==
  IF Chain(id) # {} THEN Chain(id)
  ELSE IF id \in DOMAIN entry THEN Chain(entry[id].logical)
  ELSE {}

Newest(history) ==
  {i \in history : \A j \in history : entry[j].version <= entry[i].version}

LiveOf(history) ==
  IF history \cap Live # {} THEN history \cap Live ELSE Newest(history)

(* A faulty variant shows the version that was asked for.                  *)
HeaderAsAsked(id) == ChainOfId(id) \cap {id}

HeaderOf(id) == LiveOf(ChainOfId(id))

(* A request for an entry or a goal page, up to its first query that can   *)
(* change its answer: what resolveLogical looks up before is settled.      *)
OpenDetail(kind, id, at) ==
  /\ MayRequest(kind, id, at)
  /\ \/ /\ ChainOfId(id) = {}
        /\ page' = Blank
     \/ \E i \in HeaderOf(id) :
          page' = IF kind = "goal" /\ entry[i].type # "goal" THEN Blank
                  ELSE [Opened(kind, id, at) EXCEPT
                          !.focal = i,
                          !.step = IF kind = "goal" /\ at = Null
                                     THEN "activities" ELSE "chain"]
  /\ UNCHANGED vars

(* liveAtAsOf, over a chain that was loaded before; a faulty variant takes *)
(* the time of the event for the time the version was written.             *)
LiveAtAsOfByEvent(history, t) ==
  {i \in history : /\ entry[i].occurred <= t
                   /\ \/ entry[i].next = Null
                      \/ entry[i].next \in history /\ entry[entry[i].next].ingested > t}

LiveAtAsOf(history, t) ==
  {i \in history : /\ entry[i].ingested <= t
                   /\ \/ entry[i].next = Null
                      \/ entry[i].next \in history /\ entry[entry[i].next].ingested > t}

(* The chain the entry page lists; time travel moves the header along it.  *)
ReadChain ==
  /\ page.step = "chain"
  /\ LET history == Chain(entry[page.focal].logical)
         then    == IF page.at = Null THEN {} ELSE LiveAtAsOf(history, page.at)
     IN  \E i \in IF then = {} THEN {page.focal} ELSE Newest(then) :
           page' = [page EXCEPT
             !.focal = IF page.kind = "goal" /\ entry[i].type # "goal" THEN @ ELSE i,
             !.rows  = IF page.kind = "entry" THEN history ELSE {},
             !.step  = IF page.kind = "entry" THEN "shown" ELSE "activities"]
  /\ UNCHANGED vars

ReadActivities ==
  /\ page.step = "activities"
  /\ page' = [page EXCEPT
       !.rows = IF page.at = Null THEN GoalActivities(page.focal)
                                  ELSE GoalActivitiesAt(page.focal, page.at),
       !.read = IF page.at = Null THEN clock ELSE Null,
       !.step = IF page.at = Null THEN "buttons" ELSE "shown"]
  /\ UNCHANGED vars

(* collectAttached: the live ones among the edges of now, by the logical_id*)
(* they start from.  now was read before the query held the connection.    *)
(* The faulty variant looks the version's id up.                           *)
ButtonByVersion(edges, i) ==
  {e \in edges : edge[e].from = i /\ edge[e].to = entry[page.focal].logical}

ButtonFor(edges, i) ==
  {e \in edges : /\ edge[e].from = entry[i].logical
                 /\ edge[e].to = entry[page.focal].logical}

ReadButtons ==
  /\ page.step = "buttons"
  /\ \E now \in page.read .. clock :
       LET edges == {e \in EdgesAt(now) : edge[e].live}
       IN  page' = [page EXCEPT
             !.button = [i \in EntryIds |->
                IF i \notin page.rows \/ ButtonFor(edges, i) = {} THEN Null
                ELSE CHOOSE e \in ButtonFor(edges, i) : TRUE],
             !.read = Null,
             !.step = "shown"]
  /\ UNCHANGED vars

(* ListEntries and ListEntriesAt as handleGraph calls them.                *)
ListedEntries(at) ==
  {i \in IF at = Null THEN Live ELSE EntriesAt(at) : entry[i].status # "archived"}

OpenGraph(at) ==
  /\ MayRequest("graph", Null, at)
  /\ page' = [Opened("graph", Null, at) EXCEPT
                !.rows = ListedEntries(at),
                !.read = IF at = Null THEN clock ELSE Null,
                !.step = "edges"]
  /\ UNCHANGED vars

ReadEdges ==
  /\ page.step = "edges"
  /\ \E t \in IF page.at = Null THEN page.read .. clock ELSE {page.at} :
       page' = [page EXCEPT
         !.links = {<<edge[e].from, edge[e].to>> : e \in EdgesAt(t)},
         !.read = Null,
         !.step = "shown"]
  /\ UNCHANGED vars

(* A Service call that returns an error.                                   *)
Fail ==
  /\ page.step \in {"chain", "activities", "buttons", "edges"}
  /\ page' = Blank
  /\ UNCHANGED vars

Read ==
  \/ \E kind \in {"entry", "goal"}, id \in EntryIds, at \in Instants \cup {Null} :
        OpenDetail(kind, id, at)
  \/ \E at \in Instants \cup {Null} : OpenGraph(at)
  \/ ReadChain \/ ReadActivities \/ ReadButtons \/ ReadEdges \/ Fail

-----------------------------------------------------------------------------
(* Posting a form.  Each handler makes one write and redirects to a page.  *)

Redirect(kind, id) ==
  page' = [Blank EXCEPT !.step = "redirected", !.kind = kind, !.id = id]

OnGoalPage == page.step = "shown" /\ page.kind = "goal" /\ page.at = Null

(* handleGoalStatus; refused when the version on the page was superseded.  *)
PostStatus(status, n) ==
  /\ OnGoalPage
  /\ \/ /\ SetGoalStatus(page.focal, status, n)
        /\ Redirect("goal", n)
     \/ /\ page.focal \notin Live \/ status \notin GoalStatuses
        /\ page' = Blank
        /\ UNCHANGED vars

(* handleGoalAttach.                                                       *)
PostAttach(a, e) ==
  /\ OnGoalPage
  /\ \/ /\ AttachToGoal(a, page.focal, e)
        /\ Redirect("goal", page.focal)
     \/ /\ ~({a, page.focal} \subseteq Live)
        /\ page' = Blank
        /\ UNCHANGED vars

(* handleEdgeDetach, with the button of row i: the stamp, then the UPDATE, *)
(* which finds nothing when the edge is gone.                              *)
PostDetach(i) ==
  /\ OnGoalPage
  /\ i \in page.rows /\ page.button[i] # Null
  /\ BeginDetach(page.button[i])
  /\ page' = [Blank EXCEPT !.kind = "goal", !.step = "detaching", !.focal = page.focal,
                           !.button[i] = page.button[i]]

MyDetach(d) ==
  page.step = "detaching" /\ d.edge \in Range(page.button)

FinishDetach(d) ==
  /\ MyDetach(d)
  /\ \/ /\ CommitDetach(d)
        /\ IF edge[d.edge].live THEN Redirect("goal", page.focal)
                                 ELSE page' = Blank
     \/ AbortDetach(d) /\ page' = Blank

(* handleNewSubmit: no activities, no event time, and goals are open.      *)
InsertSubmitted(n, d) ==
  /\ d.type \in {"research", "decision", "goal"}
  /\ d.status = IF d.type = "goal" THEN "open" ELSE Null
  /\ d.occurred = Null
  /\ BeginInsert(n, d)

NewSubmit(n, d) ==
  /\ page.step \in {"idle", "shown"}
  /\ InsertSubmitted(n, d)
  /\ page' = [Blank EXCEPT !.step = "creating", !.id = n]

MyInsert(n) == page.step = "creating" /\ page.id = n

FinishNew(n) ==
  /\ MyInsert(n)
  /\ \/ CommitInsert(n) /\ Redirect(IF inserting[n].type = "goal" THEN "goal" ELSE "entry", n)
     \/ AbortInsert(n) /\ page' = Blank

Post ==
  \/ \E n \in EntryIds, status \in NewStatuses : PostStatus(status, n)
  \/ \E a \in EntryIds, e \in EdgeIds : PostAttach(a, e)
  \/ \E i \in EntryIds : PostDetach(i)
  \/ \E n \in EntryIds, d \in Drafts : NewSubmit(n, d)
  \/ \E d \in detaching : FinishDetach(d)
  \/ \E n \in EntryIds : FinishNew(n)

-----------------------------------------------------------------------------
(* Other tabs and the batches they start meanwhile.  In a server nothing   *)
(* calls InsertEntry but handleNewSubmit, and Supersede but SetGoalStatus  *)
(* and materializeOne, so an entity keeps its type.  A detach of an edge   *)
(* that is dead already would change nothing and is left out.              *)
Materialize(n, d) ==
  \/ MaterializeEntry(n, d)
  \/ \E old \in Live : /\ entry[old].type = "activity" /\ d.type = "activity"
                       /\ Supersede(old, 0, n, d)

OtherWrites ==
  \/ Tick
  \/ \E n \in EntryIds, d \in Drafts : InsertSubmitted(n, d) \/ Materialize(n, d)
  \/ \E n \in EntryIds : ~MyInsert(n) /\ (CommitInsert(n) \/ AbortInsert(n))
  \/ \E g, n \in EntryIds, status \in NewStatuses : SetGoalStatus(g, status, n)
  \/ \E a, g \in EntryIds, e \in EdgeIds : AttachToGoal(a, g, e)
  \/ \E e \in EdgesNow : BeginDetach(e)
  \/ \E d \in detaching : ~MyDetach(d) /\ (CommitDetach(d) \/ AbortDetach(d))

(* A page on the screen when something else is written: only a live goal   *)
(* page can still post, and its history variables have served.             *)
Later ==
  IF page.step # "shown" THEN page
  ELSE IF OnGoalPage THEN [page EXCEPT !.retired = {}, !.linked = {}, !.dead = {}]
  ELSE Blank

WebInit == Init /\ page = Blank

WebNext ==
  \/ Read
  \/ Post
  \/ OtherWrites /\ page' = Later

WebSpec == WebInit /\ [][WebNext]_webVars

-----------------------------------------------------------------------------
(* A request works on rows that exist, and what it shows is of the entity  *)
(* it was asked for (handlers_detail.go:287).                              *)
PageTypeOK ==
  /\ page \in Page
  /\ page.rows \subseteq DOMAIN entry
  /\ page.focal # Null /\ page.id # Null =>
       page.id \in {entry[page.focal].logical} \cup Chain(entry[page.focal].logical)

(* A live page, made of calls at several instants, shows nothing that was  *)
(* out of date when it was asked for; in particular the page a write       *)
(* redirects to shows the write (handlers_mutate.go:39).                   *)
PageIsFresh ==
  (page.step = "shown" /\ page.at = Null) =>
    /\ page.focal \notin page.retired
    /\ page.kind = "entry" => page.focal \in page.rows
    /\ page.kind # "entry" => page.rows \cap page.retired = {}

(* Header, rows and buttons of a goal page come from three reads.  Every   *)
(* link that was there when the page was asked for and still is has a row  *)
(* with a button that removes it; no row belongs to a link that was gone   *)
(* by then; and a button never names the edge of another pair, also not of *)
(* the pair's version before a supersede (handlers_detail.go:188).         *)
ButtonsFit ==
  (page.step = "shown" /\ page.at = Null /\ page.kind = "goal") =>
    LET goal == entry[page.focal].logical
        Joins(e, i) == edge[e].from = entry[i].logical /\ edge[e].to = goal
    IN  /\ \A e \in page.linked :
             (/\ edge[e].live /\ edge[e].to = goal
              /\ entry[edge[e].from].type = "activity")
             => \E i \in page.rows : Joins(e, i) /\ page.button[i] = e
        /\ \A i \in page.rows : \E e \in DOMAIN edge \ page.dead : Joins(e, i)
        /\ \A i \in page.rows : page.button[i] # Null => Joins(page.button[i], i)

WrittenBy(l, t) == {i \in Chain(l) : entry[i].ingested <= t}

(* The texts of a version's stamps mislead ListEntriesAt about t: it was   *)
(* written in the unit t was cut off to, or t lies in the unit the stamp of*)
(* its successor was cut off to.                                           *)
Misread(i, t, epoch) ==
  \/ CutOff(epoch + t, epoch + entry[i].ingested)
  \/ entry[i].next # Null /\ CutOff(epoch + entry[entry[i].next].ingested, epoch + t)

(* The header of a page as of a past instant, which Go finds by walking the*)
(* chain it loaded, is the last version written by then.  It is also the   *)
(* version ListEntriesAt shows, which compares texts, unless one of the two*)
(* stamps that decide has, but for digits cut off, the text of the instant:*)
(* then they may differ (handlers_detail.go:246, queries_temporal.go:39).  *)
AsOfHeaderAgrees ==
  (page.step = "shown" /\ page.kind # "graph" /\ page.past) =>
    LET l == entry[page.focal].logical
    IN  /\ WrittenBy(l, page.at) # {} => page.focal \in Newest(WrittenBy(l, page.at))
        /\ \A epoch \in Epochs : \A i \in StoredEntriesAt(page.at, epoch) \cap Chain(l) :
             i = page.focal \/ Misread(i, page.at, epoch)

(* In a lane the dots keep the order of their events, none covers another, *)
(* none is left of its instant, and the k-th is at most k - 1 gaps right   *)
(* of it, at every zoom and in whatever order the dots of one instant come *)
(* (layout/timeline.go:38).                                                *)
DotsInOrder ==
  (page.step = "shown" /\ page.kind = "graph") =>
    LET rows == Restrict(entry, page.rows)
    IN  \A home \in T!LaneChoices(rows, page.links) : \A lane \in Range(home) :
          \A bucket \in T!Buckets(rows, home, lane), ppd \in Densities :
            LET xs == T!DotXs(rows, bucket, ppd)
                Event(k) == rows[bucket[k]].occurred
            IN  \A k \in DOMAIN xs :
                  /\ xs[k] - T!XOf(rows, ppd, Event(k)) \in 0 .. (k - 1) * T!MinGap
                  /\ \A j \in 1 .. k - 1 : /\ Event(j) <= Event(k)
                                          /\ xs[j] + T!MinGap <= xs[k]

GraphStep ==
  (page.step = "edges" /\ page'.step = "shown" /\ page.past) =>
    LET rows == Restrict(entry, page.rows)
    IN  \A home \in T!LaneChoices(rows, page'.links) :
          \A i \in T!Dots(rows), g \in T!Goals(rows) :
            rows[i].type = "activity" =>
              (T!DrawnOn(rows, page'.links, home, i, g)
                 <=> i \in GoalActivitiesAt(g, page.at))

(* The graph of a past instant, put together from two queries, lanes and   *)
(* curves, says that an activity belongs to a goal exactly when the page   *)
(* of the goal as of that instant lists it, whatever was superseded or     *)
(* written late in between (handlers_graph.go:57, layout.go:25).           *)
GraphAgreesWithGoalPage == [][GraphStep]_webVars

=============================================================================
