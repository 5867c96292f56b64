------------------------------ MODULE NodeEdit ------------------------------
(***************************************************************************)
(* Editing nodes by hand in the web UI: handlers_node_write.go over the    *)
(* nodes and nodes_fts tables (nodes.go).                                  *)
(*                                                                         *)
(* A handler is one goroutine per request; each of its Service calls takes *)
(* the single database connection by itself, so handlers interleave        *)
(* between their calls, and a form may be posted long after it was         *)
(* rendered.  What a client has on its screen is part of the state.        *)
(***************************************************************************)
EXTENDS Integers, FiniteSets

CONSTANTS NodeIds,  \* uuids of node rows
          Clients,  \* browser tabs
          MaxTime,  \* the clock stops there (bound of the model)
          Null

Times == 0 .. MaxTime

(* basis and kept are history variables: the version whose text the author *)
(* of this one had in the form, and whether the form had been re-rendered  *)
(* around that text.                                                       *)
Row == [logical  : NodeIds,
        version  : Nat \ {0},
        occurred : Times,
        ingested : Times,
        current : BOOLEAN,
        next    : NodeIds \cup {Null},
        basis   : NodeIds \cup {Null},
        kept    : BOOLEAN]

(* node_form.html: the POST target, the hidden expected_version, and (not  *)
(* in the code) the version its text came from and whether an input error  *)
(* re-rendered it around that text.                                        *)
Form == [id : NodeIds, expected : Nat, basis : NodeIds, kept : BOOLEAN]

ASSUME NodeAssumption ==
  /\ MaxTime \in Nat
  /\ Null \notin NodeIds \cup Form \cup [key : NodeIds, version : Nat]

(* Where a request is: between which two of its Service calls.             *)
Request == [at       : {"idle", "edit", "post", "save", "conflict"},
            logical  : NodeIds \cup {Null},
            live     : NodeIds \cup {Null},
            expected : Nat,
            blank    : BOOLEAN]

VARIABLES
  node,     \* nodes: id -> row
  fts,      \* nodes_fts: the ids with a search row
  form,     \* client -> the edit form on its screen, or Null
  request,  \* client -> its request in progress
  clock     \* time.Now

vars == <<node, fts, form, request, clock>>

Idle == [at |-> "idle", logical |-> Null, live |-> Null, expected |-> 0, blank |-> FALSE]

Live == {i \in DOMAIN node : node[i].current}

(* GetLiveNodeByLogicalID                                                  *)
Head(l) == {i \in Live : node[i].logical = l}

(* ListNodesAt, archived nodes included and without a limit.  Instants are *)
(* compared as such, as in EntryStore's time-travel queries.               *)
NodesAt(t) ==
  {i \in DOMAIN node :
     /\ node[i].ingested <= t
     /\ node[i].occurred <= t
     /\ node[i].next = Null \/ node[node[i].next].ingested > t}

(* A row is written only while an id is left for every edit under way      *)
(* (bound of the model: the real ids do not run out).                      *)
Room ==
  Cardinality(DOMAIN node) + Cardinality({c \in Clients : request[c].at \in {"post", "save"}})
    < Cardinality(NodeIds)

Put(f, k, v) == [x \in DOMAIN f \cup {k} |-> IF x = k THEN v ELSE f[x]]

-----------------------------------------------------------------------------
Init ==
  /\ node = << >>
  /\ fts = {}
  /\ form = [c \in Clients |-> Null]
  /\ request = [c \in Clients |-> Idle]
  /\ clock = 0

Tick ==
  /\ clock < MaxTime
  /\ clock' = clock + 1
  /\ UNCHANGED <<node, fts, form, request>>

(* handleNodeCreate and createNodeTx, which stamps inside its transaction. *)
CreateNode(n) ==
  /\ Room
  /\ n \in NodeIds \ DOMAIN node
  /\ node' = Put(node, n, [logical |-> n, version |-> 1, current |-> TRUE,
                           occurred |-> clock, ingested |-> clock,
                           next |-> Null, basis |-> Null, kept |-> FALSE])
  /\ fts' = fts \cup {n}
  /\ UNCHANGED <<form, request, clock>>

(* GET /nodes/{id}/edit, id any version: liveNodeFor reads the row ...     *)
OpenForm(c, id) ==
  /\ request[c].at = "idle"
  /\ id \in DOMAIN node
  /\ request' = [request EXCEPT ![c] = [Idle EXCEPT !.at = "edit",
                                                    !.logical = node[id].logical]]
  /\ UNCHANGED <<node, fts, form, clock>>

(* editFormFor: a form prefilled from version j.  The faulty variant posts *)
(* it to what superseded j.                                                *)
FormForNext(j) ==
  [id |-> node[j].next, expected |-> node[j].version, basis |-> j, kept |-> FALSE]

FormFor(j) == [id |-> j, expected |-> node[j].version, basis |-> j, kept |-> FALSE]

(* ... and then the live head of its chain.                                *)
RenderForm(c) ==
  /\ request[c].at = "edit"
  /\ \E j \in Head(request[c].logical) : form' = [form EXCEPT ![c] = FormFor(j)]
  /\ request' = [request EXCEPT ![c] = Idle]
  /\ UNCHANGED <<node, fts, clock>>

(* POST /nodes/{id}: the form on the screen, however old, with its         *)
(* expected_version or without (0 when the field is missing or garbled),   *)
(* and a title or a blank one.  GetNode resolves the chain.                *)
Submit(c, expected, blank) ==
  /\ request[c].at = "idle"
  /\ form[c] # Null
  /\ Room
  /\ expected \in {form[c].expected, 0}
  /\ request' = [request EXCEPT ![c] =
                   [at |-> "post", logical |-> node[form[c].id].logical,
                    live |-> Null, expected |-> expected, blank |-> blank]]
  /\ UNCHANGED <<node, fts, form, clock>>

(* A faulty variant of the next step: no version check before the write,   *)
(* SupersedeNode's own is enough.                                          *)
ReadLiveUnchecked(c) ==
  /\ request[c].at = "post"
  /\ \E j \in Head(request[c].logical) :
       /\ request[c].blank => form' = [form EXCEPT ![c].id = j,
                                                   ![c].expected = node[j].version,
                                                   ![c].kept = TRUE]
       /\ ~request[c].blank => form' = form
       /\ request' = [request EXCEPT ![c] =
            IF request[c].blank THEN Idle
            ELSE [@ EXCEPT !.at = "save", !.live = j]]
  /\ UNCHANGED <<node, fts, clock>>

(* handleNodeUpdate reads the live head.  A blank title re-renders the     *)
(* form of that head around the text the user sent; a version other than   *)
(* the expected one is a conflict; otherwise the head is to be superseded. *)
ReadLive(c) ==
  /\ request[c].at = "post"
  /\ \E j \in Head(request[c].logical) :
       \/ /\ request[c].blank
          /\ form' = [form EXCEPT ![c].id = j, ![c].expected = node[j].version,
                                  ![c].kept = TRUE]
          /\ request' = [request EXCEPT ![c] = Idle]
       \/ /\ ~request[c].blank
          /\ request[c].expected # node[j].version
          /\ request' = [request EXCEPT ![c].at = "conflict"]
          /\ UNCHANGED form
       \/ /\ ~request[c].blank
          /\ request[c].expected = node[j].version
          /\ request' = [request EXCEPT ![c].at = "save", ![c].live = j]
          /\ UNCHANGED form
  /\ UNCHANGED <<node, fts, clock>>

(* The row SupersedeNode inserts: the next version of the old one's chain, *)
(* with its event time and a stamp taken inside the transaction.  The      *)
(* faulty variant keeps the stamp of the version it replaces.              *)
NewVersionUnstamped(c, old) ==
  [logical  |-> node[old].logical,
   version  |-> node[old].version + 1,
   occurred |-> node[old].occurred,
   ingested |-> node[old].ingested,
   current |-> TRUE,
   next    |-> Null,
   basis   |-> form[c].basis,
   kept    |-> form[c].kept]

NewVersion(c, old) ==
  [logical  |-> node[old].logical,
   version  |-> node[old].version + 1,
   occurred |-> node[old].occurred,
   ingested |-> clock,
   current |-> TRUE,
   next    |-> Null,
   basis   |-> form[c].basis,
   kept    |-> form[c].kept]

(* SupersedeNode's guards: old is still the live version and, unless the   *)
(* caller passed 0, still has the version the caller saw.  The faulty      *)
(* variant takes expected for the number of the version to be written.     *)
ExpectsNext(old, expected) ==
  /\ old \in Live
  /\ expected > 0 => node[old].version + 1 = expected

MaySupersede(old, expected) ==
  /\ old \in Live
  /\ expected > 0 => node[old].version = expected

(* The search index; the faulty variant forgets the retired version.       *)
KeepIndex(old, n) == fts' = fts \cup {n}

Reindex(old, n) == fts' = (fts \ {old}) \cup {n}

(* A faulty variant tries a refused write again until it is accepted.      *)
SaveInsists(c, n) ==
  /\ request[c].at = "save"
  /\ LET old == request[c].live
     IN  /\ MaySupersede(old, request[c].expected)
         /\ n \in NodeIds \ DOMAIN node
         /\ node' = Put([node EXCEPT ![old].current = FALSE, ![old].next = n],
                        n, NewVersion(c, old))
         /\ Reindex(old, n)
         /\ request' = [request EXCEPT ![c] = Idle]
  /\ UNCHANGED <<form, clock>>

(* SupersedeNode in one transaction; a refusal is answered as a conflict.  *)
Save(c, n) ==
  /\ request[c].at = "save"
  /\ LET old == request[c].live
     IN  \/ /\ MaySupersede(old, request[c].expected)
            /\ n \in NodeIds \ DOMAIN node
            /\ node' = Put([node EXCEPT ![old].current = FALSE, ![old].next = n],
                           n, NewVersion(c, old))
            /\ Reindex(old, n)
            /\ request' = [request EXCEPT ![c] = Idle]
         \/ /\ ~MaySupersede(old, request[c].expected)
            /\ request' = [request EXCEPT ![c].at = "conflict"]
            /\ UNCHANGED <<node, fts>>
  /\ UNCHANGED <<form, clock>>

(* renderConflict: reload the live head and show it with the banner.       *)
RenderConflict(c) ==
  /\ request[c].at = "conflict"
  /\ \E j \in Head(request[c].logical) : form' = [form EXCEPT ![c] = FormFor(j)]
  /\ request' = [request EXCEPT ![c] = Idle]
  /\ UNCHANGED <<node, fts, clock>>

(* A Service call fails, or the client goes away and cancels it: the       *)
(* request ends with an error page, the form stays on the screen.          *)
Fail(c) ==
  /\ request[c].at # "idle"
  /\ request' = [request EXCEPT ![c] = Idle]
  /\ UNCHANGED <<node, fts, form, clock>>

(* What the server does for a request once it has arrived.                 *)
Handle(c) ==
  \/ RenderForm(c)
  \/ ReadLive(c)
  \/ \E n \in NodeIds : Save(c, n)
  \/ RenderConflict(c)

Next ==
  \/ Tick
  \/ \E n \in NodeIds : CreateNode(n)
  \/ \E c \in Clients, id \in NodeIds : OpenForm(c, id)
  \/ \E c \in Clients, expected \in 0 .. Cardinality(NodeIds), blank \in BOOLEAN :
        Submit(c, expected, blank)
  \/ \E c \in Clients : Handle(c) \/ Fail(c)

Spec == Init /\ [][Next]_vars

(* A handler goroutine whose next call can be served is served: net/http   *)
(* runs every request and database/sql hands the connection to waiters in  *)
(* order.  Nothing makes a client open or send a form.                     *)
FairSpec == Spec /\ \A c \in Clients : WF_vars(Handle(c))

-----------------------------------------------------------------------------
(* What the tables and the handlers must satisfy.                          *)

(* Rows, forms and requests have their types, and a form names rows that   *)
(* exist.                                                                  *)
TypeOK ==
  /\ DOMAIN node \subseteq NodeIds /\ node \in [DOMAIN node -> Row]
  /\ fts \subseteq NodeIds
  /\ form \in [Clients -> Form \cup {Null}]
  /\ \A c \in Clients : form[c] # Null => {form[c].id, form[c].basis} \subseteq DOMAIN node
  /\ request \in [Clients -> Request]
  /\ clock \in Times

(* Every chain of versions has one live head, which is what the search     *)
(* index holds, in every interleaving of handlers (nodes.go:222).          *)
OneHead ==
  /\ \A i \in DOMAIN node : \E j \in Live : Head(node[i].logical) = {j}
  /\ fts = Live

(* handlers_node_write.go:139: no edit is written over a version its       *)
(* author has not seen.  It holds for every form but those that were       *)
(* re-rendered around the user's text after an input error.                *)
NoLostUpdate ==
  \A i \in DOMAIN node :
    node[i].next # Null => node[node[i].next].basis = i \/ node[node[i].next].kept

(* handlers_node_write.go:143: "conflict" is answered only when the form   *)
(* really is outdated, or came without a version: the live version is not  *)
(* the expected one, and the user's retry starts from another version.     *)
ConflictIsReal ==
  \A c \in Clients : request[c].at = "conflict" =>
    \A j \in Head(request[c].logical) : node[j].version # request[c].expected

NodePastStep ==
  /\ NodesAt(clock)' = Live'
  /\ \A t \in 0 .. clock' - 1 : NodesAt(t)' = NodesAt(t)

(* Asked for now, ListNodesAt answers what ListNodes answers, and once the *)
(* instant is over that stays its answer for ever: unlike entries, nodes   *)
(* are stamped inside the transaction that writes them (nodes.go:200).     *)
PastNodesAreFixed == [][NodePastStep]_vars

(* Every request that arrives is answered: no interleaving leaves a        *)
(* handler without a next step (handlers_node_write.go:137).               *)
EveryRequestIsAnswered ==
  \A c \in Clients : request[c].at # "idle" ~> request[c].at = "idle"

(* The nodes, named by the first version of each.                          *)
Heads == {i \in DOMAIN node : node[i].logical = i}

Register == INSTANCE VersionedRegister WITH
  Keys <- NodeIds,
  None <- Null,
  register <- [l \in Heads |-> node[CHOOSE j \in Live : node[j].logical = l].version],
  ticket <- [c \in Clients |->
               IF form[c] = Null THEN Null
               ELSE [key |-> node[form[c].id].logical, version |-> form[c].expected]]

(* The edits of a node are compare-and-swap on its version: the handlers   *)
(* implement the versioned register, the hidden expected_version of the    *)
(* form on the screen being the ticket (handlers_node_write.go:212).       *)
EditsAreCompareAndSwap == Register!Spec

-----------------------------------------------------------------------------
(* A comment of the code that does not hold.                               *)

(* handlers_node_write.go:16, :145: a concurrent edit is never silently    *)
(* clobbered: what an edit replaces is what its author had on the screen.  *)
NoSilentOverwrite ==
  \A i \in DOMAIN node : node[i].next # Null => node[node[i].next].basis = i

=============================================================================
