------------------------------- MODULE Labels -------------------------------
(***************************************************************************)
(* Secondary labels (internal/repository/labels.go, web/handlers_labels.go)*)
(* on top of EntryStore: the entry_labels table, which hangs on the id of  *)
(* one version of an entry, and the call that replaces a version's labels. *)
(* Nothing else writes the table, so a supersede leaves the labels behind. *)
(***************************************************************************)
EXTENDS EntryStore, Sequences

CONSTANT LabelRequests  \* the label lists clients post, bodies decoded
ASSUME LabelAssumption == LabelRequests \subseteq Seq(Types)

VARIABLE label  \* entry_labels: pairs of an entry id and a label

labelVars == <<vars, label>>

SecondaryLabels == Types \ {"goal"}

GetLabels(i) == {l \in SecondaryLabels : <<i, l>> \in label}

EntriesWithLabel(l) == {i \in Live : entry[i].type = l \/ l \in GetLabels(i)}

-----------------------------------------------------------------------------
LabelInit == Init /\ label = {}

(* What SetLabels refuses: goal, the entry's own type, a label given twice.*)
(* The faulty variant lets the entry's own type pass.                      *)
ValidButForType(i, request) ==
  Range(request) \subseteq SecondaryLabels /\ IsInjective(request)

ValidLabels(i, request) ==
  /\ Range(request) \subseteq SecondaryLabels \ {entry[i].type}
  /\ IsInjective(request)

(* A faulty variant does not ask whether the version is live.              *)
SetLabelsOfAny(i, request) ==
  /\ i \in DOMAIN entry
  /\ ValidLabels(i, request)
  /\ label' = {p \in label : p[1] # i} \cup ({i} \X Range(request))
  /\ UNCHANGED vars

(* SetLabels, one transaction: the version must be live; its labels are    *)
(* deleted and the new ones inserted.                                      *)
SetLabels(i, request) ==
  /\ i \in Live
  /\ ValidLabels(i, request)
  /\ label' = {p \in label : p[1] # i} \cup ({i} \X Range(request))
  /\ UNCHANGED vars

LabelNext ==
  \/ Next /\ UNCHANGED label
  \/ \E i \in EntryIds, request \in LabelRequests : SetLabels(i, request)

LabelSpec == LabelInit /\ [][LabelNext]_labelVars

-----------------------------------------------------------------------------
(* A label hangs on a row that is there and says something its type does   *)
(* not say already, whatever versions replaced the row since, so that the  *)
(* effective labels, the type and the rows of entry_labels together, name  *)
(* each aspect once (labels.go:41, migration 0012).                        *)
LabelsAreSecondary ==
  \A p \in label : /\ p[1] \in DOMAIN entry
                   /\ p[2] \in SecondaryLabels \ {entry[p[1]].type}

LabelStep ==
  /\ \A i \in DOMAIN entry \ Live : GetLabels(i)' = GetLabels(i)
  /\ \A j \in Live' \ Live : GetLabels(j)' = {}
  /\ entry' # entry => \A i \in DOMAIN entry : GetLabels(i)' = GetLabels(i)

(* Labels belong to a version: what a retired version was labelled stays   *)
(* on record for ever, and every new version, so also a status change of a *)
(* goal, starts without any until somebody labels it again; no write to    *)
(* the entries moves or drops a label (labels.go:69, :90).                 *)
LabelsStayWithTheirVersion == [][LabelStep]_labelVars

=============================================================================
