---------------------------- MODULE LabelsProofs ----------------------------
(***************************************************************************)
(* Theorems about Labels, for every set of ids, drafts and label requests. *)
(***************************************************************************)
EXTENDS Labels, EntryStoreProofs

-----------------------------------------------------------------------------
(* Labels and the entry store.                                             *)

(* To the tables of EntryStore a step is one of its own steps or nothing.  *)
LEMMA LabelStepIsStoreStep ==
  ASSUME [LabelNext]_labelVars
  PROVE  [Next]_vars
<1>1. ASSUME NEW i, NEW request, SetLabels(i, request) PROVE UNCHANGED vars
  BY <1>1 DEF SetLabels
<1> QED BY <1>1 DEF LabelNext, labelVars

(* labels.go:16, migration 0012: labels are a table beside the entries.    *)
(* With them the store still does what EntryStore says, so every theorem   *)
(* about EntryStore holds of it.                                           *)
THEOREM LabelsRestOnStore == LabelSpec => Spec
<1>1. LabelInit => Init
  BY DEF LabelInit
<1>2. [LabelNext]_labelVars => [Next]_vars
  BY LabelStepIsStoreStep
<1> QED BY <1>1, <1>2, PTL DEF LabelSpec, Spec

(* labels.go:41: setting labels breaks none of the store's promises.       *)
THEOREM LabelsKeepPromises == LabelSpec => StorePromises
BY LabelsRestOnStore, StoreKeepsItsPromises

(* The invariant of EntryStore holds while labels are set.                 *)
LEMMA LabelInvariance == LabelSpec => []IInv
BY LabelsRestOnStore, Invariance, PTL

-----------------------------------------------------------------------------
(* The labels of a version.                                                *)

(* What is written to the entries keeps the rows that were there and their *)
(* types, and adds at most rows of ids that had none.                      *)
LEMMA TypesKept ==
  ASSUME IInv, [Next]_vars, NEW i \in DOMAIN entry
  PROVE  i \in DOMAIN entry' /\ entry'[i].type = entry[i].type
<1>1. EntryStep
  BY StepKinds DEF IInv
<1>2. ASSUME NEW n \in EntryIds, Inserted(n)
      PROVE  i \in DOMAIN entry' /\ entry'[i].type = entry[i].type
  BY <1>2 DEF Inserted
<1>3. ASSUME NEW old \in EntryIds, NEW n \in EntryIds, Superseded(old, n)
      PROVE  i \in DOMAIN entry' /\ entry'[i].type = entry[i].type
  <2>1. i \in DOMAIN entry' /\ (i # old => entry'[i] = entry[i])
    BY <1>3 DEF Superseded
  <2>2. CASE i = old
    <3>1. entry[old] \in Row /\ entry'[old] = [entry[old] EXCEPT !.current = FALSE, !.next = n]
      BY <1>3, <2>2 DEF Superseded, IInv, TypeOK
    <3>2. entry'[old].type = entry[old].type
      BY <3>1 DEF Row
    <3> QED BY <2>1, <2>2, <3>2
  <2> QED BY <2>1, <2>2
<1>4. CASE EntriesKept
  BY <1>4 DEF EntriesKept
<1> QED BY <1>1, <1>2, <1>3, <1>4 DEF EntryStep

(* labels.go:41: every row of entry_labels belongs to a version that is    *)
(* there and says something its type does not say already.                 *)
THEOREM LabelsSaySomethingElse == LabelSpec => []LabelsAreSecondary
<1>1. LabelInit => LabelsAreSecondary
  BY DEF LabelInit, LabelsAreSecondary
<1>2. ASSUME IInv, LabelsAreSecondary, [LabelNext]_labelVars
      PROVE  LabelsAreSecondary'
  <2>1. ASSUME NEW i, NEW request, SetLabels(i, request) PROVE LabelsAreSecondary'
    <3>1. i \in DOMAIN entry /\ entry' = entry
      BY <2>1 DEF SetLabels, Live, vars
    <3>2. \A l \in Range(request) : l \in SecondaryLabels \ {entry[i].type}
      BY <2>1 DEF SetLabels, ValidLabels
    <3>3. ASSUME NEW p \in label', p \notin label
          PROVE  p[1] = i /\ p[2] \in Range(request)
      BY <2>1, <3>3 DEF SetLabels
    <3> QED BY <1>2, <3>1, <3>2, <3>3 DEF LabelsAreSecondary
  <2>2. CASE label' = label
    <3>1. \A i \in DOMAIN entry : i \in DOMAIN entry' /\ entry'[i].type = entry[i].type
      BY <1>2, LabelStepIsStoreStep, TypesKept
    <3> QED BY <1>2, <2>2, <3>1 DEF LabelsAreSecondary
  <2> QED BY <1>2, <2>1, <2>2 DEF LabelNext, labelVars
<1> QED BY <1>1, <1>2, LabelInvariance, PTL DEF LabelSpec

(* labels.go:69, :90: a retired version keeps its labels for ever, a new   *)
(* version starts without any, and no write to the entries moves a label.  *)
THEOREM LabelsStay == LabelSpec => LabelsStayWithTheirVersion
<1>1. ASSUME IInv, LabelsAreSecondary, [LabelNext]_labelVars
      PROVE  [LabelStep]_labelVars
  <2>1. ASSUME NEW i, NEW request, SetLabels(i, request) PROVE LabelStep
    <3>1. i \in Live /\ entry' = entry
      BY <2>1 DEF SetLabels, vars
    <3>2. \A j : j # i => GetLabels(j)' = GetLabels(j)
      BY <2>1 DEF SetLabels, GetLabels
    <3> QED BY <3>1, <3>2 DEF LabelStep, Live
  <2>2. CASE Next /\ label' = label
    <3>1. \A j : GetLabels(j)' = GetLabels(j)
      BY <2>2 DEF GetLabels
    <3>2. ASSUME NEW j \in Live' \ Live PROVE j \notin DOMAIN entry
      <4>1. EntryStep
        BY <1>1, <2>2, StepKinds DEF IInv
      <4>2. ASSUME NEW n \in EntryIds, Inserted(n) PROVE j \notin DOMAIN entry
        BY <4>2 DEF Inserted, Live
      <4>3. ASSUME NEW old \in EntryIds, NEW n \in EntryIds, Superseded(old, n)
            PROVE  j \notin DOMAIN entry
        <5>1. entry[old] \in Row /\ ~entry'[old].current
          BY <1>1, <4>3 DEF Superseded, Live, IInv, TypeOK, Row
        <5> QED BY <4>3, <5>1 DEF Superseded, Live
      <4>4. CASE EntriesKept
        BY <4>4 DEF EntriesKept, Live
      <4> QED BY <4>1, <4>2, <4>3, <4>4 DEF EntryStep
    <3>3. \A j \in Live' \ Live : GetLabels(j) = {}
      BY <1>1, <3>2 DEF LabelsAreSecondary, GetLabels
    <3> QED BY <3>1, <3>3 DEF LabelStep
  <2> QED BY <1>1, <2>1, <2>2 DEF LabelNext
<1> QED
  BY <1>1, LabelInvariance, LabelsSaySomethingElse, PTL
     DEF LabelSpec, LabelsStayWithTheirVersion

=============================================================================
