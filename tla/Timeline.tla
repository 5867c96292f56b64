------------------------------ MODULE Timeline ------------------------------
(***************************************************************************)
(* The geometry of the graph page (internal/web/layout: assignLanes,       *)
(* BuildTimeline, buildEdges).  Pure: from the rows and the links a        *)
(* handler loaded to lanes, dots and drawn edges.  Rows are a function     *)
(* from ids to entries, links a set of pairs of logical_ids.  An instant   *)
(* is a day and a position a whole pixel; the code's float64 rounds less.  *)
(***************************************************************************)
EXTENDS Integers, SequencesExt, FiniteSetsExt

CONSTANT Orphan  \* the lane of the entries that belong to no drawn goal

DefaultPxPerDay == 160
MinPxPerDay == 6
MaxPxPerDay == 6000
BandLeft == 178    \* tlTitleW + tlLeftPad
MinGap == 17
MinSpanPx == 240
FarLeft == -1000000000

-----------------------------------------------------------------------------
(* assignLanes: a lane per goal, and one for the orphans.                  *)

(* The identity edges resolve against; a faulty variant takes the version. *)
EntryKeyByVersion(rows, i) == i

EntryKey(rows, i) == rows[i].logical

Goals(rows) == {i \in DOMAIN rows : rows[i].type = "goal"}

Dots(rows) == DOMAIN rows \ Goals(rows)

HomeGoals(rows, links, i) ==
  {g \in Goals(rows) : <<EntryKey(rows, i), EntryKey(rows, g)>> \in links}

(* An entry is at home on one of its goals: the one whose uuid sorts first,*)
(* which may be any of them.                                               *)
LaneChoices(rows, links) ==
  {home \in [Dots(rows) -> Goals(rows) \cup {Orphan}] :
     \A i \in Dots(rows) :
       IF HomeGoals(rows, links, i) = {}
         THEN home[i] = Orphan
         ELSE home[i] \in HomeGoals(rows, links, i)}

LaneOf(rows, home, i) == IF i \in Dots(rows) THEN home[i] ELSE i

(* buildEdges: the links drawn as curves, those between two lanes.         *)
Paths(rows, links, home) ==
  {l \in links : \E i, j \in DOMAIN rows :
      /\ l = <<EntryKey(rows, i), EntryKey(rows, j)>>
      /\ LaneOf(rows, home, i) # LaneOf(rows, home, j)}

(* What a reader of the picture takes for "i belongs to goal g".           *)
DrawnOn(rows, links, home, i, g) ==
  \/ home[i] = g
  \/ <<EntryKey(rows, i), EntryKey(rows, g)>> \in Paths(rows, links, home)

-----------------------------------------------------------------------------
(* BuildTimeline: where the dots of a lane go at a density of ppd pixels.  *)

ClampPxPerDay(p) ==
  IF p <= 0 THEN DefaultPxPerDay
  ELSE IF p < MinPxPerDay THEN MinPxPerDay
  ELSE IF p > MaxPxPerDay THEN MaxPxPerDay
  ELSE p

(* occurredRange: from the first to the last event on the timeline.        *)
Occurred(rows) == {rows[i].occurred : i \in Dots(rows)}

SpanDays(rows) == Max(Occurred(rows)) - Min(Occurred(rows))

SpanPx(rows, ppd) ==
  Max({SpanDays(rows) * ClampPxPerDay(ppd), MinSpanPx})

XOf(rows, ppd, t) ==
  IF SpanDays(rows) = 0
    THEN BandLeft
    ELSE BandLeft + ((t - Min(Occurred(rows))) * SpanPx(rows, ppd)) \div SpanDays(rows)

(* The dots of a lane in the order of their events.  sort.Slice is not     *)
(* stable, so dots of one instant come in any order.                       *)
Buckets(rows, home, lane) ==
  {bucket \in SetToSeqs({i \in Dots(rows) : home[i] = lane}) :
     \A k \in DOMAIN bucket : \A j \in 1 .. k - 1 :
       rows[bucket[j]].occurred <= rows[bucket[k]].occurred}

(* A dot too close to the one before it is pushed to the right.  A faulty  *)
(* variant pushes it only off a dot in the very same place.                *)
NudgeOffOverlap(wish, before) == IF wish = before THEN before + MinGap ELSE wish

Nudge(wish, before) == Max({wish, before + MinGap})

Placed(wished) ==
  LET x[k \in 0 .. Len(wished)] ==
        IF k = 0 THEN FarLeft ELSE Nudge(wished[k], x[k - 1])
  IN  [k \in DOMAIN wished |-> x[k]]

DotXs(rows, bucket, ppd) ==
  Placed([k \in DOMAIN bucket |-> XOf(rows, ppd, rows[bucket[k]].occurred)])

=============================================================================
