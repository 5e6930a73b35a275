--------------------------- MODULE ProposalReview ----------------------------
(***************************************************************************)
(* The Field sketch screen (mobile/src/screens/RoofSketch.js) and the      *)
(* proposals it shows: a drawing is proposed from what is measured now and *)
(* from the sides the user answered, and a candidate is reviewed beside    *)
(* the sketch while the measurement goes on changing under it. What the    *)
(* solver answers is a parameter: RoofProposal is the solver.              *)
(***************************************************************************)
EXTENDS RoofMeasure

CONSTANTS
    Proposed(_, _), \* generateSketchGeometry: the outcome for a structure and the sides chosen
    Roofs,          \* measurements a structure may start with
    Offered,        \* sides the user may choose; west mirrors east
    MaxEdits,       \* bound: changes of the measurement
    MaxChoices,     \* bound: answers to "which side?", and changes with them
    MaxActs         \* bound: other taps on the sketch screen

VARIABLES
    roof,       \* the measurement on the device: its planes and its roof lines
    screen,     \* the sketch screen: side choices, sketch, proposal and review
    hist        \* edits, choices and taps spent

vars == <<roof, screen, hist>>

(***************************************************************************)
(* The sketch screen.                                                      *)
(***************************************************************************)
\* What a drawing tells about measurements: its planes with pitch and area, its lines with length.
NoSketch == [draw |-> <<>>, facts |-> <<>>, lengths |-> {}, sides |-> <<>>]
Sketch(in, r, sides) ==
    LET edges == {e \in UNION {r.draw[p] : p \in DOMAIN r.draw} : e.line # None}
    IN  [draw |-> r.draw, facts |-> [p \in DOMAIN r.draw |-> <<in.planes[p].pitch, in.planes[p].area>>],
         lengths |-> {<<e.line, e.length>> : e \in edges},
         sides |-> IF r.how = "placed" THEN Restrict(sides, DOMAIN sides \cap r.asks) ELSE <<>>]

\* compareSketchProposal, by the ids of planes and lines alone.
LinesAt(draw, p) == {e.line : e \in draw[p]} \ {None}
TypesAt(draw) == UNION {{<<e.line, e.type>> : e \in draw[p]} : p \in DOMAIN draw}
Identical(a, b, r) ==
    /\ a.facts = b.facts /\ a.lengths = b.lengths
    /\ \A p \in DOMAIN a.draw : LinesAt(a.draw, p) = LinesAt(b.draw, p)
    /\ {t \in TypesAt(a.draw) : t[1] # None} = {t \in TypesAt(b.draw) : t[1] # None}
    /\ r.readiness = "high_confidence"

Closed_ == [open |-> FALSE]
Start == [sides |-> <<>>, sketch |-> NoSketch, new |-> TRUE, proposal |-> Closed_, review |-> Closed_]

Acted == hist.acts < MaxActs /\ hist' = [hist EXCEPT !.acts = @ + 1]
Now == Scope(roof)

\* The measurement changes on the device, by the worksheet or a sync; the effect at
\* RoofSketch.js:321 marks an open review of other data stale.
Change(next) ==
    /\ hist.edits < MaxEdits /\ hist.edits + hist.choices < MaxChoices /\ hist' = [hist EXCEPT !.edits = @ + 1]
    /\ roof' = next /\ next # roof
    /\ screen' = IF screen.review.open /\ Fingerprint(Scope(next)) # screen.review.fingerprint
                 THEN [screen EXCEPT !.review.stale = TRUE] ELSE screen

\* setSide: the answer to "which side does this plane sit on?", or none again.
Asked == IF screen.proposal.open THEN screen.proposal.result.asks
         ELSE IF screen.review.open THEN screen.review.result.asks ELSE {}
SetSide(p, k) ==
    /\ hist.edits + hist.choices < MaxChoices /\ hist' = [hist EXCEPT !.choices = @ + 1]
    /\ p \in DOMAIN screen.sides => screen.sides[p] # k
    /\ screen' = [screen EXCEPT !.sides = [q \in DOMAIN @ \cup {p} |-> IF q = p THEN k ELSE @[q]]]
    /\ UNCHANGED roof

\* generateProposed, on an empty new sketch, and again from its side choices.
generateProposed ==
    /\ Acted /\ screen.new /\ screen.sketch = NoSketch
    /\ screen.proposal.open => screen.proposal.result.asks # {} /\ screen.sides # <<>>
    /\ screen' = [screen EXCEPT !.proposal = LET r == Proposed(Now, screen.sides)
                                              IN  [open |-> TRUE, result |-> r, doc |-> Sketch(Now, r, screen.sides)]]
    /\ UNCHANGED roof
useProposed ==
    /\ Acted /\ screen.proposal.open /\ screen.proposal.result.draw # <<>>
    /\ screen' = [screen EXCEPT !.sketch = screen.proposal.doc, !.proposal = Closed_]
    /\ UNCHANGED roof
cancelProposed ==
    /\ Acted /\ screen.proposal.open
    /\ screen' = [screen EXCEPT !.proposal = Closed_]
    /\ UNCHANGED roof

\* regenerate: a separate candidate beside the sketch, with what it was generated from.
regenerate ==
    /\ Acted /\ ~screen.new /\ screen.sketch # NoSketch
    /\ screen.review.open => screen.review.result.asks # {} /\ screen.sides # <<>>
    /\ LET r == Proposed(Now, screen.sides)
           candidate == Sketch(Now, r, screen.sides)
       IN  screen' = [screen EXCEPT !.review = [open |-> TRUE, sides |-> screen.sides, result |-> r, doc |-> candidate,
                                                identical |-> Identical(screen.sketch, candidate, r),
                                                fingerprint |-> Fingerprint(Now), stale |-> FALSE, confirm |-> FALSE]]
    /\ UNCHANGED roof
regenKeep ==
    /\ Acted /\ screen.review.open
    /\ screen' = [screen EXCEPT !.review = Closed_]
    /\ UNCHANGED roof
\* regenUse: refused on a stale review; the second tap replaces the sketch.
regenUse ==
    /\ Acted /\ screen.review.open /\ ~screen.review.stale /\ screen.review.result.draw # <<>>
    /\ screen' = IF ~screen.review.confirm THEN [screen EXCEPT !.review.confirm = TRUE]
                 ELSE [screen EXCEPT !.sketch = screen.review.doc, !.review = Closed_]
    /\ UNCHANGED roof

\* The screen is left and opened again: the draft comes back, with the sides it was laid out from.
Reopen ==
    /\ Acted /\ screen.sketch # NoSketch
    /\ screen' = [Start EXCEPT !.sketch = screen.sketch, !.new = FALSE, !.sides = screen.sketch.sides]
    /\ UNCHANGED roof

(***************************************************************************)
(* Changes a measurement can undergo.                                      *)
(***************************************************************************)
Planes == DOMAIN roof.planes
EditLine(l) ==
    \/ \E t \in Junctions \cup {"eave", "rake"} : Change([roof EXCEPT !.lines[l].type = t])
    \/ \E d \in {0, 5} : Change([roof EXCEPT !.lines[l].length = d])
    \/ \E p \in Planes \cup {None} : Change([roof EXCEPT !.lines[l].p = p]) \/ Change([roof EXCEPT !.lines[l].s = p])
DropLine(l) == Change([roof EXCEPT !.lines = Restrict(@, DOMAIN @ \ {l})])
EditPlane(p) ==
    \/ \E v \in {None, 0, 9} : Change([roof EXCEPT !.planes[p].pitch = v])
    \/ \E v \in {0, 10} : Change([roof EXCEPT !.planes[p].width = v]) \/ Change([roof EXCEPT !.planes[p].length = v])
    \/ \E v \in {0, 500} : Change([roof EXCEPT !.planes[p].area = v])
    \/ Change([roof EXCEPT !.planes[p].offset = 15])
\* Removing a plane clears the lines that named it.
DropPlane(p) ==
    Change([planes |-> Restrict(roof.planes, Planes \ {p}),
            lines |-> [l \in DOMAIN roof.lines |-> [roof.lines[l] EXCEPT !.p = IF @ = p THEN None ELSE @,
                                                                         !.s = IF @ = p THEN None ELSE @]]])

\* The screen opens on a structure never sketched, or on the sketch its roof was once given.
Init ==
    /\ roof \in Roofs
    /\ LET r == Proposed(Scope(roof), <<>>)
       IN  screen \in {Start} \cup (IF r.draw = <<>> THEN {}
                                  ELSE {[Start EXCEPT !.new = FALSE, !.sketch = Sketch(Scope(roof), r, <<>>)]})
    /\ hist = [edits |-> 0, choices |-> 0, acts |-> 0]

Next ==
    \/ \E l \in DOMAIN roof.lines : EditLine(l) \/ DropLine(l)
    \/ \E p \in Planes : EditPlane(p) \/ DropPlane(p)
    \/ \E p \in Asked, k \in Offered : SetSide(p, k)
    \/ generateProposed \/ useProposed \/ cancelProposed
    \/ regenerate \/ regenKeep \/ regenUse \/ Reopen

Spec == Init /\ [][Next]_vars

\* A review not marked stale shows what the measurements now give, for the sides it was
\* generated with (RoofSketch.js:318 "so a now-outdated candidate can never be presented as current").
ReviewIsCurrent ==
    LET v == screen.review
    IN  v.open /\ ~v.stale => v.result = Proposed(Now, v.sides)
=============================================================================
