----------------------------- MODULE RoofMeasure -----------------------------
(***************************************************************************)
(* What is measured of the roof of one structure, as the solver of         *)
(* packages/roof-sketch-core takes it and the Field sketch screen          *)
(* (mobile/src/screens/RoofSketch.js) remembers it. Ids are numbers, whose *)
(* order is the order of the rows. The fingerprint is the data it digests: *)
(* two digests of 32 bits never collide here.                              *)
(***************************************************************************)
EXTENDS Integers, Functions

CONSTANT Here   \* the structure the sketch is of

None == -1      \* a roof line without a length or without a plane

Valleys == {"valley", "dead_valley"}
Junctions == Valleys \cup {"ridge", "hip"}

\* What is known of a structure: its planes, its lines, the planes of its own each line names,
\* and its adjacency, the lines with both ends on them.
Known(planes, lines) ==
    [planes |-> planes, lines |-> lines,
     named |-> [l \in DOMAIN lines |-> {lines[l].p, lines[l].s} \cap DOMAIN planes],
     shared |-> {l \in DOMAIN lines : {lines[l].p, lines[l].s} \subseteq DOMAIN planes}]

\* scopeStructureForGenerator: the structure's planes, and the lines that name one.
Scope(meas) ==
    LET own == {p \in DOMAIN meas.planes : meas.planes[p].st = Here}
    IN  Known(Restrict(meas.planes, own),
              Restrict(meas.lines, {l \in DOMAIN meas.lines : {meas.lines[l].p, meas.lines[l].s} \cap own # {}}))

Own(in) == DOMAIN in.planes

Fingerprint_NoOffset(in) == <<[p \in Own(in) |-> [in.planes[p] EXCEPT !.offset = 0]], in.lines>>

\* _fingerprint: what of its input a proposal is remembered by.
Fingerprint(in) == <<in.planes, in.lines>>
=============================================================================
